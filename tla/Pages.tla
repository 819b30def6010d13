------------------------------- MODULE Pages -------------------------------
(***************************************************************************)
(* What the modules of the browser front end (panel/resources/js) share:   *)
(* the sets a page's data are drawn from, the bounds of an instance, and   *)
(* the requests of a page.                                                 *)
(*                                                                         *)
(* A page sends a request, the panel carries it out or refuses it in one   *)
(* step of its own, and the answer reaches the page in another: requests   *)
(* and answers overtake each other, and the page has moved on meanwhile.   *)
(***************************************************************************)
EXTENDS Naturals, Sequences, FiniteSets

CONSTANTS
  Root, Subs, NoDir,               \* directories of the Files tab
  Filters, AnyFilter,              \* filters of the log search; the one a visit starts with
  Queries, NoQuery,                \* texts to search for; the empty one
  NoResult,                        \* no results of a search
  Keep, Fetched,                   \* log lines kept when streaming (500), lines fetched (200)
  NoSocket,                        \* no WebSocket
  Keys, NoKey, Values, NoValue,    \* environment variables
  TeamKeys,                        \* those of the team
  Forms, Texts, Initial,           \* forms of an app; what one may hold, and holds at first
  Hours,                           \* numbers of hours of a week with requests
  Paths, NoPath, InVm,             \* SQLite files; those a scan of the VM finds
  Names, NoName                    \* workers, domains, deployments, previews, endpoints, ...

\* Bounds.
CONSTANTS
  MaxEntries,                      \* entries of the browser's history
  MaxRequests,                     \* requests of a visit of a page
  MaxSearches, MaxPages,           \* searches of the Logs tab; pages of results
  MaxSaves,                        \* saves and reloads of the forms
  MaxRenames,                      \* renamings of the slug
  MaxStreams, MaxFetches,          \* clicks on "Stream"; fetches of log lines at a time
  MaxConnects                      \* clicks on "Connect"

Fields == {"name", "slug"}
Compared == {"settings", "health"}
Flagged == {"allowlist", "ports", "workers"}
Searched == Filters \X Queries

ASSUME DirsAssumption == Root \notin Subs /\ NoDir \notin Subs \cup {Root}
ASSUME SearchAssumption ==
  /\ AnyFilter \in Filters /\ NoQuery \in Queries
  /\ NoResult \notin [what : Searched, page : Nat, last : 1 .. MaxPages]
ASSUME LinesAssumption == Keep \in Nat /\ Fetched \in 0 .. Keep
ASSUME EnvironmentAssumption == NoKey \notin Keys /\ NoValue \notin Values /\ Values # {} /\ TeamKeys \subseteq Keys
ASSUME FormsAssumption == Forms \subseteq Fields \cup Compared \cup Flagged /\ Initial \in Texts
ASSUME PathsAssumption == NoPath \notin Paths /\ InVm \subseteq Paths
ASSUME HoursAssumption == 0 \in Hours /\ Hours \subseteq 0 .. 168
ASSUME NamesAssumption == NoName \notin Names
ASSUME BoundsAssumption ==
  /\ {MaxEntries, MaxRequests, MaxSearches, MaxPages, MaxFetches} \subseteq Nat \ {0}
  /\ {MaxSaves, MaxRenames, MaxStreams, MaxConnects} \subseteq Nat
ASSUME SocketAssumption == NoSocket \notin 1 .. MaxStreams \cup 1 .. MaxConnects

\* "lost": carried out, and the answer never arrives.
Outcomes == {"ok", "refused", "lost"}

\* r gives way to s among the requests rs.
Instead(rs, r, s) == (rs \ {r}) \cup {s}
=============================================================================

---------------------------- MODULE OverviewTab ----------------------------
(***************************************************************************)
(* The Overview tab (overview-tab.tsx): five cards that a user dismisses   *)
(* for good, each remembered in the browser's localStorage, and the uptime *)
(* of the app, which is fetched by the app's slug.                         *)
(***************************************************************************)
EXTENDS Pages

Banners == {"getStarted", "firstDeploy", "sqliteBackup", "wpSqlite", "wpSalts"}

VARIABLES
  storageWorks,                    \* does localStorage work, or throw?
  kept,                            \* the keys set in it
  tabShown,
  app,                             \* the page's copy of the app
  dismissed,                       \* React state of the cards
  everDismissed,                   \* history: cards dismissed where localStorage works
  stats,                           \* the slug the uptime shown is of, or 0
  loading, fetches,
  jumbled                          \* history: a fetch failed or was overtaken

cards == <<storageWorks, kept, dismissed, everDismissed>>
uptime == <<stats, loading, fetches, jumbled>>
vars == <<cards, tabShown, app, uptime>>

\* The slug is a number that grows with every renaming.  "last" is the status
\* of the only deployment, "-" if there is none; with several, no card depends
\* on it.  Of the statuses the panel writes ("pending", "deploying",
\* "succeeded", "failed") one stands for all.  "wp" is FrankenWP without or with
\* its SQLite database.
App == [slug : 1 .. MaxRenames + 1, last : {"-", "succeeded"}, wp : {"-", "bare", "sqlite"},
        unbacked : BOOLEAN, monitored : BOOLEAN]

Fetch == [slug : 1 .. MaxRenames + 1, state : {"sent", "ok", "failed"}]

TypeOK ==
  /\ storageWorks \in BOOLEAN /\ kept \subseteq Banners
  /\ dismissed \subseteq Banners /\ everDismissed \subseteq Banners
  /\ tabShown \in BOOLEAN /\ app \in App
  /\ stats \in 0 .. MaxRenames + 1 /\ loading \in BOOLEAN /\ fetches \subseteq Fetch
  /\ jumbled \in BOOLEAN

\* Where localStorage throws, nothing was dismissed.
Remembered == IF storageWorks THEN kept ELSE {}

Init ==
  /\ storageWorks \in BOOLEAN
  /\ kept = {} /\ dismissed = {} /\ everDismissed = {}
  /\ tabShown = FALSE
  /\ app = [slug |-> 1, last |-> "-", wp |-> "-", unbacked |-> FALSE, monitored |-> FALSE]
  /\ stats = 0 /\ loading = TRUE /\ fetches = {}
  /\ jumbled = FALSE

(***************************************************************************)
(* Which cards are shown, if they were not dismissed.                      *)
(***************************************************************************)
NoDeployments == app.last = "-"

\* The card asks for a status the panel does not write.
IsFirstDeploy == app.last \in {"completed", "success"}

UnbackedDbs == app.unbacked

SqliteMissing == app.wp = "bare"

SaltsMissing == app.wp # "-"

Called(b) ==
  CASE b = "getStarted" -> NoDeployments
    [] b = "firstDeploy" -> IsFirstDeploy
    [] b = "sqliteBackup" -> UnbackedDbs
    [] b = "wpSqlite" -> SqliteMissing
    [] b = "wpSalts" -> SaltsMissing

Shown(b) == tabShown /\ Called(b) /\ b \notin dismissed

\* Mutant: the key is not set.
HandleDismissOnly(b) ==
  /\ Shown(b)
  /\ dismissed' = dismissed \cup {b}
  /\ everDismissed' = IF storageWorks THEN everDismissed \cup {b} ELSE everDismissed
  /\ UNCHANGED <<storageWorks, kept, tabShown, app, uptime>>

HandleDismiss(b) ==
  /\ Shown(b)
  /\ dismissed' = dismissed \cup {b}
  /\ everDismissed' = IF storageWorks THEN everDismissed \cup {b} ELSE everDismissed
  /\ kept' = IF storageWorks THEN kept \cup {b} ELSE kept
  /\ UNCHANGED <<storageWorks, tabShown, app, uptime>>

(***************************************************************************)
(* The uptime.                                                             *)
(***************************************************************************)
FetchUptime(slug) == fetches' = fetches \cup {[slug |-> slug, state |-> "sent"]}

Serve(f) ==
  /\ f \in fetches /\ f.state = "sent"
  /\ \E state \in {"ok", "failed"} : fetches' = Instead(fetches, f, [f EXCEPT !.state = state])
  /\ UNCHANGED <<cards, tabShown, app, stats, loading, jumbled>>

\* A failure leaves the numbers as they are.
UptimeArrives(f) ==
  /\ f \in fetches /\ f.state # "sent"
  /\ stats' = IF f.state = "ok" THEN f.slug ELSE stats
  /\ loading' = FALSE
  /\ fetches' = fetches \ {f}
  /\ jumbled' = (jumbled \/ f.state = "failed" \/ \E o \in fetches : o.slug < f.slug)
  /\ UNCHANGED <<cards, tabShown, app>>

\* "Not monitored", "Loading..." or the numbers.
UptimeShown == tabShown /\ app.monitored /\ ~ loading /\ stats # 0

(***************************************************************************)
(* The page.                                                               *)
(***************************************************************************)
\* What is fetched for a tab that was left is not heard.
Enter ==
  /\ ~ tabShown
  /\ tabShown' = TRUE
  /\ dismissed' = Remembered
  /\ loading' = TRUE /\ stats' = 0 /\ FetchUptime(app.slug) /\ jumbled' = FALSE
  /\ UNCHANGED <<storageWorks, kept, everDismissed, app>>

Leave ==
  /\ tabShown
  /\ tabShown' = FALSE
  /\ fetches' = {} /\ stats' = 0 /\ loading' = TRUE
  /\ UNCHANGED <<cards, app, jumbled>>

\* A reload of the page.  Deployments are never deleted.
AppReloads ==
  /\ \/ app' = [app EXCEPT !.last = "succeeded"]
     \/ \E wp \in {"-", "bare", "sqlite"} : app' = [app EXCEPT !.wp = wp]
     \/ app' = [app EXCEPT !.unbacked = ~ @]
     \/ app' = [app EXCEPT !.monitored = ~ @]
  /\ UNCHANGED <<cards, tabShown, uptime>>

\* The header renames the slug: the effect fetches again, without "Loading...".
SlugRenamed ==
  /\ app.slug <= MaxRenames
  /\ app' = [app EXCEPT !.slug = @ + 1]
  /\ IF tabShown THEN FetchUptime(app'.slug) ELSE UNCHANGED fetches
  /\ UNCHANGED <<cards, tabShown, stats, loading, jumbled>>

Next ==
  \/ \E b \in Banners : HandleDismiss(b)
  \/ Enter \/ Leave \/ AppReloads \/ SlugRenamed
  \/ \E f \in fetches : Serve(f) \/ UptimeArrives(f)

Spec == Init /\ [][Next]_vars

\* A request is served, or fails, and its answer is handled.
Served == \E f \in fetches : Serve(f) \/ UptimeArrives(f)

-----------------------------------------------------------------------------
(***************************************************************************)
(* What was dismissed is not shown again, where localStorage works.        *)
(***************************************************************************)
DismissedStays == \A b \in everDismissed : ~ Shown(b)

(***************************************************************************)
(* The uptime shown was fetched by the slug the app now has, once all is   *)
(* quiet, unless a fetch failed or was overtaken (jumbled).                *)
(***************************************************************************)
UptimeIsOfSlug == UptimeShown /\ fetches = {} /\ ~ jumbled => stats = app.slug
=============================================================================

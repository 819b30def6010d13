----------------------------- MODULE DatabaseTab -----------------------------
(***************************************************************************)
(* One visit of the Database tab (database-tab.tsx): the SQLite files of an *)
(* app, which of them survive a deploy (persistent) and which are           *)
(* replicated (backup), the scan of the running VM for such files, restore, *)
(* and the storage endpoint of the backups.                                 *)
(*                                                                          *)
(* The panel keeps the list in a row of the app, beside persistent_paths.   *)
(* A save, a scan and a deploy each load the row, for as long as they take  *)
(* (ten seconds for a scan), and write the two columns in two statements,   *)
(* one that is as it was loaded not at all; the Files tab writes the second *)
(* column.  Nothing keeps them apart.                                       *)
(***************************************************************************)
EXTENDS Pages

VARIABLES
  rows, persistentPaths, endpoint, \* the panel: sqlite_databases, persistent_paths,
                                   \* has the app an endpoint of its own?
  databases, dirty,                \* the list shown
  appEndpoint,                     \* the page's copy of endpoint
  saving, scanning, savingEndpoint,
  restoring, confirmRestore,
  requests, asked,
  adrift,                          \* history: see BackupNeedsPersistent
  doubtful                         \* history: see CleanMeansStored

panel == <<rows, persistentPaths, endpoint>>
list == <<databases, dirty>>
busy == <<saving, scanning, savingEndpoint>>
dialog == <<restoring, confirmRestore>>
vars == <<panel, list, appEndpoint, busy, dialog, requests, asked, adrift, doubtful>>

Row == [tracked : BOOLEAN, persistent : BOOLEAN, backup : BOOLEAN]
None == [tracked |-> FALSE, persistent |-> FALSE, backup |-> FALSE]
Detected == [tracked |-> TRUE, persistent |-> TRUE, backup |-> FALSE]
Table == [Paths -> Row]

Untracked == [p \in Paths |-> None]

\* "deploy" and "pin" are requests of others: a deploy, and a click in the Files tab.
Request == [kind : {"scan", "save", "restore", "endpoint", "reload", "deploy", "pin"}, id : Nat,
            table : Table,         \* the list to be written
            loaded : Table, paths : SUBSET Paths, \* the row as it was loaded
            path : Paths \cup {NoPath}, own : BOOLEAN,
            state : {"sent", "loaded", "half", "ok", "refused", "lost"}]

TypeOK ==
  /\ rows \in Table /\ persistentPaths \subseteq Paths /\ endpoint \in BOOLEAN
  /\ databases \in Table /\ dirty \in BOOLEAN /\ appEndpoint \in BOOLEAN
  /\ saving \in BOOLEAN /\ scanning \in BOOLEAN /\ savingEndpoint \in BOOLEAN
  /\ restoring \in Paths \cup {NoPath} /\ confirmRestore \in Paths \cup {NoPath}
  /\ requests \subseteq Request /\ asked \in Nat
  /\ adrift \subseteq Paths /\ doubtful \in BOOLEAN

Tracked(t) == {p \in Paths : t[p].tracked}
HasBackups == \E p \in Paths : databases[p].backup

\* Detection of a deploy has found some of the files.
Init ==
  /\ rows \in {[p \in Paths |-> IF p \in found THEN Detected ELSE None] : found \in SUBSET Paths}
  /\ persistentPaths = Tracked(rows) /\ endpoint = FALSE
  /\ databases = rows /\ dirty = FALSE /\ appEndpoint = endpoint
  /\ saving = FALSE /\ scanning = FALSE /\ savingEndpoint = FALSE
  /\ restoring = NoPath /\ confirmRestore = NoPath
  /\ requests = {} /\ asked = 0
  /\ adrift = {} /\ doubtful = FALSE

(***************************************************************************)
(* The list.                                                               *)
(***************************************************************************)
HandleManualAdd(p) ==
  /\ confirmRestore = NoPath
  /\ p \notin Tracked(databases)
  /\ databases' = [databases EXCEPT ![p] = Detected] /\ dirty' = TRUE
  /\ UNCHANGED <<panel, appEndpoint, busy, dialog, requests, asked, adrift, doubtful>>

\* updateDb for the two switches.  Backups make a database persistent ...
SetBackup(p, on) ==
  /\ confirmRestore = NoPath
  /\ p \in Tracked(databases) /\ databases[p].backup # on
  /\ databases' = [databases EXCEPT ![p].backup = on, ![p].persistent = @ \/ on]
  /\ dirty' = TRUE
  /\ UNCHANGED <<panel, appEndpoint, busy, dialog, requests, asked, adrift, doubtful>>

\* ... and while there are some that switch is disabled.
SetPersistent(p, on) ==
  /\ confirmRestore = NoPath
  /\ p \in Tracked(databases) /\ ~ databases[p].backup /\ databases[p].persistent # on
  /\ databases' = [databases EXCEPT ![p].persistent = on, ![p].backup = @ /\ on]
  /\ dirty' = TRUE
  /\ UNCHANGED <<panel, appEndpoint, busy, dialog, requests, asked, adrift, doubtful>>

(***************************************************************************)
(* Requests.                                                               *)
(***************************************************************************)
\* Bound: every request in flight is given room for the reload that may follow.
Room(n) == asked + Cardinality({r \in requests : r.kind # "reload"}) + n <= MaxRequests

Ask(rs, kind, path, own) ==
  /\ asked' = asked + 1
  /\ requests' = rs \cup {[kind |-> kind, id |-> asked + 1,
                           table |-> IF kind = "save" THEN databases ELSE Untracked,
                           loaded |-> Untracked, paths |-> {}, path |-> path, own |-> own,
                           state |-> "sent"]}

HandleSave ==
  /\ confirmRestore = NoPath /\ Tracked(databases) # {}
  /\ dirty /\ ~ saving
  /\ Room(2) /\ Ask(requests, "save", NoPath, FALSE)
  /\ saving' = TRUE /\ doubtful' = (doubtful \/ scanning)
  /\ UNCHANGED <<panel, list, appEndpoint, scanning, savingEndpoint, dialog, adrift>>

HandleScanVm ==
  /\ confirmRestore = NoPath /\ ~ scanning
  /\ Room(2) /\ Ask(requests, "scan", NoPath, FALSE)
  /\ scanning' = TRUE /\ doubtful' = (doubtful \/ saving)
  /\ UNCHANGED <<panel, list, appEndpoint, saving, savingEndpoint, dialog, adrift>>

\* "Restore" opens a dialog, its button sends the request.
OpenRestore(p) ==
  /\ confirmRestore = NoPath
  /\ databases[p].backup /\ restoring # p
  /\ confirmRestore' = p
  /\ UNCHANGED <<panel, list, appEndpoint, busy, restoring, requests, asked, adrift, doubtful>>

CancelRestore ==
  /\ confirmRestore # NoPath
  /\ confirmRestore' = NoPath
  /\ UNCHANGED <<panel, list, appEndpoint, busy, restoring, requests, asked, adrift, doubtful>>

HandleRestore ==
  /\ confirmRestore # NoPath
  /\ Room(1) /\ Ask(requests, "restore", confirmRestore, FALSE)
  /\ restoring' = confirmRestore /\ confirmRestore' = NoPath
  /\ UNCHANGED <<panel, list, appEndpoint, busy, adrift, doubtful>>

\* "Team Default" and "None (Local only)" are sent alike, as no endpoint.
HandleStorageEndpointChange(own) ==
  /\ confirmRestore = NoPath /\ HasBackups /\ ~ savingEndpoint
  /\ own # appEndpoint
  /\ Room(2) /\ Ask(requests, "endpoint", NoPath, own)
  /\ savingEndpoint' = TRUE
  /\ UNCHANGED <<panel, list, appEndpoint, saving, scanning, dialog, adrift, doubtful>>

(***************************************************************************)
(* The panel.                                                              *)
(***************************************************************************)
Writers == {"save", "scan", "deploy"}

\* Nobody waits here for the answer of a deploy, or of the Files tab.
Becomes(r, s) ==
  requests' = (requests \ {r}) \cup (IF r.kind \in {"deploy", "pin"} /\ s.state # "half" THEN {} ELSE {s})

\* mergeDetections: what is known stays as it is.
Merged(t, found) == [p \in Paths |-> IF p \in found /\ ~ t[p].tracked THEN Detected ELSE t[p]]

\* A backed-up database is made persistent once more.
Forced(t) == [p \in Paths |-> [t[p] EXCEPT !.persistent = @ \/ t[p].backup]]

\* Mutant: a path is taken out, never put in.
PinnedNone(r) == r.paths \ {p \in Tracked(r.table) : r.kind = "save" /\ ~ r.table[p].persistent}

\* A list is written with persistent_paths to go with it; a save takes out, too,
\* what is not persistent.
Pinned(r) ==
  (r.paths \ {p \in Tracked(r.table) : r.kind = "save" /\ ~ r.table[p].persistent})
    \cup {p \in Paths : r.table[p].persistent}

\* Nothing was written since r loaded the row but by r itself.
Undisturbed(r) == rows = r.table /\ persistentPaths = r.paths

\* A request fails; one that has written the list leaves the paths behind.
Refused(r) ==
  /\ r \in requests /\ r.state \in {"sent", "loaded", "half"}
  /\ r.kind # "reload"
  /\ Becomes(r, [r EXCEPT !.state = "refused"])
  /\ adrift' = IF r.state = "half" THEN Paths ELSE adrift
  /\ UNCHANGED <<panel, list, appEndpoint, busy, dialog, asked, doubtful>>

\* updateDatabases, or scanDatabases before it looks into the VM, loads the row ...
Load(r) ==
  /\ r \in requests /\ r.kind \in {"save", "scan"} /\ r.state = "sent"
  /\ Becomes(r, [r EXCEPT !.state = "loaded", !.loaded = rows, !.paths = persistentPaths,
                         !.table = IF r.kind = "save" THEN Forced(@) ELSE Merged(rows, InVm)])
  /\ UNCHANGED <<panel, list, appEndpoint, busy, dialog, asked, adrift, doubtful>>

\* ... as does a deploy, which looks into the build directory, whoever asked for it.
DeployBegins(found) ==
  /\ found # {} /\ Room(2)
  /\ asked' = asked + 1
  /\ requests' = requests \cup
       {[kind |-> "deploy", id |-> asked + 1, table |-> Merged(rows, found), loaded |-> rows,
         paths |-> persistentPaths, path |-> NoPath, own |-> FALSE, state |-> "loaded"]}
  /\ UNCHANGED <<panel, list, appEndpoint, busy, dialog, adrift, doubtful>>

\* A deploy of WordPress pins directories of its own first.
PinsDirectories(r) ==
  /\ r \in requests /\ r.kind = "deploy" /\ r.state = "loaded"
  /\ persistentPaths' = r.paths
  /\ adrift' = IF persistentPaths = r.paths THEN adrift ELSE Paths
  /\ UNCHANGED <<rows, endpoint, list, appEndpoint, busy, dialog, requests, asked, doubtful>>

\* The first statement: a deploy may put back the list it has loaded.
WriteRows(r) ==
  /\ r \in requests /\ r.kind \in Writers /\ r.state = "loaded"
  /\ rows' = IF r.table = r.loaded THEN rows ELSE r.table
  /\ Becomes(r, [r EXCEPT !.state = "half"])
  /\ doubtful' = (doubtful \/ (r.kind = "deploy" /\ r.table # r.loaded /\ rows # r.loaded))
  /\ UNCHANGED <<persistentPaths, endpoint, list, appEndpoint, busy, dialog, asked, adrift>>

\* The second.
WritePaths(r) ==
  /\ r \in requests /\ r.kind \in Writers /\ r.state = "half"
  /\ persistentPaths' = IF Pinned(r) = r.paths THEN persistentPaths ELSE Pinned(r)
  /\ adrift' = IF Undisturbed(r) THEN {} ELSE Paths
  /\ \E state \in {"ok", "lost"} : Becomes(r, [r EXCEPT !.state = state])
  /\ UNCHANGED <<rows, endpoint, list, appEndpoint, busy, dialog, asked, doubtful>>

\* setPersistent of the Files tab, in another window: it loads the row ...
PinBegins(p, on) ==
  /\ Room(2)
  /\ asked' = asked + 1
  /\ requests' = requests \cup
       {[kind |-> "pin", id |-> asked + 1, table |-> Untracked, loaded |-> Untracked,
         paths |-> persistentPaths, path |-> p, own |-> on, state |-> "loaded"]}
  /\ UNCHANGED <<panel, list, appEndpoint, busy, dialog, adrift, doubtful>>

\* ... and writes it.
PinEnds(r) ==
  /\ r \in requests /\ r.kind = "pin" /\ r.state = "loaded"
  /\ LET to == IF r.own THEN r.paths \cup {r.path} ELSE r.paths \ {r.path}
     IN  persistentPaths' = IF to = r.paths THEN persistentPaths ELSE to
  /\ adrift' = IF persistentPaths # r.paths THEN Paths
               ELSE IF r.own THEN adrift \ {r.path} ELSE adrift \cup {r.path}
  /\ Becomes(r, [r EXCEPT !.state = "ok"])
  /\ UNCHANGED <<rows, endpoint, list, appEndpoint, busy, dialog, asked, doubtful>>

\* updateStorageEndpoint, restoreDatabase, and the props of a reload.
ServeOther(r) ==
  /\ r \in requests /\ r.kind \in {"endpoint", "restore", "reload"} /\ r.state = "sent"
  /\ r.kind = "restore" => rows[r.path].backup
  /\ endpoint' = IF r.kind = "endpoint" THEN r.own ELSE endpoint
  /\ \E state \in {"ok", "lost"} : Becomes(r, [r EXCEPT !.state = state, !.own = endpoint'])
  /\ UNCHANGED <<rows, persistentPaths, list, appEndpoint, busy, dialog, asked, adrift, doubtful>>

(***************************************************************************)
(* Answers.                                                                *)
(***************************************************************************)
Asking(r) == Ask(requests \ {r}, "reload", NoPath, FALSE)

\* Whatever was changed in the list meanwhile counts as saved.
Saved(r) ==
  /\ r \in requests /\ r.kind = "save" /\ r.state \in {"ok", "refused", "lost"}
  /\ saving' = FALSE
  /\ IF r.state = "ok"
     THEN dirty' = FALSE /\ Asking(r) /\ doubtful' = (doubtful \/ databases # r.table)
     ELSE requests' = requests \ {r} /\ UNCHANGED <<dirty, asked, doubtful>>
  /\ UNCHANGED <<panel, databases, appEndpoint, scanning, savingEndpoint, dialog, adrift>>

\* The list is what was found; what was changed in it and not saved is gone.
Scanned(r) ==
  /\ r \in requests /\ r.kind = "scan" /\ r.state \in {"ok", "refused", "lost"}
  /\ scanning' = FALSE
  /\ IF r.state = "ok" THEN databases' = r.table /\ dirty' = FALSE /\ Asking(r)
     ELSE requests' = requests \ {r} /\ UNCHANGED <<list, asked>>
  /\ UNCHANGED <<panel, appEndpoint, saving, savingEndpoint, dialog, adrift, doubtful>>

EndpointSaved(r) ==
  /\ r \in requests /\ r.kind = "endpoint" /\ r.state # "sent"
  /\ savingEndpoint' = FALSE
  /\ IF r.state = "ok" THEN Asking(r) ELSE requests' = requests \ {r} /\ UNCHANGED asked
  /\ UNCHANGED <<panel, list, appEndpoint, saving, scanning, dialog, adrift, doubtful>>

Restored(r) ==
  /\ r \in requests /\ r.kind = "restore" /\ r.state # "sent"
  /\ restoring' = NoPath
  /\ requests' = requests \ {r}
  /\ UNCHANGED <<panel, list, appEndpoint, busy, confirmRestore, asked, adrift, doubtful>>

\* The page has a new copy of the app; the list does not follow it.
Reloaded(r) ==
  /\ r \in requests /\ r.kind = "reload" /\ r.state # "sent"
  /\ appEndpoint' = IF r.state = "ok" THEN r.own ELSE appEndpoint
  /\ requests' = requests \ {r}
  /\ UNCHANGED <<panel, list, busy, dialog, asked, adrift, doubtful>>

Serve(r) ==
  \/ Refused(r) \/ Load(r) \/ WriteRows(r) \/ WritePaths(r) \/ ServeOther(r)
  \/ PinsDirectories(r) \/ PinEnds(r)
Answer(r) == Saved(r) \/ Scanned(r) \/ EndpointSaved(r) \/ Restored(r) \/ Reloaded(r)

Next ==
  \/ \E p \in Paths :
       \/ HandleManualAdd(p) \/ OpenRestore(p)
       \/ \E on \in BOOLEAN : SetBackup(p, on) \/ SetPersistent(p, on) \/ PinBegins(p, on)
  \/ HandleSave \/ HandleScanVm \/ CancelRestore \/ HandleRestore
  \/ \E own \in BOOLEAN : HandleStorageEndpointChange(own)
  \/ \E found \in SUBSET Paths : DeployBegins(found)
  \/ \E r \in requests : Serve(r) \/ Answer(r)

Spec == Init /\ [][Next]_vars

-----------------------------------------------------------------------------
\* A request that has written the list and not yet the paths.
Halfway == \E r \in requests : r.kind \in Writers /\ r.state = "half"

(***************************************************************************)
(* A database that is backed up is persistent, in the list shown and in    *)
(* the panel, and what is persistent there is among the persistent_paths a *)
(* deploy keeps, unless a request is between its two statements.  What the *)
(* Files tab has taken out may be missing; anything may (adrift) after two *)
(* requests have written over each other, or one has failed between the    *)
(* two, until the next that nothing disturbs.                              *)
(***************************************************************************)
BackupNeedsPersistent ==
  \A p \in Paths :
    /\ databases[p].backup => databases[p].persistent
    /\ rows[p].backup => rows[p].persistent
    /\ rows[p].persistent => p \in persistentPaths \cup adrift \/ Halfway

\* What is in the list t is in u as well, and as it is in t.
Within(t, u) == \A p \in Tracked(t) : t[p] = u[p]

(***************************************************************************)
(* What a list without unsaved changes shows is what the panel has; a      *)
(* deploy or a lost scan may have added to it.  It need not be so          *)
(* (doubtful) once the list was changed while it was being saved, a save   *)
(* and a scan were under way together, or a deploy has put back a list it  *)
(* had loaded earlier.                                                     *)
(***************************************************************************)
CleanMeansStored == ~ dirty /\ ~ doubtful => Within(databases, rows)
=============================================================================

----------------------------- MODULE WorkersTab -----------------------------
(***************************************************************************)
(* The live half of the Workers tab (workers-tab.tsx): the status of the   *)
(* workers, which is polled while the VM runs, and the log of one of them. *)
(* The worker definitions are in AppForms.                                 *)
(***************************************************************************)
EXTENDS Pages

VARIABLES
  tabShown,
  vmState,                         \* the page's copy: "running", or any other state
  statuses,                        \* the workers in the table
  polls,                           \* polls in flight: is their effect still the current one?
  logWorker,                       \* whose log is shown, or NoName
  logLines,                        \* whose lines they are, or NoName
  logRequests, viewed,             \* log requests in flight; number of requests
  jumbled                          \* history: an answer overtook an older one

status == <<statuses, polls>>
log == <<logWorker, logLines, logRequests, viewed, jumbled>>
vars == <<tabShown, vmState, status, log>>

LogRequest == [id : 1 .. MaxRequests, worker : Names, heard : BOOLEAN]

TypeOK ==
  /\ tabShown \in BOOLEAN /\ vmState \in {"running", "stopped"}
  /\ statuses \subseteq Names
  /\ polls \in [BOOLEAN -> 0 .. MaxFetches]
  /\ logWorker \in Names \cup {NoName} /\ logLines \in Names \cup {NoName}
  /\ logRequests \subseteq LogRequest /\ viewed \in 0 .. MaxRequests
  /\ jumbled \in BOOLEAN

NoPolls == [current \in BOOLEAN |-> 0]

Init ==
  /\ tabShown = FALSE /\ vmState = "stopped"
  /\ statuses = {} /\ polls = NoPolls
  /\ logWorker = NoName /\ logLines = NoName
  /\ logRequests = {} /\ viewed = 0
  /\ jumbled = FALSE

Polling == tabShown /\ vmState = "running"

(***************************************************************************)
(* Polling.  The effect runs when the tab is shown or the state of the VM  *)
(* changes: its clean-up cancels the interval and the polls in flight, and *)
(* it polls at once if the VM runs.                                        *)
(***************************************************************************)
\* Mutant: the clean-up only clears the interval.
EffectOnly(run) == polls' = IF run /\ polls[TRUE] = 0 THEN [polls EXCEPT ![TRUE] = 1] ELSE polls

\* Bound: no more than MaxFetches cancelled polls in flight.
Effect(run) ==
  /\ polls[FALSE] + polls[TRUE] <= MaxFetches
  /\ polls' = [current \in BOOLEAN |-> IF ~ current THEN polls[FALSE] + polls[TRUE] ELSE IF run THEN 1 ELSE 0]

\* A reload of the page brings another state: statuses stay as they are.
VmStateChanges ==
  /\ vmState' = IF vmState = "running" THEN "stopped" ELSE "running"
  /\ IF tabShown THEN Effect(vmState' = "running") ELSE UNCHANGED polls
  /\ UNCHANGED <<tabShown, statuses, log>>

\* The interval of 5 s.
Poll ==
  /\ Polling /\ polls[TRUE] < MaxFetches
  /\ polls' = [polls EXCEPT ![TRUE] = @ + 1]
  /\ UNCHANGED <<tabShown, vmState, statuses, log>>

\* workerStatus answers with the workers there are, or fails.
StatusArrives(current) ==
  /\ polls[current] > 0
  /\ polls' = [polls EXCEPT ![current] = @ - 1]
  /\ statuses' \in IF current THEN SUBSET Names ELSE {statuses}
  /\ UNCHANGED <<tabShown, vmState, log>>

(***************************************************************************)
(* The log of a worker.                                                    *)
(***************************************************************************)
\* "View" in the row of a worker.
ViewLogs(w) ==
  /\ tabShown /\ w \in statuses
  /\ viewed < MaxRequests
  /\ logWorker' = w
  /\ viewed' = viewed + 1
  /\ logRequests' = logRequests \cup {[id |-> viewed + 1, worker |-> w, heard |-> TRUE]}
  /\ UNCHANGED <<tabShown, vmState, status, logLines, jumbled>>

CloseLogs ==
  /\ tabShown /\ logWorker # NoName
  /\ logWorker' = NoName
  /\ UNCHANGED <<tabShown, vmState, status, logLines, logRequests, viewed, jumbled>>

\* The lines, or "Failed to load logs": either way they belong to that request.
LogArrives(r) ==
  /\ r \in logRequests
  /\ logRequests' = logRequests \ {r}
  /\ logLines' = IF r.heard THEN r.worker ELSE logLines
  /\ jumbled' = (jumbled \/ (r.heard /\ \E o \in logRequests : o.heard /\ o.id < r.id))
  /\ UNCHANGED <<tabShown, vmState, status, logWorker, viewed>>

(***************************************************************************)
(* The tab is shown and left.                                              *)
(***************************************************************************)
Enter ==
  /\ ~ tabShown
  /\ tabShown' = TRUE
  /\ Effect(vmState = "running")
  /\ UNCHANGED <<vmState, statuses, log>>

Leave ==
  /\ tabShown
  /\ tabShown' = FALSE
  /\ Effect(FALSE)
  /\ statuses' = {} /\ logWorker' = NoName /\ logLines' = NoName
  /\ logRequests' = {[r EXCEPT !.heard = FALSE] : r \in logRequests}
  /\ UNCHANGED <<vmState, viewed, jumbled>>

Next ==
  \/ VmStateChanges \/ Poll \/ CloseLogs \/ Enter \/ Leave
  \/ \E current \in BOOLEAN : StatusArrives(current)
  \/ \E w \in Names : ViewLogs(w)
  \/ \E r \in logRequests : LogArrives(r)

Spec == Init /\ [][Next]_vars

-----------------------------------------------------------------------------
(***************************************************************************)
(* The table of workers does not change while the VM does not run: a poll  *)
(* asked for before it stopped is not heard.                               *)
(***************************************************************************)
NoLateStatus == [][statuses' # statuses => Polling \/ statuses' = {}]_vars

(***************************************************************************)
(* The lines under the name of a worker are that worker's once they have   *)
(* arrived, unless an answer overtook an older one (jumbled): then a       *)
(* worker's lines stay under another's name.                               *)
(***************************************************************************)
LogIsOfWorker ==
  logWorker # NoName /\ (\A r \in logRequests : ~ r.heard) /\ ~ jumbled => logLines = logWorker
=============================================================================

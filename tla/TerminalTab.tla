---------------------------- MODULE TerminalTab ----------------------------
(***************************************************************************)
(* The Terminal tab (terminal-tab.tsx): a terminal window, a button that   *)
(* connects it to a shell in the VM or disconnects it, and the WebSockets  *)
(* this makes.                                                             *)
(*                                                                         *)
(* One id stands for a click on "Connect", its session, its WebSocket and  *)
(* the shell at the other end.  The tab does not close its WebSocket when  *)
(* it is left: that shell lives until the connection breaks.               *)
(***************************************************************************)
EXTENDS Pages

Ids == 1 .. MaxConnects

VARIABLES
  termInstance,                    \* is the tab mounted and its terminal there?
  status, wsRef,
  link,                            \* id -> what became of it
  mine,                            \* ids of the visit of the tab that is mounted
  typed,                           \* ids whose shell got the last key
  confused                         \* history: see TypesIntoOneShell

vars == <<termInstance, status, wsRef, link, mine, typed, confused>>

\* As in LogStream: "granted", "denied", "failed" and "closing" are known to the
\* page when the answer or event arrives.
States == {"new", "asked", "granted", "denied", "connecting", "open", "failed", "closing", "closed"}

TypeOK ==
  /\ termInstance \in BOOLEAN
  /\ status \in {"disconnected", "connecting", "connected"}
  /\ wsRef \in Ids \cup {NoSocket}
  /\ link \in [Ids -> States]
  /\ mine \subseteq Ids /\ typed \subseteq Ids
  /\ confused \in BOOLEAN

Init ==
  /\ termInstance = TRUE
  /\ status = "disconnected" /\ wsRef = NoSocket
  /\ link = [i \in Ids |-> "new"] /\ mine = {} /\ typed = {}
  /\ confused = FALSE

Goes(i, state) == link' = [link EXCEPT ![i] = state]

\* Mutant: the button is there in every state.
ConnectAgain(i) ==
  /\ termInstance
  /\ link[i] = "new" /\ \A j \in 1 .. i - 1 : link[j] # "new"
  /\ status' = "connecting"
  /\ Goes(i, "asked") /\ mine' = mine \cup {i}
  /\ UNCHANGED <<termInstance, wsRef, typed, confused>>

Connect(i) ==
  /\ termInstance /\ status = "disconnected"
  /\ link[i] = "new" /\ \A j \in 1 .. i - 1 : link[j] # "new"
  /\ status' = "connecting"
  /\ Goes(i, "asked") /\ mine' = mine \cup {i}
  /\ UNCHANGED <<termInstance, wsRef, typed, confused>>

\* terminal-session of the panel: refused unless the app runs.
TerminalSession(i) ==
  /\ link[i] = "asked"
  /\ Goes(i, "granted") \/ Goes(i, "denied")
  /\ UNCHANGED <<termInstance, status, wsRef, mine, typed, confused>>

\* The error is written to the terminal, if there still is one.
Denied(i) ==
  /\ link[i] = "denied"
  /\ Goes(i, "closed")
  /\ status' = IF i \in mine THEN "disconnected" ELSE status
  /\ UNCHANGED <<termInstance, wsRef, mine, typed, confused>>

\* new WebSocket, also for a tab that was left.
OpenSocket(i) ==
  /\ link[i] = "granted"
  /\ Goes(i, "connecting")
  /\ wsRef' = IF i \in mine THEN i ELSE wsRef
  /\ UNCHANGED <<termInstance, status, mine, typed, confused>>

OnOpen(i) ==
  /\ link[i] = "connecting"
  /\ Goes(i, "open")
  /\ status' = IF i \in mine THEN "connected" ELSE status
  /\ UNCHANGED <<termInstance, wsRef, mine, typed, confused>>

\* The session has expired or was taken; the VM does not answer.
Refused(i) ==
  /\ link[i] = "connecting"
  /\ Goes(i, "failed")
  /\ UNCHANGED <<termInstance, status, wsRef, mine, typed, confused>>

\* May another attempt be under way when the tab is told of this one's end?
Late(i) == i \in mine /\ \E j \in mine \ {i} : j > i

OnError(i) ==
  /\ link[i] = "failed"
  /\ Goes(i, "closing")
  /\ status' = IF i \in mine THEN "disconnected" ELSE status
  /\ confused' = (confused \/ Late(i))
  /\ UNCHANGED <<termInstance, wsRef, mine, typed>>

\* The shell exits, the VM or the connection dies.
Ended(i) ==
  /\ link[i] = "open"
  /\ Goes(i, "closing")
  /\ UNCHANGED <<termInstance, status, wsRef, mine, typed, confused>>

\* Mutant: the close event forgets the socket and not the state.
OnCloseForgets(i) ==
  /\ link[i] = "closing"
  /\ Goes(i, "closed")
  /\ wsRef' = IF i \in mine THEN NoSocket ELSE wsRef
  /\ confused' = (confused \/ Late(i))
  /\ UNCHANGED <<termInstance, status, mine, typed>>

OnClose(i) ==
  /\ link[i] = "closing"
  /\ Goes(i, "closed")
  /\ IF i \in mine THEN status' = "disconnected" /\ wsRef' = NoSocket ELSE UNCHANGED <<status, wsRef>>
  /\ confused' = (confused \/ Late(i))
  /\ UNCHANGED <<termInstance, mine, typed>>

Disconnect ==
  /\ termInstance /\ status = "connected"
  /\ link' = [i \in Ids |-> IF i = wsRef /\ link[i] \in {"connecting", "open"} THEN "closing" ELSE link[i]]
  /\ wsRef' = NoSocket
  /\ status' = "disconnected"
  /\ UNCHANGED <<termInstance, mine, typed, confused>>

\* onData: each socket of the visit has a handler of its own.
Type ==
  /\ termInstance
  /\ typed' = {i \in mine : link[i] = "open"}
  /\ UNCHANGED <<termInstance, status, wsRef, link, mine, confused>>

\* The terminal is disposed, its sockets are not closed.
Leave ==
  /\ termInstance
  /\ termInstance' = FALSE
  /\ status' = "disconnected" /\ wsRef' = NoSocket
  /\ mine' = {} /\ typed' = {}
  /\ UNCHANGED <<link, confused>>

Enter ==
  /\ ~ termInstance
  /\ termInstance' = TRUE
  /\ UNCHANGED <<status, wsRef, link, mine, typed, confused>>

Socket(i) ==
  \/ TerminalSession(i) \/ Denied(i) \/ OpenSocket(i)
  \/ OnOpen(i) \/ Refused(i) \/ OnError(i) \/ OnClose(i)

Next ==
  \/ Disconnect \/ Type \/ Leave \/ Enter
  \/ \E i \in Ids : Connect(i) \/ Socket(i) \/ Ended(i)

Spec == Init /\ [][Next]_vars

\* A request is answered, an attempt to connect ends, an event arrives.
Served == \E i \in Ids : Socket(i)

-----------------------------------------------------------------------------
(***************************************************************************)
(* "Connected" is shown only while a connection of this visit is open, or  *)
(* has ended a moment ago and its close event is on the way.               *)
(***************************************************************************)
ConnectedMeansOpen == status = "connected" => \E i \in mine : link[i] \in {"open", "closing"}

(***************************************************************************)
(* A key goes to one shell, unless the end of a connection was reported to *)
(* the tab when it already worked on the next: then "Connect" is offered   *)
(* beside a live connection, and both shells get every key (confused).     *)
(***************************************************************************)
TypesIntoOneShell == ~ confused => \A i, j \in typed : i = j
=============================================================================

---------------------------- MODULE ConsoleProofs ---------------------------
(***************************************************************************)
(* Proofs about the tabs that show what the VM does: the logs (LogStream,  *)
(* LogSearch), the terminal (TerminalTab), the workers (WorkersTab), the   *)
(* overview (OverviewTab) and the requests (AnalyticsTab).  They listen to *)
(* sockets, poll and search; what is proved is that a tab that was left    *)
(* hears nothing any more, that a key reaches one shell, and that an       *)
(* answer shown is of what it is shown as.                                 *)
(***************************************************************************)
EXTENDS ListingProofs, SequenceTheorems, FiniteSetTheorems

-----------------------------------------------------------------------------
\* The Logs tab: live.
StreamIInv ==
  /\ Stream!TypeOK
  /\ Stream!StreamingHasSocket
  /\ Stream!NoStrayStream

LEMMA StreamLimits ==
  /\ Keep \in Nat /\ MaxFetches \in Nat /\ Fetched \in 0 .. Keep
  /\ 0 \in 0 .. Keep /\ 0 \in 0 .. MaxFetches
BY LinesAssumption, BoundsAssumption

LEMMA StreamInitIInv == Stream!Init => StreamIInv
<1> SUFFICES ASSUME Stream!Init PROVE StreamIInv
  OBVIOUS
<1> USE StreamLimits, SocketAssumption DEF Stream!Ids
<1>1. Stream!TypeOK
  BY DEF Stream!Init, Stream!TypeOK, Stream!States
<1>2. Stream!StreamingHasSocket /\ Stream!NoStrayStream
  BY DEF Stream!Init, Stream!StreamingHasSocket, Stream!NoStrayStream, Stream!Alive
<1> QED
  BY <1>1, <1>2 DEF StreamIInv

\* What the list and its timer do leaves every WebSocket alone.
LEMMA StreamListIInv ==
  ASSUME StreamIInv,
         \/ Stream!SetHistoryMode \/ Stream!SetLiveMode \/ Stream!Refresh \/ Stream!RefreshConsole
         \/ Stream!ToggleAutoRefresh \/ Stream!Interval \/ Stream!LiveLogsArrive
         \/ \E i \in Stream!Ids : Stream!OnMessage(i)
  PROVE  StreamIInv'
<1> USE StreamLimits, SocketAssumption DEF StreamIInv, Stream!Ids
<1>1. Stream!TypeOK'
  <2>1. CASE \E i \in Stream!Ids : Stream!OnMessage(i)
    BY <2>1 DEF Stream!TypeOK, Stream!OnMessage, Stream!tab
  <2>2. CASE Stream!LiveLogsArrive
    <3>1. streamFetches' \in 0 .. MaxFetches
      BY <2>2 DEF Stream!TypeOK, Stream!LiveLogsArrive
    <3>2. liveLogs' \in 0 .. Keep
      BY <2>2 DEF Stream!TypeOK, Stream!LiveLogsArrive
    <3> QED
      BY <2>2, <3>1, <3>2 DEF Stream!TypeOK, Stream!LiveLogsArrive, Stream!tab
  <2>3. CASE Stream!SetHistoryMode \/ Stream!ToggleAutoRefresh
    BY <2>3 DEF Stream!TypeOK, Stream!SetHistoryMode, Stream!ToggleAutoRefresh, Stream!tab,
       Stream!list
  <2>4. CASE Stream!SetLiveMode \/ Stream!Refresh \/ Stream!RefreshConsole \/ Stream!Interval
    <3>1. Stream!FetchLiveLogs \/ UNCHANGED Stream!list
      BY <2>4 DEF Stream!SetLiveMode, Stream!Refresh, Stream!RefreshConsole, Stream!Interval
    <3>2. liveLoading' \in BOOLEAN /\ liveLogs' \in 0 .. Keep /\ streamFetches' \in 0 .. MaxFetches
      <4>1. streamFetches \in 0 .. MaxFetches
        BY DEF Stream!TypeOK
      <4>2. CASE Stream!FetchLiveLogs
        BY <4>1, <4>2 DEF Stream!TypeOK, Stream!FetchLiveLogs
      <4>3. CASE UNCHANGED Stream!list
        BY <4>3 DEF Stream!TypeOK, Stream!list
      <4> QED
        BY <3>1, <4>2, <4>3
    <3> QED
      BY <2>4, <3>2 DEF Stream!TypeOK, Stream!SetLiveMode, Stream!Refresh, Stream!RefreshConsole,
         Stream!Interval, Stream!tab
  <2> QED
    BY <2>1, <2>2, <2>3, <2>4
<1>2. UNCHANGED <<streamWsRef, stream, streamMine, streaming, overlapped>>
  BY DEF Stream!SetHistoryMode, Stream!SetLiveMode, Stream!Refresh, Stream!RefreshConsole,
     Stream!ToggleAutoRefresh, Stream!Interval, Stream!LiveLogsArrive, Stream!OnMessage
<1>3. Stream!StreamingHasSocket' /\ Stream!NoStrayStream'
  BY <1>2 DEF Stream!StreamingHasSocket, Stream!NoStrayStream
<1> QED
  BY <1>1, <1>3

\* One WebSocket takes a step of its life.
LEMMA StreamSocketIInv ==
  ASSUME StreamIInv, NEW i \in Stream!Ids,
         \/ Stream!StartStreaming(i) \/ Stream!Socket(i)
         \/ Stream!Broken(i) \/ Stream!TailEnds(i) \/ Stream!TailReopens(i)
  PROVE  StreamIInv'
<1> USE StreamLimits, SocketAssumption DEF StreamIInv, Stream!Ids
<1>1. PICK state \in Stream!States : Stream!Goes(i, state)
  BY DEF Stream!StartStreaming, Stream!Socket, Stream!LogSession, Stream!Denied, Stream!OpenSocket,
     Stream!OnOpen, Stream!Refused, Stream!OnError, Stream!OnClose, Stream!Broken, Stream!TailEnds,
     Stream!TailReopens, Stream!States
<1>2. stream' \in [Stream!Ids -> Stream!States] /\ stream'[i] = state
        /\ \A j \in Stream!Ids \ {i} : stream'[j] = stream[j]
  BY <1>1 DEF Stream!TypeOK, Stream!Goes
<1>3. Stream!TypeOK'
  BY <1>2 DEF Stream!TypeOK, Stream!StartStreaming, Stream!Socket, Stream!LogSession, Stream!Denied,
     Stream!OpenSocket, Stream!OnOpen, Stream!Refused, Stream!OnError, Stream!OnClose,
     Stream!Broken, Stream!TailEnds, Stream!TailReopens, Stream!tab, Stream!list
<1>4. CASE Stream!StartStreaming(i)
  BY <1>2, <1>3, <1>4 DEF Stream!StartStreaming, Stream!Goes, Stream!TypeOK,
     Stream!StreamingHasSocket, Stream!NoStrayStream, Stream!Alive, Stream!Opened
<1>5. CASE Stream!LogSession(i) \/ Stream!Denied(i) \/ Stream!Refused(i)
  BY <1>2, <1>3, <1>5 DEF Stream!LogSession, Stream!Denied, Stream!Refused, Stream!Goes,
     Stream!TypeOK, Stream!StreamingHasSocket, Stream!NoStrayStream, Stream!Alive, Stream!Opened
<1>6. CASE Stream!OpenSocket(i)
  BY <1>2, <1>3, <1>6 DEF Stream!OpenSocket, Stream!Goes, Stream!TypeOK, Stream!StreamingHasSocket,
     Stream!NoStrayStream, Stream!Alive, Stream!Opened
<1>7. CASE Stream!OnOpen(i)
  BY <1>2, <1>3, <1>7 DEF Stream!OnOpen, Stream!Goes, Stream!TypeOK, Stream!StreamingHasSocket,
     Stream!NoStrayStream, Stream!Alive, Stream!Opened
<1>8. CASE Stream!OnError(i)
  BY <1>2, <1>3, <1>8 DEF Stream!OnError, Stream!Goes, Stream!TypeOK, Stream!StreamingHasSocket,
     Stream!NoStrayStream, Stream!Alive, Stream!Opened
<1>9. CASE Stream!OnClose(i)
  BY <1>2, <1>3, <1>9 DEF Stream!OnClose, Stream!Goes, Stream!TypeOK, Stream!StreamingHasSocket,
     Stream!NoStrayStream, Stream!Alive, Stream!Opened
<1>10. CASE Stream!Broken(i) \/ Stream!TailEnds(i) \/ Stream!TailReopens(i)
  BY <1>2, <1>3, <1>10 DEF Stream!Broken, Stream!TailEnds, Stream!TailReopens, Stream!Goes,
     Stream!TypeOK, Stream!StreamingHasSocket, Stream!NoStrayStream, Stream!Alive, Stream!Opened
<1> QED
  BY <1>4, <1>5, <1>6, <1>7, <1>8, <1>9, <1>10 DEF Stream!Socket

\* "Stop" and leaving the tab close the WebSocket they know of, and forget it.
LEMMA StreamStopIInv ==
  ASSUME StreamIInv, Stream!StopStreaming \/ Stream!Leave \/ Stream!Enter
  PROVE  StreamIInv'
<1> USE StreamLimits, SocketAssumption DEF StreamIInv, Stream!Ids
<1>1. CASE Stream!StopStreaming \/ Stream!Leave
  <2>1. (Stream!CloseSocket /\ streamWsRef \in Stream!Ids)
          \/ (UNCHANGED stream /\ streamWsRef = NoSocket)
    BY <1>1 DEF Stream!TypeOK, Stream!StopStreaming, Stream!Leave
  <2>2. \A j \in Stream!Ids : stream'[j] = IF j = streamWsRef /\ stream[j] \in Stream!Alive
          THEN "closing" ELSE stream[j]
    BY <2>1 DEF Stream!TypeOK, Stream!CloseSocket
  <2>3. stream' \in [Stream!Ids -> Stream!States]
    BY <2>1 DEF Stream!TypeOK, Stream!CloseSocket, Stream!States
  <2>4. Stream!TypeOK'
    BY <1>1, <2>3 DEF Stream!TypeOK, Stream!StopStreaming, Stream!Leave, Stream!tab, Stream!list
  <2>5. Stream!StreamingHasSocket'
    BY <1>1 DEF Stream!StopStreaming, Stream!Leave, Stream!StreamingHasSocket
  <2>6. Stream!NoStrayStream'
    BY <1>1, <2>2 DEF Stream!StopStreaming, Stream!Leave, Stream!NoStrayStream, Stream!Alive
  <2> QED
    BY <2>4, <2>5, <2>6
<1>2. CASE Stream!Enter
  BY <1>2 DEF Stream!Enter, Stream!TypeOK, Stream!StreamingHasSocket, Stream!NoStrayStream,
     Stream!list
<1> QED
  BY <1>1, <1>2

LEMMA StreamNextIInv == StreamIInv /\ [Stream!Next]_(Stream!vars) => StreamIInv'
<1> SUFFICES ASSUME StreamIInv, [Stream!Next]_(Stream!vars) PROVE StreamIInv'
  OBVIOUS
<1>1. CASE UNCHANGED Stream!vars
  BY <1>1 DEF Stream!vars, Stream!tab, Stream!list, StreamIInv, Stream!TypeOK,
     Stream!StreamingHasSocket, Stream!NoStrayStream
<1> QED
  BY <1>1, StreamListIInv, StreamSocketIInv, StreamStopIInv DEF Stream!Next

\* The inductive invariant holds in every reachable state.
THEOREM StreamInvariance == Stream!Spec => []StreamIInv
BY StreamInitIInv, StreamNextIInv, PTL DEF Stream!Spec

\* Every variable keeps its type; in particular no more than Keep lines are listed.
THEOREM StreamTypeCorrect == Stream!Spec => []Stream!TypeOK
<1>1. StreamIInv => Stream!TypeOK
  BY DEF StreamIInv
<1> QED
  BY <1>1, StreamInvariance, PTL

\* While the tab says that it streams, a WebSocket of this visit was opened and
\* its close event has not come (logs-tab.tsx).
THEOREM StreamsFromASocket == Stream!Spec => []Stream!StreamingHasSocket
<1>1. StreamIInv => Stream!StreamingHasSocket
  BY DEF StreamIInv
<1> QED
  BY <1>1, StreamInvariance, PTL

\* No WebSocket lives but the one that "Stop" and leaving the tab close, unless
\* two clicks or a late close event have overlapped (logs-tab.tsx).
THEOREM NoStray == Stream!Spec => []Stream!NoStrayStream
<1>1. StreamIInv => Stream!NoStrayStream
  BY DEF StreamIInv
<1> QED
  BY <1>1, StreamInvariance, PTL

-----------------------------------------------------------------------------
\* The Terminal tab.
\* An attempt that may still lead to a connection, or is one.
TerminalAttempts == {"asked", "granted", "denied", "connecting", "failed"}
TerminalBusy == TerminalAttempts \cup {"open"}

\* Ids are used in their order.
TerminalInOrder ==
  /\ \A i \in Terminal!Ids : link[i] = "new" => i \notin terminalMine
  /\ \A i, j \in Terminal!Ids : link[i] = "new" /\ i < j => link[j] = "new"

\* Only the last attempt of the visit is busy, and the tab knows how far it is.
LastIsKnown ==
  /\ \A i, j \in terminalMine : i < j => link[i] \notin TerminalBusy
  /\ \A i \in terminalMine : link[i] \in TerminalAttempts => status = "connecting"
  /\ \A i \in terminalMine : link[i] = "open" => status = "connected"
  /\ \A i \in terminalMine : link[i] \in {"connecting", "open"} => terminalWsRef = i

TerminalIInv ==
  /\ Terminal!TypeOK
  /\ Terminal!ConnectedMeansOpen
  /\ Terminal!TypesIntoOneShell
  /\ TerminalInOrder
  /\ ~ confused => LastIsKnown

LEMMA IdsOrdered ==
  /\ \A i \in Terminal!Ids : i \in Nat /\ i # NoSocket
  /\ \A i, j \in Terminal!Ids : i = j \/ i < j \/ j < i
  /\ \A i, j \in Terminal!Ids : i < j => j \notin 1 .. i - 1 /\ ~ j < i /\ i # j /\ i \in 1 .. j - 1
BY SocketAssumption DEF Terminal!Ids

LEMMA TerminalInitIInv == Terminal!Init => TerminalIInv
<1> SUFFICES ASSUME Terminal!Init PROVE TerminalIInv
  OBVIOUS
<1>1. Terminal!TypeOK
  BY DEF Terminal!Init, Terminal!TypeOK, Terminal!States
<1> QED
  BY <1>1 DEF Terminal!Init, TerminalIInv, Terminal!ConnectedMeansOpen, Terminal!TypesIntoOneShell,
     TerminalInOrder, LastIsKnown

\* One attempt takes a step.
LEMMA TerminalAttemptIInv ==
  ASSUME TerminalIInv, NEW i \in Terminal!Ids, Terminal!Connect(i) \/ Terminal!Socket(i)
           \/ Terminal!Ended(i)
  PROVE  TerminalIInv'
<1> USE IdsOrdered DEF TerminalIInv
<1>1. PICK state \in Terminal!States \ {"new"} : Terminal!Goes(i, state)
  BY DEF Terminal!Connect, Terminal!Socket, Terminal!TerminalSession, Terminal!Denied,
     Terminal!OpenSocket, Terminal!OnOpen, Terminal!Refused, Terminal!OnError, Terminal!OnClose,
     Terminal!Ended, Terminal!States
<1>2. link' \in [Terminal!Ids -> Terminal!States] /\ link'[i] = state
        /\ \A j \in Terminal!Ids \ {i} : link'[j] = link[j]
  BY <1>1 DEF Terminal!TypeOK, Terminal!Goes
<1>3. Terminal!TypeOK'
  BY <1>2 DEF Terminal!TypeOK, Terminal!Connect, Terminal!Socket, Terminal!TerminalSession,
     Terminal!Denied, Terminal!OpenSocket, Terminal!OnOpen, Terminal!Refused, Terminal!OnError,
     Terminal!OnClose, Terminal!Ended
<1>4. terminalMine \subseteq Terminal!Ids /\ terminalMine' \subseteq Terminal!Ids
        /\ typed \subseteq Terminal!Ids
  BY <1>3 DEF Terminal!TypeOK
<1>5. CASE Terminal!Connect(i)
  <2>1. \A j \in terminalMine : j < i
    BY <1>4, <1>5 DEF Terminal!Connect, TerminalInOrder
  <2>2. TerminalInOrder'
    BY <1>2, <1>4, <1>5 DEF Terminal!Connect, TerminalInOrder
  <2>3. link'[i] = "asked" /\ terminalMine' = terminalMine \cup {i} /\ status = "disconnected"
          /\ status' = "connecting"
        /\ UNCHANGED <<terminalWsRef, typed, confused>>
    BY <1>2, <1>5 DEF Terminal!Connect, Terminal!Goes, Terminal!TypeOK
  <2>4. ~ confused' => LastIsKnown'
    BY <1>2, <1>4, <2>1, <2>3 DEF LastIsKnown, TerminalAttempts, TerminalBusy
  <2>5. Terminal!ConnectedMeansOpen' /\ Terminal!TypesIntoOneShell'
    BY <2>3 DEF Terminal!ConnectedMeansOpen, Terminal!TypesIntoOneShell
  <2> QED
    BY <1>3, <2>2, <2>4, <2>5
<1>6. ASSUME ~ Terminal!Connect(i) PROVE TerminalInOrder'
  <2>1. link[i] # "new" /\ UNCHANGED terminalMine
    BY <1>6 DEF Terminal!Socket, Terminal!TerminalSession, Terminal!Denied, Terminal!OpenSocket,
       Terminal!OnOpen, Terminal!Refused, Terminal!OnError, Terminal!OnClose, Terminal!Ended
  <2> QED
    BY <1>2, <2>1 DEF TerminalInOrder
<1>7. CASE Terminal!TerminalSession(i) \/ Terminal!Refused(i) \/ Terminal!Ended(i)
  <2>1. ~ Terminal!Connect(i)
    BY <1>7 DEF Terminal!TerminalSession, Terminal!Refused, Terminal!Ended, Terminal!Connect
  <2>2. \/ link[i] \in TerminalAttempts /\ link'[i] \in TerminalAttempts \ {"connecting"}
        \/ link[i] = "open" /\ link'[i] = "closing"
    BY <1>2, <1>7 DEF Terminal!TerminalSession, Terminal!Refused, Terminal!Ended, Terminal!Goes,
       Terminal!TypeOK, TerminalAttempts
  <2>3. UNCHANGED <<status, terminalWsRef, terminalMine, typed, confused>>
    BY <1>7 DEF Terminal!TerminalSession, Terminal!Refused, Terminal!Ended
  <2>4. ~ confused' => LastIsKnown'
    BY <1>2, <1>4, <2>2, <2>3 DEF LastIsKnown, TerminalAttempts, TerminalBusy
  <2>5. Terminal!ConnectedMeansOpen' /\ Terminal!TypesIntoOneShell'
    BY <1>2, <1>4, <2>2, <2>3 DEF Terminal!ConnectedMeansOpen, Terminal!TypesIntoOneShell,
       TerminalAttempts
  <2> QED
    BY <1>3, <1>6, <2>1, <2>4, <2>5
<1>8. CASE Terminal!OpenSocket(i)
  <2>1. ~ Terminal!Connect(i) /\ link[i] = "granted" /\ link'[i] = "connecting"
    BY <1>2, <1>8 DEF Terminal!OpenSocket, Terminal!Connect, Terminal!Goes, Terminal!TypeOK
  <2>2. ~ confused' => LastIsKnown'
    BY <1>2, <1>4, <1>8, <2>1 DEF Terminal!OpenSocket, LastIsKnown, TerminalAttempts, TerminalBusy
  <2>3. Terminal!ConnectedMeansOpen' /\ Terminal!TypesIntoOneShell'
    BY <1>2, <1>4, <1>8, <2>1 DEF Terminal!OpenSocket, Terminal!ConnectedMeansOpen,
       Terminal!TypesIntoOneShell
  <2> QED
    BY <1>3, <1>6, <2>1, <2>2, <2>3
<1>9. CASE Terminal!OnOpen(i)
  <2>1. ~ Terminal!Connect(i) /\ link[i] = "connecting" /\ link'[i] = "open"
    BY <1>2, <1>9 DEF Terminal!OnOpen, Terminal!Connect, Terminal!Goes, Terminal!TypeOK
  <2>2. ~ confused' => LastIsKnown'
    BY <1>2, <1>4, <1>9, <2>1 DEF Terminal!OnOpen, LastIsKnown, TerminalAttempts, TerminalBusy
  <2>3. Terminal!ConnectedMeansOpen' /\ Terminal!TypesIntoOneShell'
    BY <1>2, <1>4, <1>9, <2>1 DEF Terminal!OnOpen, Terminal!ConnectedMeansOpen,
       Terminal!TypesIntoOneShell
  <2> QED
    BY <1>3, <1>6, <2>1, <2>2, <2>3
<1>10. CASE Terminal!Denied(i) \/ Terminal!OnError(i) \/ Terminal!OnClose(i)
  <2>1. /\ ~ Terminal!Connect(i) /\ link[i] \in {"denied", "failed", "closing"}
        /\ link'[i] \in {"closing", "closed"} /\ UNCHANGED <<terminalMine, typed>>
        /\ status' = IF i \in terminalMine THEN "disconnected" ELSE status
        /\ ~ confused' => ~ confused
        /\ terminalWsRef' # terminalWsRef => i \in terminalMine /\ link[i] = "closing"
    BY <1>2, <1>10 DEF Terminal!Denied, Terminal!OnError, Terminal!OnClose, Terminal!Connect,
       Terminal!Goes, Terminal!TypeOK
  <2>2. ASSUME ~ confused', i \in terminalMine, NEW j \in terminalMine \ {i}
                 PROVE link[j] \notin TerminalBusy
    <3>1. j < i \/ i < j
      BY <1>4
    <3>2. CASE j < i
      BY <2>1, <2>2, <3>2 DEF LastIsKnown
    <3>3. CASE i < j
      <4>1. link[i] # "denied"
        BY <2>1, <2>2, <3>3 DEF LastIsKnown, TerminalBusy, TerminalAttempts
      <4>2. j > i
        BY <1>4, <3>3 DEF Terminal!Ids
      <4> QED
        BY <1>10, <2>1, <2>2, <4>1, <4>2 DEF Terminal!Denied, Terminal!OnError, Terminal!OnClose,
           Terminal!Late
    <3> QED
      BY <3>1, <3>2, <3>3
  <2>3. ~ confused' => LastIsKnown'
    BY <1>2, <1>4, <2>1, <2>2 DEF LastIsKnown, TerminalAttempts, TerminalBusy
  <2>4. Terminal!ConnectedMeansOpen' /\ Terminal!TypesIntoOneShell'
    BY <1>2, <1>4, <2>1 DEF Terminal!ConnectedMeansOpen, Terminal!TypesIntoOneShell
  <2> QED
    BY <1>3, <1>6, <2>1, <2>3, <2>4
<1> QED
  BY <1>5, <1>7, <1>8, <1>9, <1>10 DEF Terminal!Socket

\* The user disconnects, types, leaves the tab and comes back.
LEMMA TerminalUserIInv ==
  ASSUME TerminalIInv, Terminal!Disconnect \/ Terminal!Type \/ Terminal!Leave \/ Terminal!Enter
  PROVE  TerminalIInv'
<1> USE IdsOrdered DEF TerminalIInv
<1>1. CASE Terminal!Disconnect
  <2>1. \A j \in Terminal!Ids : link'[j] = IF j = terminalWsRef
          /\ link[j] \in {"connecting", "open"} THEN "closing" ELSE link[j]
    BY <1>1 DEF Terminal!Disconnect
  <2>2. Terminal!TypeOK'
    <3>1. link' \in [Terminal!Ids -> Terminal!States]
      BY <1>1 DEF Terminal!Disconnect, Terminal!TypeOK, Terminal!States
    <3> QED
      BY <1>1, <3>1 DEF Terminal!Disconnect, Terminal!TypeOK
  <2>3. TerminalInOrder'
    BY <1>1, <2>1 DEF Terminal!Disconnect, TerminalInOrder
  <2>4. ~ confused' => LastIsKnown'
    BY <1>1, <2>1 DEF Terminal!Disconnect, LastIsKnown, Terminal!TypeOK, TerminalAttempts,
       TerminalBusy
  <2> QED
    BY <1>1, <2>2, <2>3, <2>4 DEF Terminal!Disconnect, Terminal!ConnectedMeansOpen,
       Terminal!TypesIntoOneShell
<1>2. CASE Terminal!Type
  <2>1. ~ confused' => \A i, j \in typed' : i = j
    BY <1>2 DEF Terminal!Type, Terminal!TypeOK, LastIsKnown
  <2>2. Terminal!TypeOK'
    BY <1>2 DEF Terminal!Type, Terminal!TypeOK
  <2> QED
    BY <1>2, <2>1, <2>2 DEF Terminal!Type, Terminal!ConnectedMeansOpen, Terminal!TypesIntoOneShell,
       TerminalInOrder, LastIsKnown
<1>3. CASE Terminal!Leave \/ Terminal!Enter
  <2>1. Terminal!TypeOK'
    BY <1>3 DEF Terminal!Leave, Terminal!Enter, Terminal!TypeOK
  <2> QED
    BY <1>3, <2>1 DEF Terminal!Leave, Terminal!Enter, Terminal!ConnectedMeansOpen,
       Terminal!TypesIntoOneShell, TerminalInOrder, LastIsKnown
<1> QED
  BY <1>1, <1>2, <1>3

LEMMA TerminalNextIInv == TerminalIInv /\ [Terminal!Next]_(Terminal!vars) => TerminalIInv'
<1> SUFFICES ASSUME TerminalIInv, [Terminal!Next]_(Terminal!vars) PROVE TerminalIInv'
  OBVIOUS
<1>1. CASE UNCHANGED Terminal!vars
  BY <1>1 DEF Terminal!vars, TerminalIInv, Terminal!TypeOK, Terminal!ConnectedMeansOpen,
     Terminal!TypesIntoOneShell, TerminalInOrder, LastIsKnown
<1> QED
  BY <1>1, TerminalAttemptIInv, TerminalUserIInv DEF Terminal!Next

\* The inductive invariant holds in every reachable state.
THEOREM TerminalInvariance == Terminal!Spec => []TerminalIInv
BY TerminalInitIInv, TerminalNextIInv, PTL DEF Terminal!Spec

\* Every variable keeps its type.
THEOREM TerminalTypeCorrect == Terminal!Spec => []Terminal!TypeOK
<1>1. TerminalIInv => Terminal!TypeOK
  BY DEF TerminalIInv
<1> QED
  BY <1>1, TerminalInvariance, PTL

\* "Connected" is shown only while a connection of this visit is open or its
\* close event is on the way, whatever overlaps (terminal-tab.tsx).
THEOREM ConnectedIsOpen == Terminal!Spec => []Terminal!ConnectedMeansOpen
<1>1. TerminalIInv => Terminal!ConnectedMeansOpen
  BY DEF TerminalIInv
<1> QED
  BY <1>1, TerminalInvariance, PTL

\* A key reaches one shell unless the end of a connection was reported to the tab
\* when it already worked on the next (terminal-tab.tsx).
THEOREM OneShell == Terminal!Spec => []Terminal!TypesIntoOneShell
<1>1. TerminalIInv => Terminal!TypesIntoOneShell
  BY DEF TerminalIInv
<1> QED
  BY <1>1, TerminalInvariance, PTL

-----------------------------------------------------------------------------
(***************************************************************************)
(* The status and the logs of the workers.                                 *)
(***************************************************************************)
\* A poll whose effect is the current one was asked for while the VM runs.
PollsAreCurrent == polls[TRUE] > 0 => Workers!Polling

\* Unless an answer was overtaken, the request heard last brings the log that is
\* named, or the lines shown are that worker's.
Heard(rs) == {r \in rs : r.heard}

LogNamed(rs, named, lines) ==
  named # NoName =>
    \/ Heard(rs) = {} /\ lines = named
    \/ \E r \in Heard(rs) : r.worker = named /\ \A o \in Heard(rs) : o.id <= r.id

WorkersIInv ==
  /\ Workers!TypeOK
  /\ PollsAreCurrent
  /\ Numbered(logRequests, viewed)
  /\ ~ workersJumbled => LogNamed(logRequests, logWorker, logLines)

\* Counters of polls, by whether their effect is the current one.
LEMMA PollCounters ==
  ASSUME NEW S, NEW x \in S, NEW y \in S
  PROVE  LET f == [b \in BOOLEAN |-> IF ~ b THEN x ELSE y]
         IN  f \in [BOOLEAN -> S] /\ f[TRUE] = y
OBVIOUS

LEMMA PollCounterSet ==
  ASSUME NEW S, NEW f \in [BOOLEAN -> S], NEW c \in BOOLEAN, NEW y \in S
  PROVE  LET g == [f EXCEPT ![c] = y]
         IN  g \in [BOOLEAN -> S] /\ g[c] = y /\ (c = FALSE => g[TRUE] = f[TRUE])
OBVIOUS

LEMMA PollCounts ==
  ASSUME NEW S, NEW f \in [BOOLEAN -> S]
  PROVE  f[TRUE] \in S /\ f[FALSE] \in S
OBVIOUS

LEMMA PollEffect ==
  ASSUME WorkersIInv, NEW run \in BOOLEAN, Workers!Effect(run)
  PROVE  polls' \in [BOOLEAN -> 0 .. MaxFetches] /\ (polls'[TRUE] > 0 => run)
<1> DEFINE p == polls[FALSE]
           q == polls[TRUE]
           x == p + q
           y == IF run THEN 1 ELSE 0
<1>1. p \in 0 .. MaxFetches /\ q \in 0 .. MaxFetches
  BY PollCounts DEF WorkersIInv, Workers!TypeOK
<1>2. x <= MaxFetches
  BY DEF Workers!Effect
<1>3. x \in 0 .. MaxFetches
  <2> HIDE DEF p, q
  <2> QED
    BY <1>1, <1>2, BoundsAssumption
<1>4. y \in 0 .. MaxFetches /\ (y > 0 => run)
  <2>1. 1 \in 0 .. MaxFetches /\ 0 \in 0 .. MaxFetches /\ ~ 0 > 0
    BY BoundsAssumption
  <2> QED
    BY <2>1, Zenon
<1>5. polls' = [b \in BOOLEAN |-> IF ~ b THEN x ELSE y]
  BY Zenon DEF Workers!Effect
<1> HIDE DEF x, y
<1> QED
  BY <1>3, <1>5, <1>4, PollCounters

LEMMA WorkersInitIInv == Workers!Init => WorkersIInv
<1> SUFFICES ASSUME Workers!Init PROVE WorkersIInv
  OBVIOUS
<1>1. Workers!TypeOK
  <2>1. 0 \in 0 .. MaxFetches /\ 0 \in 0 .. MaxRequests - 1
    BY BoundsAssumption
  <2>2. Workers!NoPolls \in [BOOLEAN -> 0 .. MaxFetches]
    BY <2>1 DEF Workers!NoPolls
  <2> QED
    BY <2>1, <2>2 DEF Workers!Init, Workers!TypeOK
<1>2. PollsAreCurrent
  BY DEF Workers!Init, PollsAreCurrent, Workers!NoPolls
<1>3. logRequests = {} /\ logWorker = NoName
  BY DEF Workers!Init
<1> QED
  BY <1>1, <1>2, <1>3 DEF WorkersIInv, Numbered, LogNamed

LEMMA WorkersPollsIInv ==
  ASSUME WorkersIInv,
         \/ Workers!VmStateChanges \/ Workers!Poll \/ Workers!Enter
         \/ \E current \in BOOLEAN : Workers!StatusArrives(current)
  PROVE  WorkersIInv'
<1>1. UNCHANGED <<logWorker, logLines, logRequests, viewed, workersJumbled>>
  BY DEF Workers!VmStateChanges, Workers!Poll, Workers!Enter, Workers!StatusArrives, Workers!log
<1> DEFINE q == polls[TRUE]
<1>2. /\ polls \in [BOOLEAN -> 0 .. MaxFetches] /\ MaxFetches \in Nat /\ MaxFetches > 0
      /\ q \in 0 .. MaxFetches
  <2>1. polls \in [BOOLEAN -> 0 .. MaxFetches]
    BY DEF WorkersIInv, Workers!TypeOK
  <2>2. MaxFetches \in Nat /\ MaxFetches > 0
    BY BoundsAssumption
  <2>3. q \in 0 .. MaxFetches
    BY <2>1, PollCounts
  <2> QED
    BY <2>1, <2>2, <2>3
<1>3. \A run \in BOOLEAN : Workers!Effect(run) =>
        polls' \in [BOOLEAN -> 0 .. MaxFetches] /\ (polls'[TRUE] > 0 => run)
  BY PollEffect
<1>4. CASE Workers!VmStateChanges
  BY <1>1, <1>3, <1>4 DEF Workers!VmStateChanges, WorkersIInv, Workers!TypeOK, PollsAreCurrent,
     Workers!Polling
<1>5. CASE Workers!Poll
  <2>1. q < MaxFetches
    BY <1>5 DEF Workers!Poll
  <2>2. q + 1 \in 0 .. MaxFetches
    <3> HIDE DEF q
    <3> QED
      BY <1>2, <2>1
  <2>3. polls' \in [BOOLEAN -> 0 .. MaxFetches]
    BY <1>2, <1>5, <2>2, PollCounterSet DEF Workers!Poll
  <2> QED
    BY <1>1, <1>5, <2>3 DEF Workers!Poll, WorkersIInv, Workers!TypeOK, PollsAreCurrent, Workers!Polling
<1>6. CASE Workers!Enter
  BY <1>1, <1>3, <1>6 DEF Workers!Enter, WorkersIInv, Workers!TypeOK, PollsAreCurrent, Workers!Polling
<1>7. CASE \E current \in BOOLEAN : Workers!StatusArrives(current)
  <2> PICK current \in BOOLEAN : Workers!StatusArrives(current)
    BY <1>7
  <2>1. polls' \in [BOOLEAN -> 0 .. MaxFetches] /\ polls'[TRUE] <= polls[TRUE]
    <3>1. polls[current] - 1 \in 0 .. MaxFetches /\ polls[current] - 1 <= polls[current]
      BY <1>2 DEF Workers!StatusArrives
    <3>2. polls' = [polls EXCEPT ![current] = polls[current] - 1]
      BY DEF Workers!StatusArrives
    <3>3. q <= q
      <4> HIDE DEF q
      <4> QED
        BY <1>2
    <3>4. CASE current = TRUE
      BY <1>2, <3>1, <3>2, <3>4, PollCounterSet
    <3>5. CASE current = FALSE
      BY <1>2, <3>1, <3>2, <3>3, <3>5, PollCounterSet
    <3> QED
      BY <3>4, <3>5
  <2>2. statuses' \subseteq Names
    BY DEF Workers!StatusArrives, WorkersIInv, Workers!TypeOK
  <2>3. UNCHANGED <<workersTabShown, vmState>>
    BY DEF Workers!StatusArrives
  <2>4. Workers!TypeOK'
    BY <1>1, <2>1, <2>2, <2>3 DEF WorkersIInv, Workers!TypeOK
  <2>5. PollsAreCurrent'
    <3> DEFINE p == polls'[TRUE]
    <3>1. p \in 0 .. MaxFetches /\ p <= q
      BY <2>1, PollCounts
    <3>2. p > 0 => q > 0
      <4> HIDE DEF p, q
      <4> QED
        BY <1>2, <3>1
    <3> QED
      BY <2>3, <3>2 DEF WorkersIInv, PollsAreCurrent, Workers!Polling
  <2> QED
    BY <1>1, <2>4, <2>5 DEF WorkersIInv
<1> QED
  BY <1>4, <1>5, <1>6, <1>7

LEMMA WorkersViewIInv ==
  ASSUME WorkersIInv, NEW w \in Names, Workers!ViewLogs(w)
  PROVE  WorkersIInv'
<1> DEFINE s == [id |-> viewed + 1, worker |-> w, heard |-> TRUE]
<1>1. /\ logRequests' = logRequests \cup {s} /\ viewed' = viewed + 1
      /\ s \in Workers!LogRequest /\ s.id = viewed + 1 /\ s.worker = w /\ s.heard
      /\ viewed \in Nat /\ viewed' \in 0 .. MaxRequests - 1
  BY BoundsAssumption DEF WorkersIInv, Workers!TypeOK, Workers!ViewLogs, Workers!LogRequest
<1> HIDE DEF s
<1>2. UNCHANGED <<workersTabShown, vmState, statuses, polls, logLines, workersJumbled>> /\ logWorker' = w
  BY DEF Workers!ViewLogs, Workers!status
<1>3. Workers!TypeOK'
  BY <1>1, <1>2 DEF WorkersIInv, Workers!TypeOK
<1>4. Numbered(logRequests, viewed)'
  BY <1>1, NumberedSend DEF WorkersIInv
<1>5. LogNamed(logRequests, logWorker, logLines)'
  <2>1. s \in Heard(logRequests') /\ \A o \in Heard(logRequests') : o.id <= s.id
    BY <1>1 DEF WorkersIInv, Numbered, Heard
  <2> QED
    BY <1>1, <1>2, <2>1 DEF LogNamed
<1> QED
  BY <1>2, <1>3, <1>4, <1>5 DEF WorkersIInv, PollsAreCurrent, Workers!Polling

LEMMA WorkersLogArrivesIInv ==
  ASSUME WorkersIInv, NEW r \in logRequests, Workers!LogArrives(r)
  PROVE  WorkersIInv'
<1>1. /\ r \in Workers!LogRequest /\ Numbered(logRequests, viewed) /\ viewed \in Nat
      /\ logRequests' = logRequests \ {r}
      /\ UNCHANGED <<workersTabShown, vmState, statuses, polls, logWorker, viewed>>
      /\ logLines' = IF r.heard THEN r.worker ELSE logLines
  BY DEF WorkersIInv, Workers!TypeOK, Workers!LogArrives, Workers!status
<1>2. Workers!TypeOK'
  BY <1>1 DEF WorkersIInv, Workers!TypeOK, Workers!LogRequest, Workers!LogArrives
<1>3. Numbered(logRequests, viewed)'
  BY <1>1, NumberedDrop
<1>4. ASSUME ~ workersJumbled' PROVE LogNamed(logRequests, logWorker, logLines)'
  <2>1. LogNamed(logRequests, logWorker, logLines)
    BY <1>4 DEF WorkersIInv, Workers!LogArrives
  <2>2. CASE logWorker = NoName
    BY <1>1, <2>2 DEF LogNamed
  <2>3. CASE ~ r.heard
    BY <1>1, <2>1, <2>3 DEF LogNamed, Heard
  <2>4. CASE r.heard /\ logWorker # NoName
    <3>1. \A o \in Heard(logRequests) : o.id >= r.id
      BY <1>1, <1>4, <2>4 DEF Workers!LogArrives, Heard, WorkersIInv, Workers!TypeOK, Workers!LogRequest
    <3>2. PICK q \in Heard(logRequests) : q.worker = logWorker /\ \A o \in Heard(logRequests) : o.id <= q.id
      BY <2>1, <2>4 DEF LogNamed, Heard
    <3>3. CASE q = r
      <4>1. Heard(logRequests') = {}
        BY <1>1, <3>1, <3>2, <3>3 DEF Heard, Numbered
      <4> QED
        BY <1>1, <2>4, <3>2, <3>3, <4>1 DEF LogNamed
    <3>4. CASE q # r
      BY <1>1, <3>2, <3>4 DEF LogNamed, Heard
    <3> QED
      BY <3>3, <3>4
  <2> QED
    BY <2>2, <2>3, <2>4
<1> QED
  BY <1>1, <1>2, <1>3, <1>4 DEF WorkersIInv, PollsAreCurrent, Workers!Polling

LEMMA WorkersLeaveIInv ==
  ASSUME WorkersIInv, Workers!Leave
  PROVE  WorkersIInv'
<1>1. polls \in [BOOLEAN -> 0 .. MaxFetches] /\ MaxFetches \in Nat /\ MaxFetches > 0
  BY BoundsAssumption DEF WorkersIInv, Workers!TypeOK
<1>2. polls' \in [BOOLEAN -> 0 .. MaxFetches] /\ ~ polls'[TRUE] > 0
  <2>1. Workers!Effect(FALSE)
    BY DEF Workers!Leave
  <2>2. polls' \in [BOOLEAN -> 0 .. MaxFetches] /\ (polls'[TRUE] > 0 => FALSE)
    BY <2>1, PollEffect
  <2> QED
    BY <2>2
<1>3. logRequests' = {[r EXCEPT !.heard = FALSE] : r \in logRequests} /\ viewed' = viewed
  BY DEF Workers!Leave
<1>4. \A r \in logRequests : /\ [r EXCEPT !.heard = FALSE] \in Workers!LogRequest
                             /\ [r EXCEPT !.heard = FALSE].id = r.id
  BY DEF WorkersIInv, Workers!TypeOK, Workers!LogRequest
<1>5. Workers!TypeOK'
  BY <1>2, <1>3, <1>4 DEF WorkersIInv, Workers!TypeOK, Workers!Leave
<1>6. Numbered(logRequests, viewed)'
  <2> SUFFICES ASSUME NEW q \in logRequests', NEW o \in logRequests'
               PROVE  q.id \in 1 .. viewed /\ (o.id = q.id => o = q)
    BY <1>3 DEF Numbered
  <2> PICK a \in logRequests, b \in logRequests :
             q = [a EXCEPT !.heard = FALSE] /\ o = [b EXCEPT !.heard = FALSE]
    BY <1>3
  <2> QED
    BY <1>4 DEF WorkersIInv, Numbered
<1> QED
  BY <1>2, <1>5, <1>6 DEF WorkersIInv, PollsAreCurrent, LogNamed, Workers!Leave

LEMMA WorkersNextIInv == WorkersIInv /\ [Workers!Next]_(Workers!vars) => WorkersIInv'
<1> SUFFICES ASSUME WorkersIInv, [Workers!Next]_(Workers!vars) PROVE WorkersIInv'
  OBVIOUS
<1>1. CASE UNCHANGED Workers!vars
  BY <1>1 DEF WorkersIInv, Workers!TypeOK, Workers!vars, Workers!status, Workers!log, PollsAreCurrent,
     Workers!Polling
<1>2. CASE Workers!CloseLogs
  BY <1>2 DEF WorkersIInv, Workers!TypeOK, Workers!CloseLogs, Workers!status, PollsAreCurrent,
     Workers!Polling, LogNamed
<1> QED
  BY <1>1, <1>2, WorkersPollsIInv, WorkersViewIInv, WorkersLogArrivesIInv, WorkersLeaveIInv
     DEF Workers!Next

THEOREM WorkersInvariance == Workers!Spec => []WorkersIInv
BY WorkersInitIInv, WorkersNextIInv, PTL DEF Workers!Spec

\* WorkersTab!TypeOK.
THEOREM WorkersTypeCorrect == Workers!Spec => []Workers!TypeOK
<1>1. WorkersIInv => Workers!TypeOK
  BY DEF WorkersIInv
<1> QED
  BY <1>1, WorkersInvariance, PTL

\* WorkersTab!LogIsOfWorker: the lines under a worker's name are its own.
THEOREM LogsAreOfWorker == Workers!Spec => []Workers!LogIsOfWorker
<1>1. WorkersIInv => Workers!LogIsOfWorker
  BY DEF WorkersIInv, Workers!LogIsOfWorker, LogNamed, Heard
<1> QED
  BY <1>1, WorkersInvariance, PTL

\* WorkersTab!NoLateStatus: no status arrives once the VM has stopped.
THEOREM StatusIsNotLate == Workers!Spec => Workers!NoLateStatus
<1>1. WorkersIInv /\ [Workers!Next]_(Workers!vars)
      => [statuses' # statuses => Workers!Polling \/ statuses' = {}]_(Workers!vars)
  <2> SUFFICES ASSUME WorkersIInv, Workers!Next, statuses' # statuses
               PROVE  Workers!Polling \/ statuses' = {}
    BY DEF Workers!vars
  <2>1. CASE Workers!Leave
    BY <2>1 DEF Workers!Leave
  <2>2. CASE \E current \in BOOLEAN : Workers!StatusArrives(current)
    BY <2>2 DEF Workers!StatusArrives, WorkersIInv, PollsAreCurrent
  <2> QED
    BY <2>1, <2>2 DEF Workers!Next, Workers!VmStateChanges, Workers!Poll, Workers!Enter,
       Workers!ViewLogs, Workers!CloseLogs, Workers!LogArrives, Workers!status
<1> QED
  BY <1>1, WorkersInvariance, PTL DEF Workers!Spec, Workers!NoLateStatus

-----------------------------------------------------------------------------
(***************************************************************************)
(* The Overview tab.                                                       *)
(***************************************************************************)
\* What was dismissed where localStorage works is kept there, and a tab that is
\* shown knows it.
DismissalsKept ==
  /\ storageWorks => everDismissed \subseteq kept
  /\ ~ storageWorks => everDismissed = {}
  /\ overviewTabShown => everDismissed \subseteq dismissed

\* A tab that was left fetches nothing, and nothing is fetched ahead of the slug.
\* Unless a fetch failed or was overtaken, the uptime of the slug is shown, or
\* on its way.
UptimeOnItsWay ==
  /\ ~ overviewTabShown => overviewFetches = {}
  /\ \A f \in overviewFetches : f.slug <= overviewApp.slug
  /\ overviewTabShown /\ ~ overviewJumbled =>
       \/ \E f \in overviewFetches : f.slug = overviewApp.slug
       \/ overviewFetches = {} /\ stats = overviewApp.slug

OverviewIInv ==
  /\ Overview!TypeOK
  /\ DismissalsKept
  /\ UptimeOnItsWay

LEMMA OverviewInitIInv == Overview!Init => OverviewIInv
<1> SUFFICES ASSUME Overview!Init PROVE OverviewIInv
  OBVIOUS
<1>1. Overview!TypeOK
  <2>1. 1 \in 1 .. MaxRenames + 1 /\ 0 \in 0 .. MaxRenames + 1
    BY BoundsAssumption
  <2>2. overviewApp \in Overview!App
    BY <2>1 DEF Overview!Init, Overview!App
  <2> QED
    BY <2>1, <2>2 DEF Overview!Init, Overview!TypeOK
<1> QED
  BY <1>1 DEF OverviewIInv, DismissalsKept, UptimeOnItsWay, Overview!Init

LEMMA OverviewFetchesIInv ==
  ASSUME OverviewIInv, NEW f \in overviewFetches, Overview!Serve(f) \/ Overview!UptimeArrives(f)
  PROVE  OverviewIInv'
<1>1. f \in Overview!Fetch /\ \A o \in overviewFetches : o \in Overview!Fetch
  BY DEF OverviewIInv, Overview!TypeOK
<1>2. overviewApp.slug \in Nat
  BY BoundsAssumption DEF OverviewIInv, Overview!TypeOK, Overview!App
<1>3. UNCHANGED <<storageWorks, kept, dismissed, everDismissed, overviewTabShown, overviewApp>>
  BY DEF Overview!Serve, Overview!UptimeArrives, Overview!cards
<1>4. CASE Overview!Serve(f)
  <2>1. PICK state \in {"ok", "failed"} :
          overviewFetches' = Instead(overviewFetches, f, [f EXCEPT !.state = state])
    BY <1>4 DEF Overview!Serve, Overview!Instead, Instead
  <2> DEFINE s == [f EXCEPT !.state = state]
  <2>2. s \in Overview!Fetch /\ s.slug = f.slug
    BY <1>1 DEF Overview!Fetch
  <2> HIDE DEF s
  <2>3. overviewFetches' = (overviewFetches \ {f}) \cup {s}
    BY <2>1 DEF Instead, s
  <2>4. UNCHANGED <<stats, overviewLoading, overviewJumbled>>
    BY <1>4 DEF Overview!Serve
  <2>5. Overview!TypeOK'
    BY <1>3, <2>2, <2>3, <2>4 DEF OverviewIInv, Overview!TypeOK
  <2>6. UptimeOnItsWay'
    BY <1>3, <2>2, <2>3, <2>4 DEF OverviewIInv, UptimeOnItsWay
  <2> QED
    BY <1>3, <2>5, <2>6 DEF OverviewIInv, DismissalsKept
<1>5. CASE Overview!UptimeArrives(f)
  <2>1. Overview!TypeOK'
    <3>1. f.slug \in 0 .. MaxRenames + 1
      BY <1>1, BoundsAssumption DEF Overview!Fetch
    <3> QED
      BY <1>3, <1>5, <3>1 DEF OverviewIInv, Overview!TypeOK, Overview!UptimeArrives
  <2>2. overviewFetches' = overviewFetches \ {f} /\ overviewTabShown
    BY <1>5 DEF Overview!UptimeArrives, OverviewIInv, UptimeOnItsWay
  <2>3. ASSUME ~ overviewJumbled'
        PROVE  \/ \E o \in overviewFetches' : o.slug = overviewApp.slug
               \/ overviewFetches' = {} /\ stats' = overviewApp.slug
    <3>1. ~ overviewJumbled /\ f.state = "ok" /\ stats' = f.slug
      BY <1>1, <1>5, <2>3 DEF Overview!UptimeArrives, Overview!Fetch
    <3>2. \A o \in overviewFetches : o.slug >= f.slug
      <4>1. \A o \in overviewFetches : ~ o.slug < f.slug
        BY <1>5, <2>3 DEF Overview!UptimeArrives
      <4>2. f.slug \in Nat /\ \A o \in overviewFetches : o.slug \in Nat
        BY <1>1, BoundsAssumption DEF Overview!Fetch
      <4> QED
        BY <4>1, <4>2
    <3>3. PICK q \in overviewFetches : q.slug = overviewApp.slug
      BY <2>2, <3>1 DEF OverviewIInv, UptimeOnItsWay
    <3>4. CASE q # f
      BY <2>2, <3>3, <3>4
    <3>5. CASE q = f /\ \E o \in overviewFetches : o # f
      <4> PICK o \in overviewFetches : o # f
        BY <3>5
      <4>1. o.slug = overviewApp.slug
        BY <1>1, <1>2, <3>2, <3>3, <3>5, BoundsAssumption DEF OverviewIInv, UptimeOnItsWay, Overview!Fetch
      <4> QED
        BY <2>2, <4>1
    <3>6. CASE q = f /\ \A o \in overviewFetches : o = f
      BY <2>2, <3>1, <3>3, <3>6
    <3> QED
      BY <3>4, <3>5, <3>6
  <2>4. UptimeOnItsWay'
    BY <1>3, <2>2, <2>3 DEF OverviewIInv, UptimeOnItsWay
  <2> QED
    BY <1>3, <2>1, <2>4 DEF OverviewIInv, DismissalsKept
<1> QED
  BY <1>4, <1>5

LEMMA OverviewPageIInv ==
  ASSUME OverviewIInv,
         \/ \E b \in Overview!Banners : Overview!HandleDismiss(b)
         \/ Overview!Enter \/ Overview!Leave \/ Overview!AppReloads \/ Overview!SlugRenamed
  PROVE  OverviewIInv'
<1>1. overviewApp \in Overview!App /\ MaxRenames \in Nat
  BY BoundsAssumption DEF OverviewIInv, Overview!TypeOK
<1>2. CASE \E b \in Overview!Banners : Overview!HandleDismiss(b)
  BY <1>2 DEF Overview!HandleDismiss, OverviewIInv, Overview!TypeOK, DismissalsKept, UptimeOnItsWay,
     Overview!Shown, Overview!uptime
<1>3. CASE Overview!Enter
  <2>1. [slug |-> overviewApp.slug, state |-> "sent"] \in Overview!Fetch
    BY <1>1 DEF Overview!App, Overview!Fetch
  <2>2. Overview!TypeOK'
    <3>1. overviewFetches' \subseteq Overview!Fetch /\ 0 \in 0 .. MaxRenames + 1
      BY <1>1, <1>3, <2>1 DEF Overview!Enter, OverviewIInv, Overview!TypeOK, Overview!FetchUptime
    <3> QED
      BY <1>3, <3>1 DEF Overview!Enter, OverviewIInv, Overview!TypeOK, Overview!Remembered
  <2>3. DismissalsKept'
    BY <1>3 DEF Overview!Enter, OverviewIInv, DismissalsKept, Overview!Remembered
  <2>4. UptimeOnItsWay'
    <3>1. /\ overviewFetches = {} /\ UNCHANGED overviewApp /\ overviewTabShown'
          /\ overviewFetches' = overviewFetches \cup {[slug |-> overviewApp.slug, state |-> "sent"]}
      BY <1>3 DEF Overview!Enter, OverviewIInv, UptimeOnItsWay, Overview!FetchUptime
    <3>2. overviewApp.slug <= overviewApp.slug
      BY <1>1 DEF Overview!App
    <3> QED
      BY <3>1, <3>2 DEF UptimeOnItsWay
  <2> QED
    BY <2>2, <2>3, <2>4 DEF OverviewIInv
<1>4. CASE Overview!Leave
  <2>1. 0 \in 0 .. MaxRenames + 1
    BY <1>1
  <2> QED
    BY <1>4, <2>1 DEF Overview!Leave, OverviewIInv, Overview!TypeOK, DismissalsKept, UptimeOnItsWay,
       Overview!cards
<1>5. CASE Overview!AppReloads
  <2>1. overviewApp' \in Overview!App /\ overviewApp'.slug = overviewApp.slug
    BY <1>1, <1>5 DEF Overview!AppReloads, Overview!App
  <2> QED
    BY <1>5, <2>1 DEF Overview!AppReloads, OverviewIInv, Overview!TypeOK, DismissalsKept,
       UptimeOnItsWay, Overview!cards, Overview!uptime
<1>6. CASE Overview!SlugRenamed
  <2>1. overviewApp' \in Overview!App /\ overviewApp'.slug = overviewApp.slug + 1
    BY <1>1, <1>6 DEF Overview!SlugRenamed, Overview!App
  <2>2. [slug |-> overviewApp'.slug, state |-> "sent"] \in Overview!Fetch
    BY <2>1 DEF Overview!App, Overview!Fetch
  <2>3. UNCHANGED <<storageWorks, kept, dismissed, everDismissed, overviewTabShown, stats,
                    overviewLoading, overviewJumbled>>
    BY <1>6 DEF Overview!SlugRenamed, Overview!cards
  <2>4. overviewFetches' = IF overviewTabShown
                           THEN overviewFetches \cup {[slug |-> overviewApp'.slug, state |-> "sent"]}
                           ELSE overviewFetches
    BY <1>6 DEF Overview!SlugRenamed, Overview!FetchUptime
  <2>5. Overview!TypeOK'
    BY <2>1, <2>2, <2>3, <2>4 DEF OverviewIInv, Overview!TypeOK
  <2>6. \A f \in overviewFetches : f.slug \in Nat
    BY <1>1 DEF OverviewIInv, Overview!TypeOK, Overview!Fetch
  <2>7. UptimeOnItsWay'
    <3>1. overviewApp.slug \in Nat
      BY <1>1 DEF Overview!App
    <3>2. CASE overviewTabShown
      <4> DEFINE s == [slug |-> overviewApp'.slug, state |-> "sent"]
      <4>1. overviewFetches' = overviewFetches \cup {s} /\ s.slug = overviewApp.slug + 1
        BY <2>1, <2>4, <3>2
      <4> HIDE DEF s
      <4> QED
        BY <2>1, <2>3, <2>6, <3>1, <3>2, <4>1 DEF OverviewIInv, UptimeOnItsWay
    <3>3. CASE ~ overviewTabShown
      BY <2>3, <2>4, <3>3 DEF OverviewIInv, UptimeOnItsWay
    <3> QED
      BY <3>2, <3>3
  <2> QED
    BY <2>3, <2>5, <2>7 DEF OverviewIInv, DismissalsKept
<1> QED
  BY <1>2, <1>3, <1>4, <1>5, <1>6

LEMMA OverviewNextIInv == OverviewIInv /\ [Overview!Next]_(Overview!vars) => OverviewIInv'
<1> SUFFICES ASSUME OverviewIInv, [Overview!Next]_(Overview!vars) PROVE OverviewIInv'
  OBVIOUS
<1>1. CASE UNCHANGED Overview!vars
  BY <1>1 DEF OverviewIInv, Overview!TypeOK, Overview!vars, Overview!cards, Overview!uptime,
     DismissalsKept, UptimeOnItsWay
<1> QED
  BY <1>1, OverviewPageIInv, OverviewFetchesIInv DEF Overview!Next

THEOREM OverviewInvariance == Overview!Spec => []OverviewIInv
BY OverviewInitIInv, OverviewNextIInv, PTL DEF Overview!Spec

\* OverviewTab!TypeOK.
THEOREM OverviewTypeCorrect == Overview!Spec => []Overview!TypeOK
<1>1. OverviewIInv => Overview!TypeOK
  BY DEF OverviewIInv
<1> QED
  BY <1>1, OverviewInvariance, PTL

\* OverviewTab!DismissedStays: a card that was dismissed does not come back.
THEOREM DismissalsStay == Overview!Spec => []Overview!DismissedStays
<1>1. OverviewIInv => Overview!DismissedStays
  BY DEF OverviewIInv, DismissalsKept, Overview!DismissedStays, Overview!Shown
<1> QED
  BY <1>1, OverviewInvariance, PTL

\* OverviewTab!UptimeIsOfSlug: the uptime shown is of the slug the app has.
THEOREM UptimesAreOfSlug == Overview!Spec => []Overview!UptimeIsOfSlug
<1>1. OverviewIInv => Overview!UptimeIsOfSlug
  BY DEF OverviewIInv, UptimeOnItsWay, Overview!UptimeIsOfSlug, Overview!UptimeShown
<1> QED
  BY <1>1, OverviewInvariance, PTL

-----------------------------------------------------------------------------
(***************************************************************************)
(* The Logs tab: history.  Unless a search failed or was overtaken, the    *)
(* one asked for last is for the filter on the page, and when none is in   *)
(* flight the results are.                                                 *)
(***************************************************************************)
NewestIsForFilter ==
  /\ \A s \in searches : (\A o \in searches : o.id <= s.id) => s.what[1] = filter
  /\ searches = {} => searchResult \in Search!Result /\ searchResult.what[1] = filter

SearchIInv ==
  /\ Search!TypeOK
  /\ Numbered(searches, sought)
  /\ ~ searchJumbled => NewestIsForFilter

LEMMA SearchInitIInv == Search!Init => SearchIInv
<1> SUFFICES ASSUME Search!Init PROVE SearchIInv
  OBVIOUS
<1> USE DEF Search!Init
<1>1. /\ <<AnyFilter, NoQuery>> \in Searched /\ 1 \in 1 .. MaxSearches /\ MaxSearches \in Nat
      /\ 1 \in 1 .. MaxPages
  BY SearchAssumption, BoundsAssumption DEF Searched
<1>2. /\ searches \subseteq Search!Search /\ searches # {} /\ sought = 1
      /\ \A s \in searches : s.id = 1 /\ s.what = <<AnyFilter, NoQuery>> /\ s.page = 1
  BY <1>1 DEF Search!Search, Search!Searched, Searched
<1>3. Search!TypeOK
  <2>1. sought \in 0 .. MaxSearches /\ \A s \in searches : s.id <= sought
    BY <1>1, <1>2
  <2> QED
    BY <1>2, <2>1, SearchAssumption DEF Search!TypeOK
<1>4. Numbered(searches, sought)
  BY DEF Numbered
<1>5. filter = AnyFilter /\ searchResult = NoResult
  OBVIOUS
<1>6. \A s \in searches : s.what[1] = filter
  BY <1>2, <1>5
<1>7. NewestIsForFilter
  BY <1>2, <1>6 DEF NewestIsForFilter
<1> QED
  BY <1>3, <1>4, <1>7 DEF SearchIInv

\* A search is sent, for the filter that is then on the page.
LEMMA SearchSendIInv ==
  ASSUME SearchIInv, NEW f \in Filters, NEW page \in Nat, Search!FetchSearchLogs(f, page),
         filter' = f, mode' \in {"history", "live"},
         UNCHANGED <<searchQuery, searchResult, searchJumbled>>
  PROVE  SearchIInv'
<1> DEFINE s == Search!New(f, searchQuery, page)
<1>1. /\ sought < MaxSearches /\ sought' = sought + 1
      /\ searches' = searches \cup {s} /\ searchLoading' = TRUE
  BY DEF Search!FetchSearchLogs
<1>2. /\ sought \in 0 .. MaxSearches /\ MaxSearches \in Nat /\ searches \subseteq Search!Search
      /\ searchQuery \in Queries /\ 1 \in 1 .. MaxPages
  BY BoundsAssumption DEF SearchIInv, Search!TypeOK
<1>3. /\ s \in Search!Search /\ s.id = sought + 1 /\ s.what = <<f, searchQuery>> /\ s.what[1] = f /\ s.page = page
      /\ s.state = "sent"
  BY <1>1, <1>2 DEF Search!New, Search!Search, Search!Searched, Searched
<1> HIDE DEF s
<1>4. Search!TypeOK'
  <2>1. searches' \subseteq Search!Search /\ \A o \in searches' : o.id <= sought'
    BY <1>1, <1>2, <1>3 DEF SearchIInv, Numbered
  <2>2. sought' \in 0 .. MaxSearches
    BY <1>1, <1>2
  <2> QED
    BY <1>1, <2>1, <2>2 DEF SearchIInv, Search!TypeOK
<1>5. Numbered(searches, sought)'
  BY <1>1, <1>2, <1>3, NumberedSend DEF SearchIInv
<1>6. \A o \in searches : o.id < s.id /\ o.id \in Nat
  BY <1>2, <1>3 DEF SearchIInv, Numbered
<1>7. NewestIsForFilter'
  BY <1>1, <1>2, <1>3, <1>6 DEF NewestIsForFilter
<1> QED
  BY <1>4, <1>5, <1>7 DEF SearchIInv

\* The buttons of the pages.
LEMMA SearchPagesIInv ==
  ASSUME SearchIInv, Search!Prev \/ Search!NextPage
  PROVE  SearchIInv'
<1>1. /\ searchResult \in Search!Result /\ filter \in Filters /\ mode \in {"history", "live"}
  BY DEF SearchIInv, Search!TypeOK, Search!Prev, Search!NextPage, Search!Paginated
<1>2. searchResult.page \in Nat
  BY <1>1 DEF Search!Result
<1>3. PICK page \in Nat : Search!FetchSearchLogs(filter, page)
  <2>1. CASE Search!Prev
    BY <1>2, <2>1 DEF Search!Prev
  <2>2. CASE Search!NextPage
    BY <1>2, <2>2 DEF Search!NextPage
  <2> QED
    BY <2>1, <2>2
<1>4. UNCHANGED <<mode, filter, searchQuery, searchResult, searchJumbled>>
  BY DEF Search!Prev, Search!NextPage
<1> QED
  BY <1>1, <1>3, <1>4, SearchSendIInv

\* A search is served, or fails ...
LEMMA SearchServeIInv ==
  ASSUME SearchIInv, NEW s \in searches, Search!Serve(s)
  PROVE  SearchIInv'
<1>1. UNCHANGED <<mode, filter, searchQuery, searchResult, searchLoading, sought, searchJumbled>>
  BY DEF Search!Serve
<1>2. searches \subseteq Search!Search /\ s \in Search!Search /\ sought \in Nat
  BY BoundsAssumption DEF SearchIInv, Search!TypeOK
<1>3. PICK t \in Search!Search : /\ searches' = Instead(searches, s, t)
                                 /\ t.id = s.id /\ t.what = s.what
  <2>1. \A last \in 1 .. MaxPages : LET t == [s EXCEPT !.state = "ok", !.last = last]
                                   IN  t \in Search!Search /\ t.id = s.id /\ t.what = s.what
    BY <1>2 DEF Search!Search
  <2>2. LET t == [s EXCEPT !.state = "failed"]
        IN  t \in Search!Search /\ t.id = s.id /\ t.what = s.what
    BY <1>2 DEF Search!Search
  <2> QED
    BY <2>1, <2>2 DEF Search!Serve, Instead
<1>4. searches' \subseteq Search!Search /\ \A o \in searches' : o.id <= sought'
  BY <1>1, <1>2, <1>3 DEF SearchIInv, Search!TypeOK, Instead
<1>5. Search!TypeOK'
  BY <1>1, <1>4 DEF SearchIInv, Search!TypeOK
<1>6. Numbered(searches, sought)'
  BY <1>1, <1>2, <1>3, NumberedServe DEF SearchIInv
<1>7. \A x \in searches' : \E o \in searches : o.id = x.id /\ o.what = x.what
  BY <1>3 DEF Instead
<1>8. \A x \in searches : \E o \in searches' : o.id = x.id
  BY <1>3 DEF Instead
<1>9. NewestIsForFilter => NewestIsForFilter'
  <2> SUFFICES ASSUME NewestIsForFilter,
                      NEW x \in searches', \A o \in searches' : o.id <= x.id
               PROVE  x.what[1] = filter
    BY <1>1, <1>8 DEF NewestIsForFilter
  <2>1. PICK y \in searches : y.id = x.id /\ y.what = x.what
    BY <1>7
  <2>2. \A o \in searches : o.id <= y.id
    BY <1>8, <2>1
  <2> QED
    BY <2>1, <2>2 DEF NewestIsForFilter
<1> QED
  BY <1>1, <1>5, <1>6, <1>9 DEF SearchIInv

\* ... and its answer arrives.
LEMMA SearchFoundIInv ==
  ASSUME SearchIInv, NEW s \in searches, Search!Found(s)
  PROVE  SearchIInv'
<1>1. /\ UNCHANGED <<mode, filter, searchQuery, sought>> /\ searchLoading' = FALSE
      /\ searches' = searches \ {s}
  BY DEF Search!Found
<1>2. /\ searches \subseteq Search!Search /\ s \in Search!Search /\ s.what \in Searched /\ s.page \in Nat /\ s.last \in 1 .. MaxPages
      /\ searchJumbled \in BOOLEAN /\ sought \in Nat /\ s.state \in {"ok", "failed"}
  <2>1. searches \subseteq Search!Search /\ searchJumbled \in BOOLEAN /\ sought \in Nat /\ s.state # "sent"
    BY BoundsAssumption DEF SearchIInv, Search!TypeOK, Search!Found
  <2> QED
    BY <2>1 DEF Search!Search, Search!Searched, Searched
<1>3. /\ s.state = "ok" => /\ searchResult' \in Search!Result
                           /\ searchResult'.what = s.what /\ searchResult'.page = s.page
      /\ s.state # "ok" => searchResult' = searchResult
  BY <1>2 DEF Search!Found, Search!Result, Search!Searched, Searched
<1>4. searchJumbled' = (searchJumbled \/ s.state = "failed" \/ \E o \in searches : o.id < s.id)
  BY DEF Search!Found, Search!Overtakes
<1>5. Search!TypeOK'
  <2>1. searchJumbled' \in BOOLEAN
    BY <1>4
  <2> QED
    BY <1>1, <1>2, <1>3, <2>1 DEF SearchIInv, Search!TypeOK
<1>6. Numbered(searches, sought)'
  BY <1>1, <1>2, NumberedDrop DEF SearchIInv
<1>7. ~ searchJumbled' => NewestIsForFilter'
  <2> SUFFICES ASSUME ~ searchJumbled' PROVE NewestIsForFilter'
    OBVIOUS
  <2>1. NewestIsForFilter /\ s.state = "ok" /\ \A o \in searches : ~ o.id < s.id
    BY <1>2, <1>4 DEF SearchIInv
  <2>2. \A o \in searches : o.id \in Nat
    BY <1>2 DEF SearchIInv, Numbered
  <2>3. ASSUME NEW x \in searches', \A o \in searches' : o.id <= x.id
        PROVE  x.what[1] = filter
    <3>1. s.id <= x.id
      BY <1>1, <2>1, <2>2
    <3>2. \A o \in searches : o.id <= x.id
      BY <1>1, <2>3, <3>1
    <3> QED
      BY <1>1, <2>1, <3>2 DEF NewestIsForFilter
  <2>4. ASSUME searches' = {} PROVE s.what[1] = filter
    <3>1. searches = {s}
      BY <1>1, <2>4
    <3> QED
      BY <2>1, <2>2, <3>1 DEF NewestIsForFilter
  <2> QED
    BY <1>1, <1>3, <2>1, <2>3, <2>4 DEF NewestIsForFilter
<1> QED
  BY <1>5, <1>6, <1>7 DEF SearchIInv

LEMMA SearchNextIInv == SearchIInv /\ [Search!Next]_(Search!vars) => SearchIInv'
<1> SUFFICES ASSUME SearchIInv, [Search!Next]_(Search!vars) PROVE SearchIInv'
  OBVIOUS
<1>1. CASE UNCHANGED Search!vars
  BY <1>1 DEF SearchIInv, Search!vars, Search!TypeOK, Numbered, NewestIsForFilter
<1>2. filter \in Filters /\ searchQuery \in Queries /\ mode \in {"history", "live"}
  BY DEF SearchIInv, Search!TypeOK
<1>4. ASSUME NEW m \in {"history", "live"}, Search!SetMode(m) PROVE SearchIInv'
  <2>1. CASE m = "history"
    BY <1>2, <1>4, <2>1, SearchSendIInv DEF Search!SetMode
  <2>2. CASE m = "live"
    BY <1>4, <2>2 DEF Search!SetMode, SearchIInv, Search!TypeOK, Numbered, NewestIsForFilter
  <2> QED
    BY <2>1, <2>2
<1>5. ASSUME NEW f \in Filters, Search!SetFilter(f) PROVE SearchIInv'
  BY <1>2, <1>5, SearchSendIInv DEF Search!SetFilter
<1>6. ASSUME NEW q \in Queries, Search!SetSearchQuery(q) PROVE SearchIInv'
  BY <1>6 DEF Search!SetSearchQuery, SearchIInv, Search!TypeOK, Numbered, NewestIsForFilter
<1>7. CASE Search!HandleSearch
  BY <1>2, <1>7, SearchSendIInv DEF Search!HandleSearch
<1>8. CASE Search!Prev \/ Search!NextPage
  BY <1>8, SearchPagesIInv
<1>9. CASE \E s \in searches : Search!Serve(s) \/ Search!Found(s)
  BY <1>9, SearchServeIInv, SearchFoundIInv
<1> QED
  BY <1>1, <1>4, <1>5, <1>6, <1>7, <1>8, <1>9 DEF Search!Next

LEMMA SearchInvariance == Search!Spec => []SearchIInv
BY SearchInitIInv, SearchNextIInv, PTL DEF Search!Spec

\* LogSearch!TypeOK.
THEOREM SearchTypeCorrect == Search!Spec => []Search!TypeOK
<1>1. SearchIInv => Search!TypeOK
  BY DEF SearchIInv
<1> QED
  BY <1>1, SearchInvariance, PTL

\* LogSearch!ResultIsForFilters: the results are those of the filter above them.
THEOREM ResultsAreForFilters == Search!Spec => []Search!ResultIsForFilters
<1>1. SearchIInv => Search!ResultIsForFilters
  BY DEF SearchIInv, NewestIsForFilter, Search!ResultIsForFilters
<1> QED
  BY <1>1, SearchInvariance, PTL

-----------------------------------------------------------------------------
(***************************************************************************)
(* The Analytics tab.  Nothing is described while a week is fetched.       *)
(***************************************************************************)
AnalyticsIInv ==
  /\ Analytics!TypeOK
  /\ fetch.state # "none" => analyticsLoading /\ hovered = Analytics!Nothing
  /\ hovered # Analytics!Nothing => hovered[1] = metrics.week /\ hovered[2] \in 1 .. metrics.hours

\* The dates below the chart, of a week with so many hours.
LEMMA LabelsOfHours ==
  ASSUME NEW n \in Nat
  PROVE  /\ n = 0 => Analytics!Labels(n) = {}
         /\ n = 1 => Analytics!Labels(n) = {1}
         /\ n = 2 => Analytics!Labels(n) = {1, 2}
         /\ n = 3 => Analytics!Labels(n) = {1, 2, 3}
         /\ n = 4 => Analytics!Labels(n) = {1, 2, 3, 4}
         /\ n >= 5 => \E k \in Nat : k >= 1 /\ 4 * k + 1 <= n
                        /\ Analytics!Labels(n) = {1, k + 1, 2 * k + 1, 3 * k + 1, n}
<1> DEFINE count == IF n < 5 THEN n ELSE 5
           step == IF count <= 1 \/ (n - 1) \div (count - 1) = 0 THEN 1 ELSE (n - 1) \div (count - 1)
           at(i) == IF i = count THEN n ELSE (i - 1) * step + 1
<1>1. Analytics!Labels(n) = {at(i) : i \in 1 .. count}
  BY DEF Analytics!Labels
<1>2. n = 2 => (n - 1) \div (count - 1) = 1
  OBVIOUS
<1>3. n = 3 => (n - 1) \div (count - 1) = 1
  OBVIOUS
<1>4. n = 4 => (n - 1) \div (count - 1) = 1
  OBVIOUS
<1>5. n >= 5 => step = (n - 1) \div 4 /\ step \in Nat /\ step >= 1 /\ 4 * step + 1 <= n
  OBVIOUS
<1>6. n < 5 => step = 1
  BY <1>2, <1>3, <1>4
<1>7. n \in 1 .. 4 => Analytics!Labels(n) = 1 .. n
  <2> SUFFICES ASSUME n \in 1 .. 4 PROVE {at(i) : i \in 1 .. n} = 1 .. n
    BY <1>1
  <2>1. \A i \in 1 .. n : at(i) = i
    BY <1>6
  <2> QED
    BY <2>1
<1>8. n >= 5 => Analytics!Labels(n) = {1, step + 1, 2 * step + 1, 3 * step + 1, n}
  <2> SUFFICES ASSUME n >= 5
               PROVE  Analytics!Labels(n) = {1, step + 1, 2 * step + 1, 3 * step + 1, n}
    OBVIOUS
  <2>1. Analytics!Labels(n) = {at(i) : i \in {1, 2, 3, 4, 5}}
    <3>1. count = 5 /\ 1 .. 5 = {1, 2, 3, 4, 5}
      OBVIOUS
    <3> HIDE DEF at
    <3> QED
      BY <1>1, <3>1
  <2>2. at(1) = 1 /\ at(2) = step + 1 /\ at(3) = 2 * step + 1 /\ at(4) = 3 * step + 1 /\ at(5) = n
    BY <1>5
  <2> HIDE DEF at, step
  <2> QED
    BY <2>1, <2>2
<1>9. n = 0 => Analytics!Labels(n) = {}
  BY <1>1
<1> HIDE DEF step, at, count
<1>10. 1 .. 1 = {1} /\ 1 .. 2 = {1, 2} /\ 1 .. 3 = {1, 2, 3} /\ 1 .. 4 = {1, 2, 3, 4}
  OBVIOUS
<1>11. n >= 5 => \E k \in Nat : k >= 1 /\ 4 * k + 1 <= n
                  /\ Analytics!Labels(n) = {1, k + 1, 2 * k + 1, 3 * k + 1, n}
  BY <1>5, <1>8
<1> QED
  BY <1>7, <1>9, <1>10, <1>11

\* As many as are named.
LEMMA OneMore ==
  ASSUME NEW S, NEW k \in Nat, IsFiniteSet(S), Cardinality(S) = k, NEW x, x \notin S, NEW T, T = S \cup {x}
  PROVE  IsFiniteSet(T) /\ Cardinality(T) = k + 1
BY FS_AddElement

LEMMA TwoOfThem ==
  ASSUME NEW a, NEW b, a # b
  PROVE  IsFiniteSet({a, b}) /\ Cardinality({a, b}) = 2
<1>1. IsFiniteSet({a}) /\ Cardinality({a}) = 1
  BY FS_Singleton
<1>2. {a, b} = {a} \cup {b} /\ b \notin {a}
  OBVIOUS
<1> QED
  BY <1>1, <1>2, OneMore

LEMMA ThreeOfThem ==
  ASSUME NEW a, NEW b, NEW c, a # b, c \notin {a, b}
  PROVE  IsFiniteSet({a, b, c}) /\ Cardinality({a, b, c}) = 3
<1> DEFINE S == {a, b}
           T == {a, b, c}
<1>1. IsFiniteSet(S) /\ Cardinality(S) = 2 /\ T = S \cup {c} /\ c \notin S
  BY TwoOfThem
<1> HIDE DEF S, T
<1>2. IsFiniteSet(T) /\ Cardinality(T) = 2 + 1
  BY <1>1, OneMore
<1> QED
  BY <1>2 DEF T

LEMMA FourOfThem ==
  ASSUME NEW a, NEW b, NEW c, NEW d, a # b, c \notin {a, b}, d \notin {a, b, c}
  PROVE  IsFiniteSet({a, b, c, d}) /\ Cardinality({a, b, c, d}) = 4
<1> DEFINE S == {a, b, c}
           T == {a, b, c, d}
<1>1. IsFiniteSet(S) /\ Cardinality(S) = 3 /\ T = S \cup {d} /\ d \notin S
  BY ThreeOfThem
<1> HIDE DEF S, T
<1>2. IsFiniteSet(T) /\ Cardinality(T) = 3 + 1
  BY <1>1, OneMore
<1> QED
  BY <1>2 DEF T

LEMMA FiveOfThem ==
  ASSUME NEW a, NEW b, NEW c, NEW d, NEW e, a # b, c \notin {a, b}, d \notin {a, b, c}, e \notin {a, b, c, d}
  PROVE  IsFiniteSet({a, b, c, d, e}) /\ Cardinality({a, b, c, d, e}) = 5
<1> DEFINE S == {a, b, c, d}
           T == {a, b, c, d, e}
<1>1. IsFiniteSet(S) /\ Cardinality(S) = 4 /\ T = S \cup {e} /\ e \notin S
  BY FourOfThem
<1> HIDE DEF S, T
<1>2. IsFiniteSet(T) /\ Cardinality(T) = 4 + 1
  BY <1>1, OneMore
<1> QED
  BY <1>2 DEF T

\* Each date is below a bar of its own.
LEMMA LabelsAreBars ==
  ASSUME NEW n \in Nat
  PROVE  /\ Analytics!Labels(n) \subseteq 1 .. n
         /\ n > 0 => Cardinality(Analytics!Labels(n)) = IF n < 5 THEN n ELSE 5
<1>1. Analytics!Labels(n) \subseteq 1 .. n
  <2>1. n < 5 => n \in {0, 1, 2, 3, 4}
    OBVIOUS
  <2> QED
    BY <2>1, LabelsOfHours
<1>2. n >= 5 => Cardinality(Analytics!Labels(n)) = 5
  <2> SUFFICES ASSUME n >= 5 PROVE Cardinality(Analytics!Labels(n)) = 5
    OBVIOUS
  <2>1. PICK k \in Nat : k >= 1 /\ 4 * k + 1 <= n /\ Analytics!Labels(n) = {1, k + 1, 2 * k + 1, 3 * k + 1, n}
    BY LabelsOfHours
  <2> DEFINE a == 1
             b == k + 1
             c == 2 * k + 1
             d == 3 * k + 1
  <2>2. a # b /\ c \notin {a, b} /\ d \notin {a, b, c} /\ n \notin {a, b, c, d}
    BY <2>1
  <2>3. Analytics!Labels(n) = {a, b, c, d, n}
    BY <2>1
  <2> HIDE DEF a, b, c, d
  <2> QED
    BY <2>2, <2>3, FiveOfThem
<1>3. n \in 1 .. 4 => Cardinality(Analytics!Labels(n)) = n
  <2>1. Cardinality({1, 2}) = 2 /\ Cardinality({1, 2, 3}) = 3 /\ Cardinality({1, 2, 3, 4}) = 4
    <3> DEFINE a == 1
               b == 2
               c == 3
               d == 4
    <3>1. a # b /\ c \notin {a, b} /\ d \notin {a, b, c}
      OBVIOUS
    <3> HIDE DEF a, b, c, d
    <3>2. Cardinality({a, b}) = 2
      BY <3>1, TwoOfThem
    <3>3. Cardinality({a, b, c}) = 3
      BY <3>1, ThreeOfThem
    <3>4. Cardinality({a, b, c, d}) = 4
      BY <3>1, FourOfThem
    <3> QED
      BY <3>2, <3>3, <3>4 DEF a, b, c, d
  <2>2. n \in 1 .. 4 => n \in {1, 2, 3, 4}
    OBVIOUS
  <2> QED
    BY <2>1, <2>2, LabelsOfHours, FS_Singleton
<1> QED
  BY <1>1, <1>2, <1>3

LEMMA AnalyticsConstants ==
  /\ MaxRequests \in Nat /\ \A h \in Hours : h \in 0 .. 168
  /\ Analytics!NoMetrics \in Analytics!Metrics /\ Analytics!Nothing \in (0 .. MaxRequests) \X (0 .. 168)
<1>1. MaxRequests \in Nat /\ 0 \in Hours /\ \A h \in Hours : h \in 0 .. 168
  BY HoursAssumption, BoundsAssumption
<1> QED
  BY <1>1 DEF Analytics!Metrics, Analytics!NoMetrics, Analytics!Nothing

LEMMA AnalyticsInitIInv == Analytics!Init => AnalyticsIInv
<1> SUFFICES ASSUME Analytics!Init PROVE AnalyticsIInv
  OBVIOUS
<1>1. /\ analyticsTabShown = FALSE /\ analyticsLoading = TRUE /\ metrics = Analytics!NoMetrics
      /\ hovered = Analytics!Nothing /\ fetch.state = "none" /\ fetch.data = Analytics!NoMetrics
  BY DEF Analytics!Init
<1> QED
  BY <1>1, AnalyticsConstants DEF AnalyticsIInv, Analytics!TypeOK

LEMMA AnalyticsNextIInv == AnalyticsIInv /\ [Analytics!Next]_(Analytics!vars) => AnalyticsIInv'
<1> SUFFICES ASSUME AnalyticsIInv, [Analytics!Next]_(Analytics!vars) PROVE AnalyticsIInv'
  OBVIOUS
<1> USE DEF AnalyticsIInv, Analytics!TypeOK
<1>1. CASE UNCHANGED Analytics!vars
  BY <1>1 DEF Analytics!vars
<1>2. /\ Analytics!NoMetrics \in Analytics!Metrics /\ Analytics!Nothing \in (0 .. MaxRequests) \X (0 .. 168)
      /\ MaxRequests \in Nat
      /\ \A m \in Analytics!Metrics : m.week \in 0 .. MaxRequests /\ m.hours \in 0 .. 168
  BY AnalyticsConstants DEF Analytics!Metrics
<1>3. \A x : [fetch EXCEPT !.state = x].state = x /\ [fetch EXCEPT !.state = x].data = fetch.data
  BY DEF Analytics!Metrics
<1>4. CASE Analytics!Refresh \/ Analytics!Enter
  BY <1>2, <1>3, <1>4 DEF Analytics!Refresh, Analytics!Enter, Analytics!FetchAnalytics
<1>5. CASE Analytics!MouseLeave
  BY <1>2, <1>5 DEF Analytics!MouseLeave
<1>6. CASE Analytics!Leave
  BY <1>2, <1>3, <1>6 DEF Analytics!Leave
<1>7. CASE Analytics!Serve
  <2>1. /\ fetch.state = "sent" /\ UNCHANGED <<analyticsTabShown, analyticsLoading, metrics, hovered>>
        /\ fetch'.state \in {"ok", "failed"} /\ fetch'.data \in Analytics!Metrics
    <3>1. CASE fetch' = [fetch EXCEPT !.state = "failed"]
      BY <1>3, <1>7, <3>1 DEF Analytics!Serve
    <3>2. CASE /\ fetch.data.week < MaxRequests
               /\ \E h \in Hours : fetch' = [state |-> "ok", data |-> [week |-> fetch.data.week + 1, hours |-> h]]
      BY <1>2, <1>7, <3>2 DEF Analytics!Serve, Analytics!Metrics
    <3> QED
      BY <1>7, <3>1, <3>2 DEF Analytics!Serve
  <2> QED
    BY <2>1
<1>8. CASE Analytics!MetricsArrive
  BY <1>3, <1>8 DEF Analytics!MetricsArrive
<1>9. ASSUME NEW i \in 1 .. metrics.hours, Analytics!Hover(i) PROVE AnalyticsIInv'
  <2>1. <<metrics.week, i>> \in (0 .. MaxRequests) \X (0 .. 168)
    BY <1>2
  <2> QED
    BY <1>9, <2>1 DEF Analytics!Hover
<1> QED
  BY <1>1, <1>4, <1>5, <1>6, <1>7, <1>8, <1>9 DEF Analytics!Next

LEMMA AnalyticsInvariance == Analytics!Spec => []AnalyticsIInv
BY AnalyticsInitIInv, AnalyticsNextIInv, PTL DEF Analytics!Spec

\* AnalyticsTab!TypeOK.
THEOREM AnalyticsTypeCorrect == Analytics!Spec => []Analytics!TypeOK
<1>1. AnalyticsIInv => Analytics!TypeOK
  BY DEF AnalyticsIInv
<1> QED
  BY <1>1, AnalyticsInvariance, PTL

\* AnalyticsTab!DescribesABar: the box describes a bar of the chart, and each
\* date is below a bar of its own.
THEOREM ABarIsDescribed == Analytics!Spec => []Analytics!DescribesABar
<1>1. AnalyticsIInv => Analytics!DescribesABar
  <2> SUFFICES ASSUME AnalyticsIInv PROVE Analytics!DescribesABar
    OBVIOUS
  <2>1. metrics.hours \in Nat
    BY AnalyticsConstants DEF AnalyticsIInv, Analytics!TypeOK, Analytics!Metrics
  <2>2. hovered # Analytics!Nothing => hovered[1] = metrics.week /\ hovered[2] <= metrics.hours
    BY <2>1 DEF AnalyticsIInv
  <2>3. /\ Analytics!Labels(metrics.hours) \subseteq 1 .. metrics.hours
        /\ metrics.hours > 0 => Cardinality(Analytics!Labels(metrics.hours)) = IF metrics.hours < 5 THEN metrics.hours ELSE 5
    BY <2>1, LabelsAreBars
  <2>4. \A S : Analytics!Cardinality(S) = Cardinality(S)
    BY DEF Analytics!Cardinality, Cardinality
  <2> QED
    BY <2>2, <2>3, <2>4 DEF Analytics!DescribesABar
<1> QED
  BY <1>1, AnalyticsInvariance, PTL
=============================================================================

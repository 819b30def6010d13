----------------------------- MODULE LogStream -----------------------------
(***************************************************************************)
(* The live half of the Logs tab (logs-tab.tsx): the list of recent        *)
(* requests, which is fetched, refreshed by a timer and extended by a      *)
(* WebSocket, and that WebSocket's life from the click on "Stream" over    *)
(* the session the manager grants to its close event.                      *)
(*                                                                         *)
(* One id stands for a click on "Stream", its session and its WebSocket.   *)
(* Events of a WebSocket reach the page some time after what causes them.  *)
(***************************************************************************)
EXTENDS Pages

Ids == 1 .. MaxStreams

VARIABLES
  shown, liveMode,                 \* is the tab mounted, and in live mode?
  streaming, autoRefresh, liveLoading,
  liveLogs,                        \* number of lines listed
  fetches,                         \* fetches of the mounted tab that are in flight
  wsRef,                           \* the WebSocket the tab would close
  stream,                          \* id -> what became of it
  mine,                            \* ids of the visit of the tab that is mounted
  overlapped                       \* history: see NoStrayStream

tab == <<shown, liveMode>>
list == <<liveLoading, liveLogs, fetches>>
vars == <<tab, streaming, autoRefresh, list, wsRef, stream, mine, overlapped>>

\* "asked": for a session; "granted", "denied": the answer is on its way;
\* "connecting", "open", "closing", "closed": readyState, where an open one is
\* "spent" once the manager has read to the end of the log; "failed": an error
\* event is on its way.
States == {"new", "asked", "granted", "denied", "connecting", "open", "spent", "failed", "closing", "closed"}
Alive == {"connecting", "open", "spent"}
Opened == {"open", "spent", "closing"}

TypeOK ==
  /\ shown \in BOOLEAN /\ liveMode \in BOOLEAN
  /\ streaming \in BOOLEAN /\ autoRefresh \in BOOLEAN
  /\ liveLoading \in BOOLEAN /\ liveLogs \in 0 .. Keep /\ fetches \in 0 .. MaxFetches
  /\ wsRef \in Ids \cup {NoSocket}
  /\ stream \in [Ids -> States]
  /\ mine \subseteq Ids
  /\ overlapped \in BOOLEAN

Init ==
  /\ shown = TRUE /\ liveMode = FALSE
  /\ streaming = FALSE /\ autoRefresh = FALSE
  /\ liveLoading = FALSE /\ liveLogs = 0 /\ fetches = 0
  /\ wsRef = NoSocket
  /\ stream = [i \in Ids |-> "new"] /\ mine = {}
  /\ overlapped = FALSE

Goes(i, state) == stream' = [stream EXCEPT ![i] = state]

(***************************************************************************)
(* The list.                                                               *)
(***************************************************************************)
FetchLiveLogs == fetches < MaxFetches /\ fetches' = fetches + 1 /\ liveLoading' = TRUE /\ UNCHANGED liveLogs

SetHistoryMode ==
  /\ shown /\ liveMode
  /\ liveMode' = FALSE
  /\ UNCHANGED <<shown, streaming, autoRefresh, list, wsRef, stream, mine, overlapped>>

SetLiveMode ==
  /\ shown
  /\ liveMode' = TRUE
  /\ IF liveLogs = 0 THEN FetchLiveLogs ELSE UNCHANGED list
  /\ UNCHANGED <<shown, streaming, autoRefresh, wsRef, stream, mine, overlapped>>

\* "Refresh" of the list ...
Refresh ==
  /\ shown /\ liveMode /\ ~ streaming /\ ~ liveLoading
  /\ FetchLiveLogs
  /\ UNCHANGED <<tab, streaming, autoRefresh, wsRef, stream, mine, overlapped>>

\* ... and of the console, which is there in any case.
RefreshConsole ==
  /\ shown /\ liveMode
  /\ FetchLiveLogs
  /\ UNCHANGED <<tab, streaming, autoRefresh, wsRef, stream, mine, overlapped>>

ToggleAutoRefresh ==
  /\ shown /\ liveMode /\ ~ streaming
  /\ autoRefresh' = ~ autoRefresh
  /\ UNCHANGED <<tab, streaming, list, wsRef, stream, mine, overlapped>>

\* setInterval, in live mode only.
Interval ==
  /\ shown /\ liveMode /\ autoRefresh
  /\ FetchLiveLogs
  /\ UNCHANGED <<tab, streaming, autoRefresh, wsRef, stream, mine, overlapped>>

\* The list is replaced by what was fetched, or stays; any answer ends liveLoading.
LiveLogsArrive ==
  /\ shown /\ fetches > 0
  /\ fetches' = fetches - 1 /\ liveLoading' = FALSE
  /\ liveLogs' \in {liveLogs} \cup 0 .. Fetched
  /\ UNCHANGED <<tab, streaming, autoRefresh, wsRef, stream, mine, overlapped>>

(***************************************************************************)
(* The stream.                                                             *)
(***************************************************************************)
StartStreaming(i) ==
  /\ shown /\ liveMode /\ ~ streaming
  /\ wsRef = NoSocket
  /\ stream[i] = "new" /\ \A j \in 1 .. i - 1 : stream[j] # "new"
  /\ Goes(i, "asked") /\ mine' = mine \cup {i}
  /\ UNCHANGED <<tab, streaming, autoRefresh, list, wsRef, overlapped>>

\* logSession of the panel and the manager.
LogSession(i) ==
  /\ stream[i] = "asked"
  /\ Goes(i, "granted") \/ Goes(i, "denied")
  /\ UNCHANGED <<tab, streaming, autoRefresh, list, wsRef, mine, overlapped>>

Denied(i) ==
  /\ stream[i] = "denied"
  /\ Goes(i, "closed")
  /\ UNCHANGED <<tab, streaming, autoRefresh, list, wsRef, mine, overlapped>>

\* The session is there: new WebSocket.  Nobody asks whether the tab still is,
\* or whether another click has come first.
OpenSocket(i) ==
  /\ stream[i] = "granted"
  /\ Goes(i, "connecting")
  /\ wsRef' = IF i \in mine THEN i ELSE wsRef
  /\ overlapped' = (overlapped \/ i \notin mine \/ wsRef # NoSocket)
  /\ UNCHANGED <<tab, streaming, autoRefresh, list, mine>>

OnOpen(i) ==
  /\ stream[i] = "connecting"
  /\ Goes(i, "open")
  /\ IF i \in mine THEN streaming' = TRUE /\ autoRefresh' = FALSE
                   ELSE UNCHANGED <<streaming, autoRefresh>>
  /\ UNCHANGED <<tab, list, wsRef, mine, overlapped>>

\* The session has expired, or the connection cannot be made.
Refused(i) ==
  /\ stream[i] \in {"connecting"}
  /\ Goes(i, "failed")
  /\ UNCHANGED <<tab, streaming, autoRefresh, list, wsRef, mine, overlapped>>

OnError(i) ==
  /\ stream[i] = "failed"
  /\ Goes(i, "closing")
  /\ IF i \in mine THEN streaming' = FALSE /\ wsRef' = NoSocket ELSE UNCHANGED <<streaming, wsRef>>
  /\ overlapped' = (overlapped \/ (i \in mine /\ wsRef \notin {i, NoSocket}))
  /\ UNCHANGED <<tab, autoRefresh, list, mine>>

\* The connection ends (the manager stops, the network fails).
Broken(i) ==
  /\ stream[i] \in {"open", "spent"}
  /\ Goes(i, "closing")
  /\ UNCHANGED <<tab, streaming, autoRefresh, list, wsRef, mine, overlapped>>

OnClose(i) ==
  /\ stream[i] = "closing"
  /\ Goes(i, "closed")
  /\ IF i \in mine THEN streaming' = FALSE /\ wsRef' = NoSocket ELSE UNCHANGED <<streaming, wsRef>>
  /\ overlapped' = (overlapped \/ (i \in mine /\ wsRef \notin {i, NoSocket}))
  /\ UNCHANGED <<tab, autoRefresh, list, mine>>

CloseSocket == stream' = [stream EXCEPT ![wsRef] = IF @ \in Alive THEN "closing" ELSE @]

StopStreaming ==
  /\ shown /\ liveMode /\ streaming
  /\ IF wsRef # NoSocket THEN CloseSocket ELSE UNCHANGED stream
  /\ wsRef' = NoSocket /\ streaming' = FALSE
  /\ UNCHANGED <<tab, autoRefresh, list, mine, overlapped>>

\* Mutant: every line is kept.
OnMessageKeepsAll(i) ==
  /\ shown /\ i \in mine
  /\ stream[i] = "open"
  /\ liveLogs' = liveLogs + 1
  /\ UNCHANGED <<tab, streaming, autoRefresh, liveLoading, fetches, wsRef, stream, mine, overlapped>>

\* A new line of the log reaches the page: the last Keep lines are kept.
OnMessage(i) ==
  /\ shown /\ i \in mine
  /\ stream[i] = "open"
  /\ liveLogs' = IF liveLogs < Keep THEN liveLogs + 1 ELSE Keep
  /\ UNCHANGED <<tab, streaming, autoRefresh, liveLoading, fetches, wsRef, stream, mine, overlapped>>

\* tailLog of the manager: the scanner has met the end of the log and finds
\* nothing any more ...
TailEnds(i) ==
  /\ stream[i] = "open"
  /\ Goes(i, "spent")
  /\ UNCHANGED <<tab, streaming, autoRefresh, list, wsRef, mine, overlapped>>

\* ... until the file is rotated, which makes a new scanner.
TailReopens(i) ==
  /\ stream[i] = "spent"
  /\ Goes(i, "open")
  /\ UNCHANGED <<tab, streaming, autoRefresh, list, wsRef, mine, overlapped>>

(***************************************************************************)
(* The tab is left and shown again.                                        *)
(***************************************************************************)
\* Mutant: no clean-up.
LeaveOnly ==
  /\ shown
  /\ shown' = FALSE /\ liveMode' = FALSE
  /\ streaming' = FALSE /\ autoRefresh' = FALSE
  /\ liveLoading' = FALSE /\ liveLogs' = 0 /\ fetches' = 0
  /\ wsRef' = NoSocket /\ mine' = {}
  /\ UNCHANGED <<stream, overlapped>>

\* "Cleanup WebSocket on unmount".
Leave ==
  /\ shown
  /\ shown' = FALSE /\ liveMode' = FALSE
  /\ streaming' = FALSE /\ autoRefresh' = FALSE
  /\ liveLoading' = FALSE /\ liveLogs' = 0 /\ fetches' = 0
  /\ IF wsRef # NoSocket THEN CloseSocket ELSE UNCHANGED stream
  /\ wsRef' = NoSocket /\ mine' = {}
  /\ UNCHANGED overlapped

Enter ==
  /\ ~ shown
  /\ shown' = TRUE
  /\ UNCHANGED <<liveMode, streaming, autoRefresh, list, wsRef, stream, mine, overlapped>>

Socket(i) ==
  \/ LogSession(i) \/ Denied(i) \/ OpenSocket(i)
  \/ OnOpen(i) \/ Refused(i) \/ OnError(i) \/ OnClose(i)

Next ==
  \/ SetHistoryMode \/ SetLiveMode \/ Refresh \/ RefreshConsole
  \/ ToggleAutoRefresh \/ Interval \/ LiveLogsArrive
  \/ StopStreaming \/ Leave \/ Enter
  \/ \E i \in Ids :
       \/ StartStreaming(i) \/ Socket(i)
       \/ Broken(i) \/ OnMessage(i) \/ TailEnds(i) \/ TailReopens(i)

Spec == Init /\ [][Next]_vars

-----------------------------------------------------------------------------
(***************************************************************************)
(* "Streaming" is shown only while a WebSocket of this visit was opened    *)
(* and its close event has not come.                                       *)
(***************************************************************************)
StreamingHasSocket == streaming => \E i \in mine : stream[i] \in Opened

(***************************************************************************)
(* No WebSocket lives but the one that "Stop" and leaving the tab close;   *)
(* once the tab is left, none.  It fails when a session is granted to a    *)
(* tab that was left or to a second click, and when the late close event   *)
(* of one WebSocket makes the tab forget the next (overlapped).            *)
(***************************************************************************)
NoStrayStream == ~ overlapped => \A i \in Ids : stream[i] \in Alive => i = wsRef
=============================================================================

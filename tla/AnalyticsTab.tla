---------------------------- MODULE AnalyticsTab ----------------------------
(***************************************************************************)
(* The Analytics tab (analytics-tab.tsx): the requests of the last week,   *)
(* which are fetched when the tab is shown and on "Refresh", as a chart    *)
(* with a bar per hour and a box that describes the bar under the mouse.   *)
(* While they are fetched a skeleton stands for all of it.                 *)
(***************************************************************************)
EXTENDS Pages

VARIABLES
  tabShown, loading,
  metrics,                         \* the week shown: its number, and its hours
  hovered,                         \* the week and hour described, or 0 and 0
  fetch                            \* state of the fetch of the tab, and its week

vars == <<tabShown, loading, metrics, hovered, fetch>>

Metrics == [week : 0 .. MaxRequests, hours : Hours]
NoMetrics == [week |-> 0, hours |-> 0]
Nothing == <<0, 0>>

TypeOK ==
  /\ tabShown \in BOOLEAN /\ loading \in BOOLEAN
  /\ metrics \in Metrics
  /\ hovered \in (0 .. MaxRequests) \X (0 .. 168)
  /\ fetch.state \in {"none", "sent", "ok", "failed"} /\ fetch.data \in Metrics

Init ==
  /\ tabShown = FALSE /\ loading = TRUE
  /\ metrics = NoMetrics /\ hovered = Nothing
  /\ fetch = [state |-> "none", data |-> NoMetrics]

\* The chart is unmounted while the skeleton is shown.
FetchAnalytics ==
  /\ loading' = TRUE /\ hovered' = Nothing
  /\ fetch' = [fetch EXCEPT !.state = "sent"]

\* The week is numbered when it is read; a failure leaves the one shown.
Serve ==
  /\ fetch.state = "sent"
  /\ \/ /\ fetch.data.week < MaxRequests
        /\ \E h \in Hours : fetch' = [state |-> "ok", data |-> [week |-> fetch.data.week + 1, hours |-> h]]
     \/ fetch' = [fetch EXCEPT !.state = "failed"]
  /\ UNCHANGED <<tabShown, loading, metrics, hovered>>

MetricsArrive ==
  /\ fetch.state \in {"ok", "failed"}
  /\ metrics' = IF fetch.state = "ok" THEN fetch.data ELSE metrics
  /\ loading' = FALSE
  /\ fetch' = [fetch EXCEPT !.state = "none"]
  /\ UNCHANGED <<tabShown, hovered>>

Refresh ==
  /\ tabShown /\ ~ loading
  /\ FetchAnalytics
  /\ UNCHANGED <<tabShown, metrics>>

\* onMouseEnter of a bar, onMouseLeave of the chart.
Hover(i) ==
  /\ tabShown /\ ~ loading
  /\ i \in 1 .. metrics.hours
  /\ hovered' = <<metrics.week, i>>
  /\ UNCHANGED <<tabShown, loading, metrics, fetch>>

MouseLeave ==
  /\ hovered # Nothing
  /\ hovered' = Nothing
  /\ UNCHANGED <<tabShown, loading, metrics, fetch>>

\* What is fetched for a tab that was left is not heard.
Enter ==
  /\ ~ tabShown
  /\ tabShown' = TRUE
  /\ FetchAnalytics
  /\ UNCHANGED metrics

Leave ==
  /\ tabShown
  /\ tabShown' = FALSE
  /\ loading' = TRUE /\ metrics' = NoMetrics /\ hovered' = Nothing
  /\ fetch' = [fetch EXCEPT !.state = "none"]

\* The bars that have a date below them: at most five, from the first to the
\* last.
Labels(hours) ==
  LET count == IF hours < 5 THEN hours ELSE 5
      step == IF count <= 1 \/ (hours - 1) \div (count - 1) = 0 THEN 1 ELSE (hours - 1) \div (count - 1)
  IN  {IF i = count THEN hours ELSE (i - 1) * step + 1 : i \in 1 .. count}

Next ==
  \/ Refresh \/ MouseLeave \/ Enter \/ Leave \/ Serve \/ MetricsArrive
  \/ \E i \in 1 .. metrics.hours : Hover(i)

Spec == Init /\ [][Next]_vars

\* The request is served, or fails, and its answer is handled.
Served == Serve \/ MetricsArrive

-----------------------------------------------------------------------------
(***************************************************************************)
(* The box describes a bar of the chart that is shown, and each date is    *)
(* below a bar of its own.                                                 *)
(***************************************************************************)
DescribesABar ==
  /\ hovered # Nothing => hovered[1] = metrics.week /\ hovered[2] <= metrics.hours
  /\ Labels(metrics.hours) \subseteq 1 .. metrics.hours
  /\ metrics.hours > 0 => Cardinality(Labels(metrics.hours)) = (IF metrics.hours < 5 THEN metrics.hours ELSE 5)
=============================================================================

--------------------------- MODULE UsageMetering ---------------------------
(***************************************************************************)
(* From access log to invoice, for one app: Caddy appends a line per       *)
(* request and rotates the file; two queue jobs of the panel read on from  *)
(* a cursor, AggregateAppMetrics into hourly counts and IngestLogsJob into *)
(* rows to show; CleanupLogsJob deletes old rows; billing:report-usage     *)
(* tells the billing service the counts of past hours and marks them.      *)
(*                                                                         *)
(* Requests are numbered as they are served.  The current file holds the   *)
(* lines of requests base + 1 .. served, and a cursor counts lines.  One   *)
(* worker process runs the queue; the report is a process of its own.      *)
(***************************************************************************)
EXTENDS Naturals, FiniteSets

CONSTANTS
  MaxRequests,                     \* bound: requests served
  MaxHour,                         \* bound: the clock stops here
  MaxRotations,                    \* bound: rotations of the log
  MaxJobFaults, MaxBillFaults,     \* bounds: failures
  BatchSize,                       \* lines per insert of IngestLogsJob
  Retention                        \* hours a row is kept

ASSUME BoundsAssumption ==
  /\ MaxRequests \in Nat /\ MaxHour \in Nat /\ MaxRotations \in Nat
  /\ MaxJobFaults \in Nat /\ MaxBillFaults \in Nat /\ Retention \in Nat
ASSUME BatchAssumption == BatchSize \in Nat \ {0}

Requests == 1 .. MaxRequests
Hours == 0 .. MaxHour
Jobs == {"aggregate", "ingest"}

VARIABLES
  now,                             \* the hour it is
  served, hour,                    \* requests so far, and the hour of each
  base, rotations,                 \* requests in rotated files
  cursor,                          \* Cache: where the next pass of a job begins
  worker,                          \* the queue worker
  counted,                         \* request_metrics: how often a request is in its row
  logged,                          \* app_logs: rows of a request
  reported,                        \* hours with stripe_reported_at set
  report,                          \* billing:report-usage
  subscribed,                      \* does the team have a subscription?
  billed,                          \* how often a request was reported to Stripe
  jobFaults, billFaults

caddy == <<now, served, hour, base, rotations>>
jobs == <<cursor, worker, counted, logged, jobFaults>>
billing == <<reported, report, billed, billFaults>>
vars == <<caddy, jobs, billing, subscribed>>

Idle == [job |-> "idle", pending |-> {}, next |-> 0]
NoReport == [pc |-> "idle", hours |-> {}, claim |-> [n \in Requests |-> 0]]

TypeOK ==
  /\ now \in Hours
  /\ served \in 0 .. MaxRequests
  /\ hour \in [Requests -> Hours]
  /\ base \in 0 .. served
  /\ rotations \in 0 .. MaxRotations
  /\ cursor \in [Jobs -> 0 .. MaxRequests]
  /\ worker \in [job : Jobs \cup {"idle"}, pending : SUBSET (1 .. served), next : 0 .. MaxRequests]
  /\ counted \in [Requests -> Nat]
  /\ logged \in [Requests -> Nat]
  /\ reported \subseteq Hours
  /\ report \in [pc : {"idle", "team", "mark"}, hours : SUBSET Hours, claim : [Requests -> Nat]]
  /\ subscribed \in BOOLEAN
  /\ billed \in [Requests -> Nat]
  /\ jobFaults \in 0 .. MaxJobFaults
  /\ billFaults \in 0 .. MaxBillFaults

Init ==
  /\ now = 0
  /\ served = 0
  /\ hour = [n \in Requests |-> 0]
  /\ base = 0 /\ rotations = 0
  /\ cursor = [j \in Jobs |-> 0]
  /\ worker = Idle
  /\ counted = [n \in Requests |-> 0]
  /\ logged = [n \in Requests |-> 0]
  /\ reported = {}
  /\ report = NoReport
  /\ subscribed \in BOOLEAN
  /\ billed = [n \in Requests |-> 0]
  /\ jobFaults = 0 /\ billFaults = 0

(***************************************************************************)
(* Time, traffic, log rotation, subscriptions.                             *)
(***************************************************************************)
Tick ==
  /\ now < MaxHour
  /\ now' = now + 1
  /\ UNCHANGED <<served, hour, base, rotations, jobs, billing, subscribed>>

Serve ==
  /\ served < MaxRequests
  /\ served' = served + 1
  /\ hour' = [hour EXCEPT ![served + 1] = now]
  /\ UNCHANGED <<now, base, rotations, jobs, billing, subscribed>>

Rotate ==
  /\ rotations < MaxRotations
  /\ base < served
  /\ base' = served
  /\ rotations' = rotations + 1
  /\ UNCHANGED <<now, served, hour, jobs, billing, subscribed>>

Subscription ==
  /\ subscribed' = ~ subscribed
  /\ UNCHANGED <<caddy, jobs, billing>>

(***************************************************************************)
(* A pass of a job over the log.                                           *)
(***************************************************************************)
Size == served - base
\* "File was rotated (smaller than cursor), reset".
Reach(c) == IF Size < c THEN 0 ELSE c
Start(j) == Reach(cursor[j])

\* Mutant: the cursor is put one line too far.
BeginPassTooFar(j) ==
  /\ worker.job = "idle"
  /\ Size > Start(j)
  /\ worker' = [job |-> j, pending |-> base + Start(j) + 1 .. served, next |-> Size + 1]
  /\ UNCHANGED <<caddy, cursor, counted, logged, jobFaults, billing, subscribed>>

\* Mutant: a single new line is not worth a pass.
BeginPassLazy(j) ==
  /\ worker.job = "idle"
  /\ Size > Start(j) + 1
  /\ worker' = [job |-> j, pending |-> base + Start(j) + 1 .. served, next |-> Size]
  /\ UNCHANGED <<caddy, cursor, counted, logged, jobFaults, billing, subscribed>>

\* The lines from the cursor to the end of the file; the new cursor is ftell.
BeginPass(j) ==
  /\ worker.job = "idle"
  /\ Size > Start(j)
  /\ worker' = [job |-> j, pending |-> base + Start(j) + 1 .. served, next |-> Size]
  /\ UNCHANGED <<caddy, cursor, counted, logged, jobFaults, billing, subscribed>>

Add(f, S) == [n \in Requests |-> IF n \in S THEN f[n] + 1 ELSE f[n]]
Done(S) == worker' = [worker EXCEPT !.pending = @ \ S]

\* One upsert per hour of the pass, oldest first.
UpsertHour(h) ==
  LET S == {n \in worker.pending : hour[n] = h} IN
  /\ worker.job = "aggregate"
  /\ S # {}
  /\ \A n \in worker.pending : h <= hour[n]
  /\ counted' = Add(counted, S)
  /\ Done(S)
  /\ UNCHANGED <<caddy, cursor, logged, jobFaults, billing, subscribed>>

\* An insert of BatchSize rows, or of the rest.
InsertBatch(S) ==
  /\ worker.job = "ingest"
  /\ S \subseteq worker.pending /\ S # {}
  /\ Cardinality(S) <= BatchSize
  /\ Cardinality(S) = BatchSize \/ S = worker.pending
  /\ \A n \in S, m \in worker.pending \ S : n < m
  /\ logged' = Add(logged, S)
  /\ Done(S)
  /\ UNCHANGED <<caddy, cursor, counted, jobFaults, billing, subscribed>>

\* Mutant: the cursor stays where it was.
PutNothing ==
  /\ worker.job # "idle" /\ worker.pending = {}
  /\ worker' = Idle
  /\ UNCHANGED <<caddy, cursor, counted, logged, jobFaults, billing, subscribed>>

\* Cache::put, after everything is written.
PutCursor ==
  /\ worker.job # "idle" /\ worker.pending = {}
  /\ cursor' = [cursor EXCEPT ![worker.job] = worker.next]
  /\ worker' = Idle
  /\ UNCHANGED <<caddy, counted, logged, jobFaults, billing, subscribed>>

\* Mutant: the cursor is put whether or not the pass succeeds.
PassFailsForward ==
  /\ worker.job # "idle"
  /\ jobFaults < MaxJobFaults
  /\ jobFaults' = jobFaults + 1
  /\ cursor' = [cursor EXCEPT ![worker.job] = worker.next]
  /\ worker' = Idle
  /\ UNCHANGED <<caddy, counted, logged, billing, subscribed>>

\* A database error, caught per app, or the end of the worker process; what is
\* written stays written and the next pass begins at the old cursor.
PassFails ==
  /\ worker.job # "idle"
  /\ jobFaults < MaxJobFaults
  /\ jobFaults' = jobFaults + 1
  /\ worker' = Idle
  /\ UNCHANGED <<caddy, cursor, counted, logged, billing, subscribed>>

\* CleanupLogsJob, on the same queue, at a time within the hour: the rows up to
\* request last are past their retention.
CleanupLogs(last) ==
  LET old == {n \in 1 .. last : logged[n] > 0} IN
  /\ worker.job = "idle"
  /\ old # {}
  /\ \A n \in 1 .. served :
       /\ hour[n] + Retention < now => n <= last
       /\ n <= last => hour[n] + Retention <= now
  /\ logged' = [n \in Requests |-> IF n \in old THEN 0 ELSE logged[n]]
  /\ UNCHANGED <<caddy, cursor, worker, counted, jobFaults, billing, subscribed>>

(***************************************************************************)
(* billing:report-usage, for the app's team.                               *)
(***************************************************************************)
Row(h) == \E n \in 1 .. served : hour[n] = h /\ counted[n] > 0
Unreported(before) == {h \in Hours : h < before /\ h \notin reported /\ Row(h)}
Claim(hs) == [n \in Requests |-> IF n <= served /\ hour[n] \in hs THEN counted[n] ELSE 0]

\* Mutant: the hour that is not over is reported, too.
BeginReportEarly ==
  /\ report.pc = "idle"
  /\ LET hs == Unreported(now + 1) IN
       hs # {} /\ report' = [pc |-> "team", hours |-> hs, claim |-> Claim(hs)]
  /\ UNCHANGED <<caddy, jobs, reported, billed, billFaults, subscribed>>

\* period < now - 1 hour, to the second: in the first second of an hour the
\* hour that has just ended is not selected.
BeginReport ==
  /\ report.pc = "idle"
  /\ \E before \in {now, now - 1} \cap Nat :
       LET hs == Unreported(before) IN
         hs # {} /\ report' = [pc |-> "team", hours |-> hs, claim |-> Claim(hs)]
  /\ UNCHANGED <<caddy, jobs, reported, billed, billFaults, subscribed>>

\* Mutant: the usage of a team without subscription is left as it is.
KeepUnbillable ==
  /\ report.pc = "team"
  /\ ~ subscribed
  /\ report' = NoReport
  /\ UNCHANGED <<caddy, jobs, reported, billed, billFaults, subscribed>>

\* "Mark as reported anyway so we don't accumulate unbillable rows."
Discard ==
  /\ report.pc = "team"
  /\ ~ subscribed
  /\ reported' = reported \cup report.hours
  /\ report' = NoReport
  /\ UNCHANGED <<caddy, jobs, billed, billFaults, subscribed>>

AddClaim == billed' = [n \in Requests |-> billed[n] + report.claim[n]]

ReportUsage ==
  /\ report.pc = "team"
  /\ subscribed
  /\ AddClaim
  /\ report' = [report EXCEPT !.pc = "mark"]
  /\ UNCHANGED <<caddy, jobs, reported, billFaults, subscribed>>

\* Stripe refuses or cannot be reached; the rows wait for the next hour.
ReportRefused ==
  /\ report.pc = "team"
  /\ subscribed
  /\ report' = NoReport
  /\ UNCHANGED <<caddy, jobs, reported, billed, billFaults, subscribed>>

\* Stripe has taken the usage, but its answer is lost.
AnswerLost ==
  /\ report.pc = "team"
  /\ subscribed
  /\ billFaults < MaxBillFaults
  /\ billFaults' = billFaults + 1
  /\ AddClaim
  /\ report' = NoReport
  /\ UNCHANGED <<caddy, jobs, reported, subscribed>>

\* Mutant: the rows are not marked.
MarkNothing ==
  /\ report.pc = "mark"
  /\ report' = NoReport
  /\ UNCHANGED <<caddy, jobs, reported, billed, billFaults, subscribed>>

MarkReported ==
  /\ report.pc = "mark"
  /\ reported' = reported \cup report.hours
  /\ report' = NoReport
  /\ UNCHANGED <<caddy, jobs, billed, billFaults, subscribed>>

\* The update fails or the process ends before it.
MarkFails ==
  /\ report.pc = "mark"
  /\ billFaults < MaxBillFaults
  /\ billFaults' = billFaults + 1
  /\ report' = NoReport
  /\ UNCHANGED <<caddy, jobs, reported, billed, subscribed>>

WorkerStep ==
  \/ \E h \in Hours : UpsertHour(h)
  \/ \E S \in SUBSET worker.pending : InsertBatch(S)
  \/ PutCursor

Next ==
  \/ Tick \/ Serve \/ Rotate \/ Subscription
  \/ \E j \in Jobs : BeginPass(j)
  \/ WorkerStep
  \/ PassFails
  \/ \E last \in 1 .. served : CleanupLogs(last)
  \/ BeginReport
  \/ Discard \/ ReportUsage \/ ReportRefused \/ AnswerLost
  \/ MarkReported \/ MarkFails

Spec == Init /\ [][Next]_vars

(***************************************************************************)
(* Fairness: the scheduler queues every job again and again and the queue  *)
(* is first in, first out; commands end; Stripe answers in the end.        *)
(***************************************************************************)
Fairness ==
  /\ \A j \in Jobs : SF_vars(BeginPass(j))
  /\ WF_vars(WorkerStep)
  /\ WF_vars(BeginReport)
  /\ SF_vars(Discard \/ ReportUsage)
  /\ WF_vars(MarkReported)

FairSpec == Spec /\ Fairness

-----------------------------------------------------------------------------
\* As long as no pass failed, no request is counted or shown twice, wherever
\* rotation, appends and the other job fall.
CountedOnce == jobFaults = 0 => \A n \in Requests : counted[n] <= 1 /\ logged[n] <= 1

\* A failed pass loses nothing: until the file is rotated, every line before a
\* cursor is counted, or shown unless it was deleted for its age.
NothingSkipped ==
  base = 0 =>
    \A n \in 1 .. served :
      /\ n <= cursor["aggregate"] => counted[n] > 0
      /\ n <= cursor["ingest"] /\ hour[n] + Retention > now => logged[n] > 0

\* As long as the report is not cut off between billing and marking, a request
\* is billed at most as often as it was counted, however passes fail and rows
\* grow between the report's query and its mark.
BilledAsCounted == billFaults = 0 => \A n \in Requests : billed[n] <= counted[n]

\* A request is not billed before its hour is over.
BilledAfterItsHour == \A n \in 1 .. served : billed[n] > 0 => hour[n] < now

\* The row of a past hour is reported, or discarded, in the end.
RowsAreReported == \A h \in 0 .. MaxHour - 1 : (Row(h) /\ h < now) ~> h \in reported

\* Every line is counted in the end, unless the file is rotated.
LinesAreCounted ==
  \A n \in Requests : (n <= served /\ base = 0) ~> (counted[n] > 0 \/ base > 0)

\* ReportUsage.php:19 "Only report metrics from completed periods (older than 1
\* hour) to avoid partial counts": the row of an hour that was billed and marked
\* as reported does not grow any more.
Settled(h) == h \in reported /\ \E n \in 1 .. served : hour[n] = h /\ billed[n] > 0
ReportedIsComplete ==
  [][\A n \in 1 .. served : Settled(hour[n]) => counted'[n] = counted[n]]_vars
=============================================================================

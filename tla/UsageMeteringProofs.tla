------------------------ MODULE UsageMeteringProofs ------------------------
(***************************************************************************)
(* Proofs about UsageMetering for any number of requests, hours, rotations *)
(* and failures, any batch size and any retention.                         *)
(***************************************************************************)
EXTENDS UsageMetering, TLAPS

Written(j) == IF j = "aggregate" THEN counted ELSE logged

\* Without a failed pass, what is written is written once, and lies where the
\* next pass of the job will not read, even if the file has been rotated.
OnceInv ==
  jobFaults = 0 =>
    \A j \in Jobs, n \in Requests :
      /\ Written(j)[n] <= 1
      /\ worker.job # j /\ Written(j)[n] > 0 => n <= base + Start(j)
      /\ worker.job = j =>
           /\ n \in worker.pending => Written(j)[n] = 0
           /\ Written(j)[n] > 0 \/ n \in worker.pending => n <= base + Reach(worker.next)

\* What a job must have written before its cursor may pass it.
Due(j, n) == j = "aggregate" \/ hour[n] + Retention > now

\* In a file that was never rotated, everything before a cursor is written, and
\* everything before the cursor a pass will put is written or in its hands.
CoverInv ==
  base = 0 =>
    \A j \in Jobs :
      /\ cursor[j] <= served
      /\ \A n \in 1 .. cursor[j] : Due(j, n) => Written(j)[n] > 0
      /\ worker.job = j =>
           /\ worker.next <= served
           /\ \A n \in 1 .. worker.next : Due(j, n) => n \in worker.pending \/ Written(j)[n] > 0

\* What is claimed or billed belongs to past hours, and is claimed at most as
\* often as counted and, without a failed mark, billed in one report only.
BillInv ==
  /\ \A h \in report.hours : h < now
  /\ report.pc = "team" => report.hours \cap reported = {}
  /\ \A n \in Requests :
       /\ report.claim[n] <= counted[n]
       /\ report.claim[n] > 0 => n <= served /\ hour[n] \in report.hours
       /\ billed[n] > 0 => n <= served /\ hour[n] < now
       /\ billFaults = 0 =>
            /\ billed[n] <= counted[n]
            /\ billed[n] > 0 => \/ hour[n] \in reported
                                \/ report.pc = "mark" /\ hour[n] \in report.hours

MInv == TypeOK /\ OnceInv /\ CoverInv /\ BillInv

USE BoundsAssumption, BatchAssumption

LEMMA InitMInv == Init => MInv
<1> SUFFICES ASSUME Init PROVE MInv
  OBVIOUS
<1>1. TypeOK
  BY DEF Init, TypeOK, Idle, NoReport, Requests, Hours, Jobs
<1>2. OnceInv
  BY DEF Init, OnceInv, Written, Idle, Requests, Jobs
<1>3. CoverInv
  BY DEF Init, CoverInv, Written, Idle, Jobs
<1>4. BillInv
  BY DEF Init, BillInv, NoReport, Requests
<1> QED
  BY <1>1, <1>2, <1>3, <1>4 DEF MInv

\* Steps outside billing keep BillInv when they only add requests, counts and time.
LEMMA BillKept ==
  ASSUME TypeOK, BillInv, UNCHANGED billing,
         served <= served', now <= now', served' \in Nat, now' \in Nat,
         \A n \in 1 .. served : hour'[n] = hour[n],
         counted' \in [Requests -> Nat],
         \A n \in Requests : counted[n] <= counted'[n]
  PROVE  BillInv'
<1>1. UNCHANGED <<reported, report, billed, billFaults>>
  BY DEF billing
<1>2. \A h \in report.hours : h < now'
  BY DEF BillInv, TypeOK, Hours
<1>3. ASSUME NEW n \in Requests
      PROVE  /\ report.claim[n] <= counted'[n]
             /\ report.claim[n] > 0 => n <= served' /\ hour'[n] \in report.hours
             /\ billed[n] > 0 => n <= served' /\ hour'[n] < now'
             /\ billFaults = 0 =>
                  /\ billed[n] <= counted'[n]
                  /\ billed[n] > 0 => \/ hour'[n] \in reported
                                      \/ report.pc = "mark" /\ hour'[n] \in report.hours
  <2>1. n <= served => hour'[n] = hour[n] /\ hour[n] \in Nat
    BY DEF TypeOK, Requests, Hours
  <2>2. /\ report.claim[n] \in Nat /\ counted[n] \in Nat /\ counted'[n] \in Nat
        /\ billed[n] \in Nat /\ counted[n] <= counted'[n]
    BY DEF TypeOK
  <2>3. now \in Nat /\ served \in Nat /\ n \in Nat
    BY DEF TypeOK, Hours, Requests
  <2> QED
    BY <1>3, <2>1, <2>2, <2>3 DEF BillInv
<1> QED
  BY <1>1, <1>2, <1>3 DEF BillInv

\* Where a pass begins never moves back, neither by appends nor by a rotation.
LEMMA ReachGrows ==
  ASSUME NEW b1 \in Nat, NEW s1 \in Nat, NEW b2 \in Nat, NEW s2 \in Nat, NEW c \in Nat,
         s1 <= s2, b1 <= s1, b2 <= s2, b2 = b1 \/ b2 = s1
  PROVE  b1 + (IF s1 - b1 < c THEN 0 ELSE c) <= b2 + (IF s2 - b2 < c THEN 0 ELSE c)
<1>1. CASE b2 = b1
  BY <1>1
<1>2. CASE b2 = s1
  BY <1>2
<1> QED
  BY <1>1, <1>2

LEMMA CaddyStep ==
  ASSUME MInv, Tick \/ Serve \/ Rotate \/ Subscription
  PROVE  MInv'
<1> USE DEF MInv
<1>0. /\ now \in Nat /\ served \in Nat /\ base \in Nat /\ base <= served
      /\ cursor \in [Jobs -> Nat] /\ worker.next \in Nat /\ worker.pending \subseteq 1 .. served
      /\ counted \in [Requests -> Nat] /\ logged \in [Requests -> Nat]
  BY DEF TypeOK, Hours
<1>1. UNCHANGED <<cursor, worker, counted, logged, jobFaults, reported, report, billed, billFaults>>
  BY DEF Tick, Serve, Rotate, Subscription, caddy, jobs, billing
<1>2. /\ served' \in Nat /\ now' \in Nat /\ base' \in Nat
      /\ served <= served' /\ now <= now' /\ base' <= served'
      /\ \A n \in 1 .. served : hour'[n] = hour[n]
      /\ UNCHANGED base \/ base' = served
      /\ base <= base'
  <2>1. CASE Tick
    BY <1>0, <2>1 DEF Tick
  <2>2. CASE Serve
    <3>1. \A n \in 1 .. served : n \in Requests /\ n # served + 1
      BY <1>0, <2>2 DEF Serve, Requests, TypeOK
    <3>2. \A n \in 1 .. served : hour'[n] = hour[n]
      BY <2>2, <3>1 DEF Serve, TypeOK
    <3> QED
      BY <1>0, <2>2, <3>2 DEF Serve
  <2>3. CASE Rotate
    BY <1>0, <2>3 DEF Rotate
  <2>4. CASE Subscription
    BY <1>0, <2>4 DEF Subscription, caddy
  <2> QED
    BY <2>1, <2>2, <2>3, <2>4
<1>3. TypeOK'
  <2>1. worker.pending \subseteq 1 .. served'
    BY <1>0, <1>2
  <2>2. CASE Tick
    <3>1. now' \in Hours
      BY <1>0, <2>2 DEF Tick, Hours
    <3> QED
      BY <1>1, <2>2, <3>1 DEF Tick, TypeOK
  <2>3. CASE Serve
    <3>1. served' \in 0 .. MaxRequests /\ base' \in 0 .. served' /\ hour' \in [Requests -> Hours]
      <4>1. served' \in 0 .. MaxRequests /\ base' \in 0 .. served'
        BY <1>0, <2>3 DEF Serve
      <4>2. hour' \in [Requests -> Hours]
        BY <2>3 DEF Serve, TypeOK
      <4> QED
        BY <4>1, <4>2
    <3> QED
      BY <1>1, <2>1, <2>3, <3>1 DEF Serve, TypeOK
  <2>4. CASE Rotate
    BY <1>0, <1>1, <2>1, <2>4 DEF Rotate, TypeOK
  <2>5. CASE Subscription
    BY <1>1, <2>5 DEF Subscription, TypeOK, caddy
  <2> QED
    BY <2>2, <2>3, <2>4, <2>5
<1>4. BillInv'
  BY <1>0, <1>1, <1>2, BillKept DEF billing
<1>5. OnceInv'
  <2> SUFFICES ASSUME jobFaults = 0, NEW j \in Jobs, NEW n \in Requests
               PROVE  /\ Written(j)[n] <= 1
                      /\ worker.job # j /\ Written(j)[n] > 0 => n <= base' + Start(j)'
                      /\ worker.job = j =>
                           /\ n \in worker.pending => Written(j)[n] = 0
                           /\ Written(j)[n] > 0 \/ n \in worker.pending =>
                                n <= base' + Reach(worker.next)'
    BY <1>1 DEF OnceInv, Written
  <2>1. \A c \in Nat : Reach(c) \in Nat /\ Reach(c)' \in Nat
    BY DEF Reach
  <2>2. n \in Nat /\ \A c \in Nat : n <= base + Reach(c) => n <= base' + Reach(c)'
    <3>1. n \in Nat
      BY DEF Requests
    <3>2. ASSUME NEW c \in Nat
          PROVE  base + Reach(c) <= base' + Reach(c)'
      BY <1>0, <1>2, ReachGrows DEF Reach, Size
    <3>3. ASSUME NEW c \in Nat, n <= base + Reach(c)
          PROVE  n <= base' + Reach(c)'
      BY <1>0, <1>2, <2>1, <3>1, <3>2, <3>3
    <3> QED
      BY <3>1, <3>3
  <2> QED
    BY <1>0, <1>1, <2>2 DEF OnceInv, Start
<1>6. CoverInv'
  <2> SUFFICES ASSUME base' = 0, NEW j \in Jobs
               PROVE  /\ cursor[j] <= served'
                      /\ \A n \in 1 .. cursor[j] : Due(j, n)' => Written(j)[n] > 0
                      /\ worker.job = j =>
                           /\ worker.next <= served'
                           /\ \A n \in 1 .. worker.next :
                                Due(j, n)' => n \in worker.pending \/ Written(j)[n] > 0
    BY <1>1 DEF CoverInv, Written
  <2>1. base = 0
    BY <1>0 DEF Tick, Serve, Rotate, Subscription, caddy
  <2>2. \A n \in 1 .. served : Due(j, n)' => Due(j, n)
    <3>1. \A n \in 1 .. served : hour[n] \in Nat /\ hour'[n] = hour[n]
      BY <1>2 DEF TypeOK, Requests, Hours
    <3> QED
      BY <1>0, <1>2, <3>1 DEF Due
  <2> QED
    BY <1>0, <1>2, <2>1, <2>2 DEF CoverInv
<1> QED
  BY <1>3, <1>4, <1>5, <1>6

\* The jobs and Caddy stand still while the report takes a step.
LEMMA JobsKept ==
  ASSUME OnceInv, CoverInv, UNCHANGED <<caddy, jobs>>
  PROVE  OnceInv' /\ CoverInv'
BY DEF OnceInv, CoverInv, caddy, jobs, Written, Start, Reach, Size, Due

LEMMA ReportStep ==
  ASSUME MInv,
         \/ BeginReport \/ Discard \/ ReportUsage \/ ReportRefused \/ AnswerLost
         \/ MarkReported \/ MarkFails
  PROVE  MInv'
<1> USE DEF MInv
<1>1. UNCHANGED <<caddy, jobs, subscribed>>
  BY DEF BeginReport, Discard, ReportUsage, ReportRefused, AnswerLost, MarkReported, MarkFails
<1>2. UNCHANGED <<now, served, hour, base, rotations, cursor, worker, counted, logged, jobFaults>>
  BY <1>1 DEF caddy, jobs
<1>3. OnceInv' /\ CoverInv'
  BY <1>1, JobsKept
<1>4. /\ now \in Nat /\ served \in Nat /\ counted \in [Requests -> Nat]
      /\ hour \in [Requests -> Hours] /\ report.claim \in [Requests -> Nat]
      /\ billed \in [Requests -> Nat] /\ billFaults \in Nat
      /\ report = [pc |-> report.pc, hours |-> report.hours, claim |-> report.claim]
  BY DEF TypeOK, Hours
<1>5. CASE BeginReport
  <2>1. PICK hs \in SUBSET Hours :
          /\ report' = [pc |-> "team", hours |-> hs, claim |-> Claim(hs)]
          /\ \A h \in hs : h < now /\ h \notin reported
          /\ report.pc = "idle"
          /\ UNCHANGED <<reported, billed, billFaults>>
    <3>1. PICK before \in {now, now - 1} \cap Nat :
            report' = [pc |-> "team", hours |-> Unreported(before), claim |-> Claim(Unreported(before))]
      BY <1>5 DEF BeginReport
    <3>2. \A h \in Unreported(before) : h \in Hours /\ h < now /\ h \notin reported
      BY <1>4 DEF Unreported, Hours
    <3> QED
      BY <1>5, <3>1, <3>2 DEF BeginReport
  <2>2. Claim(hs) \in [Requests -> Nat]
    BY <1>4 DEF Claim
  <2>3. TypeOK'
    BY <1>1, <1>2, <2>1, <2>2 DEF TypeOK
  <2>4. \A n \in Requests : /\ Claim(hs)[n] <= counted[n]
                            /\ Claim(hs)[n] > 0 => n <= served /\ hour[n] \in hs
    BY <1>4 DEF Claim
  <2>5. BillInv'
    BY <1>2, <1>4, <2>1, <2>4 DEF BillInv
  <2> QED
    BY <1>3, <2>3, <2>5
<1>6. CASE Discard \/ MarkReported
  <2>1. reported' = reported \cup report.hours /\ report' = NoReport /\ UNCHANGED <<billed, billFaults>>
    BY <1>6 DEF Discard, MarkReported
  <2>2. TypeOK'
    BY <1>1, <1>2, <2>1 DEF TypeOK, NoReport
  <2>3. BillInv'
    BY <1>2, <1>4, <2>1 DEF BillInv, NoReport
  <2> QED
    BY <1>3, <2>2, <2>3
<1>7. CASE ReportRefused
  <2>1. report' = NoReport /\ report.pc = "team" /\ UNCHANGED <<reported, billed, billFaults>>
    BY <1>7 DEF ReportRefused
  <2>2. TypeOK'
    BY <1>1, <1>2, <2>1 DEF TypeOK, NoReport
  <2>3. BillInv'
    BY <1>2, <1>4, <2>1 DEF BillInv, NoReport
  <2> QED
    BY <1>3, <2>2, <2>3
<1>8. CASE MarkFails
  <2>1. report' = NoReport /\ billFaults' = billFaults + 1 /\ billFaults < MaxBillFaults
        /\ UNCHANGED <<reported, billed>>
    BY <1>8 DEF MarkFails
  <2>2. TypeOK'
    BY <1>1, <1>2, <1>4, <2>1 DEF TypeOK, NoReport
  <2>3. billFaults' # 0
    BY <1>4, <2>1
  <2>4. BillInv'
    BY <1>2, <1>4, <2>1, <2>3 DEF BillInv, NoReport
  <2> QED
    BY <1>3, <2>2, <2>4
<1>9. ASSUME report.pc = "team", AddClaim
      PROVE  /\ billed' \in [Requests -> Nat]
             /\ \A n \in Requests :
                  /\ billed'[n] > 0 => n <= served /\ hour[n] < now
                  /\ billFaults = 0 =>
                       /\ billed'[n] <= counted[n]
                       /\ billed'[n] > 0 => hour[n] \in reported \/ hour[n] \in report.hours
  <2>1. billed' \in [Requests -> Nat]
    BY <1>4, <1>9 DEF AddClaim
  <2>2. ASSUME NEW n \in Requests
        PROVE  /\ billed'[n] > 0 => n <= served /\ hour[n] < now
               /\ billFaults = 0 =>
                    /\ billed'[n] <= counted[n]
                    /\ billed'[n] > 0 => hour[n] \in reported \/ hour[n] \in report.hours
    <3>1. /\ billed'[n] = billed[n] + report.claim[n]
          /\ billed[n] \in Nat /\ report.claim[n] \in Nat /\ counted[n] \in Nat
      BY <1>4, <1>9 DEF AddClaim
    <3>2. report.claim[n] > 0 => n <= served /\ hour[n] \in report.hours /\ hour[n] < now
      BY DEF BillInv
    <3>3. billFaults = 0 /\ report.claim[n] > 0 => billed[n] = 0
      BY <1>9, <3>1, <3>2 DEF BillInv
    <3> QED
      BY <1>9, <3>1, <3>2, <3>3 DEF BillInv
  <2> QED
    BY <2>1, <2>2
<1>10. CASE ReportUsage
  <2>1. /\ report' = [report EXCEPT !.pc = "mark"] /\ AddClaim /\ report.pc = "team"
        /\ UNCHANGED <<reported, billFaults>>
    BY <1>10 DEF ReportUsage
  <2>2. /\ report'.pc = "mark" /\ report'.hours = report.hours /\ report'.claim = report.claim
    BY <1>4, <2>1
  <2>3. TypeOK'
    BY <1>1, <1>2, <1>9, <2>1 DEF TypeOK
  <2>4. BillInv'
    BY <1>2, <1>4, <1>9, <2>1, <2>2 DEF BillInv
  <2> QED
    BY <1>3, <2>3, <2>4
<1>11. CASE AnswerLost
  <2>1. /\ report' = NoReport /\ AddClaim /\ report.pc = "team" /\ UNCHANGED reported
        /\ billFaults' = billFaults + 1 /\ billFaults < MaxBillFaults
    BY <1>11 DEF AnswerLost
  <2>2. TypeOK'
    BY <1>1, <1>2, <1>4, <1>9, <2>1 DEF TypeOK, NoReport
  <2>3. billFaults' # 0
    BY <1>4, <2>1
  <2>4. BillInv'
    BY <1>2, <1>4, <1>9, <2>1, <2>3 DEF BillInv, NoReport
  <2> QED
    BY <1>3, <2>2, <2>4
<1> QED
  BY <1>5, <1>6, <1>7, <1>8, <1>10, <1>11

\* The ranges a step of the worker computes with.
LEMMA Ranges ==
  ASSUME TypeOK
  PROVE  /\ now \in Nat /\ served \in Nat /\ base \in Nat /\ base <= served /\ served <= MaxRequests
         /\ \A j \in Jobs : cursor[j] \in Nat /\ Start(j) \in Nat /\ Start(j) <= cursor[j]
         /\ worker.next \in Nat /\ worker.pending \subseteq 1 .. served
         /\ worker = [job |-> worker.job, pending |-> worker.pending, next |-> worker.next]
         /\ counted \in [Requests -> Nat] /\ logged \in [Requests -> Nat]
         /\ \A n \in 1 .. served : n \in Requests /\ hour[n] \in Nat
         /\ jobFaults \in Nat
<1>1. \A j \in Jobs : cursor[j] \in Nat
  BY DEF TypeOK
<1>2. \A j \in Jobs : Start(j) \in Nat /\ Start(j) <= cursor[j]
  BY <1>1 DEF Start, Reach
<1>3. served \in Nat /\ served <= MaxRequests
  BY DEF TypeOK
<1>4. \A n \in 1 .. served : n \in Requests /\ hour[n] \in Nat
  BY <1>3 DEF TypeOK, Requests, Hours
<1> QED
  BY <1>1, <1>2, <1>3, <1>4 DEF TypeOK, Hours

LEMMA BeginPassStep ==
  ASSUME MInv, NEW j \in Jobs, BeginPass(j)
  PROVE  TypeOK' /\ OnceInv' /\ CoverInv'
<1> USE DEF MInv
<1> DEFINE lines == base + Start(j) + 1 .. served
<1>1. /\ worker.job = "idle" /\ Size > Start(j)
      /\ worker' = [job |-> j, pending |-> lines, next |-> Size]
      /\ UNCHANGED <<now, served, hour, base, rotations, cursor, counted, logged, jobFaults,
                     reported, report, billed, billFaults, subscribed>>
  BY DEF BeginPass, caddy, billing
<1>2. /\ worker'.job = j /\ worker'.pending = lines /\ worker'.next = Size
  BY <1>1
<1> HIDE DEF lines
<1>3. j # "idle"
  BY DEF Jobs
<1>4. lines \subseteq 1 .. served /\ Size \in 0 .. MaxRequests /\ Size = served - base
  BY Ranges DEF Size, lines
<1>5. TypeOK'
  BY <1>1, <1>4 DEF TypeOK
<1>6. Reach(Size)' = Size /\ Reach(Size) = Size
  BY <1>1, Ranges DEF Reach, Size
<1>7. OnceInv'
  <2> SUFFICES ASSUME jobFaults = 0, NEW i \in Jobs, NEW n \in Requests
               PROVE  /\ Written(i)[n] <= 1
                      /\ worker'.job # i /\ Written(i)[n] > 0 => n <= base + Start(i)
                      /\ worker'.job = i =>
                           /\ n \in lines => Written(i)[n] = 0
                           /\ Written(i)[n] > 0 \/ n \in lines => n <= base + Reach(Size)
    BY <1>1, <1>2, <1>6 DEF OnceInv, Written, Start, Reach, Size
  <2>1. /\ Written(i)[n] <= 1 /\ Written(i)[n] \in Nat
        /\ Written(i)[n] > 0 => n <= base + Start(i)
    BY <1>1, Ranges DEF OnceInv, Jobs, Written
  <2>2. n \in Nat /\ base \in Nat /\ served \in Nat /\ Start(j) \in Nat
    BY Ranges DEF Requests
  <2>3. n \in lines => n > base + Start(j) /\ n <= served
    BY <2>2 DEF lines
  <2>4. base + Reach(Size) = served /\ base + Start(j) <= served
    BY <1>1, <1>4, <1>6, <2>2
  <2> QED
    BY <1>2, <2>1, <2>2, <2>3, <2>4
<1>8. CoverInv'
  <2> SUFFICES ASSUME base = 0, NEW i \in Jobs
               PROVE  /\ cursor[i] <= served
                      /\ \A n \in 1 .. cursor[i] : Due(i, n) => Written(i)[n] > 0
                      /\ i = j =>
                           /\ Size <= served
                           /\ \A n \in 1 .. Size : Due(i, n) => n \in lines \/ Written(i)[n] > 0
    BY <1>1, <1>2 DEF CoverInv, Written, Due
  <2>1. /\ cursor[i] <= served
        /\ \A n \in 1 .. cursor[i] : Due(i, n) => Written(i)[n] > 0
    BY DEF CoverInv
  <2>2. Size = served
    BY <1>4, Ranges
  <2>3. ASSUME NEW n \in 1 .. Size, n \notin lines
        PROVE  n \in 1 .. cursor[j]
    BY <2>2, <2>3, Ranges DEF lines
  <2> QED
    BY <2>1, <2>2, <2>3, Ranges
<1> QED
  BY <1>5, <1>7, <1>8

\* A write of some of the lines pending in a pass of job k.
LEMMA WriteStep ==
  ASSUME MInv, NEW S \in SUBSET worker.pending, NEW k \in Jobs, worker.job = k, Done(S),
         Written(k)' = Add(Written(k), S),
         \A j \in Jobs \ {k} : Written(j)' = Written(j),
         UNCHANGED <<caddy, cursor, jobFaults, billing, subscribed>>
  PROVE  TypeOK' /\ OnceInv' /\ CoverInv'
<1> USE DEF MInv
<1>1. UNCHANGED <<now, served, hour, base, rotations, cursor, jobFaults, reported, report,
                  billed, billFaults, subscribed>>
  BY DEF caddy, billing
<1>2. /\ worker' = [worker EXCEPT !.pending = worker.pending \ S]
      /\ worker'.job = k /\ worker'.pending = worker.pending \ S
      /\ worker'.next = worker.next
  BY Ranges DEF Done
<1>3. \A j \in Jobs : Written(j) \in [Requests -> Nat]
  BY Ranges DEF Written
<1>4. Add(Written(k), S) \in [Requests -> Nat]
  BY <1>3 DEF Add
<1>5. \A j \in Jobs : Written(j)' \in [Requests -> Nat]
  BY <1>3, <1>4
<1>6. counted' \in [Requests -> Nat] /\ logged' \in [Requests -> Nat]
  BY <1>5 DEF Written, Jobs
<1>7. TypeOK'
  BY <1>1, <1>2, <1>6 DEF TypeOK
<1>8. \A n \in Requests : /\ n \in S => Written(k)'[n] = Written(k)[n] + 1
                          /\ n \notin S => Written(k)'[n] = Written(k)[n]
  BY DEF Add
<1>9. OnceInv'
  <2> SUFFICES ASSUME jobFaults = 0, NEW j \in Jobs, NEW n \in Requests
               PROVE  /\ Written(j)'[n] <= 1
                      /\ k # j /\ Written(j)'[n] > 0 => n <= base + Start(j)
                      /\ k = j =>
                           /\ n \in worker.pending \ S => Written(j)'[n] = 0
                           /\ Written(j)'[n] > 0 \/ n \in worker.pending \ S =>
                                n <= base + Reach(worker.next)
    BY <1>1, <1>2 DEF OnceInv, Start, Reach, Size
  <2>1. /\ Written(j)[n] <= 1
        /\ k # j /\ Written(j)[n] > 0 => n <= base + Start(j)
        /\ k = j =>
             /\ n \in worker.pending => Written(j)[n] = 0
             /\ Written(j)[n] > 0 \/ n \in worker.pending => n <= base + Reach(worker.next)
    BY DEF OnceInv
  <2>2. CASE k # j
    <3>1. Written(j)' = Written(j)
      BY <2>2
    <3> QED
      BY <2>1, <2>2, <3>1
  <2>3. CASE k = j
    <3>1. CASE n \in S
      BY <1>8, <2>1, <2>3, <3>1
    <3>2. CASE n \notin S
      BY <1>8, <2>1, <2>3, <3>2
    <3> QED
      BY <3>1, <3>2
  <2> QED
    BY <2>2, <2>3
<1>10. CoverInv'
  <2>1. ASSUME NEW j \in Jobs, NEW n \in Requests
        PROVE  /\ Written(j)[n] > 0 => Written(j)'[n] > 0
               /\ j = k /\ n \in S => Written(j)'[n] > 0
    <3>1. Written(j)[n] \in Nat
      BY <1>3
    <3>2. Written(j)'[n] = Written(j)[n] \/ (j = k /\ Written(j)'[n] = Written(j)[n] + 1)
      BY <1>8
    <3>3. j = k /\ n \in S => Written(j)'[n] = Written(j)[n] + 1
      BY <1>8
    <3> QED
      BY <3>1, <3>2, <3>3
  <2> SUFFICES ASSUME base = 0, NEW j \in Jobs
               PROVE  /\ cursor[j] <= served
                      /\ \A n \in 1 .. cursor[j] : Due(j, n) => Written(j)'[n] > 0
                      /\ k = j =>
                           /\ worker.next <= served
                           /\ \A n \in 1 .. worker.next :
                                Due(j, n) => n \in worker.pending \ S \/ Written(j)'[n] > 0
    BY <1>1, <1>2 DEF CoverInv, Due
  <2>2. \A n : n <= served /\ n \in Nat \ {0} => n \in Requests
    BY Ranges DEF Requests
  <2> QED
    BY <2>1, <2>2, Ranges DEF CoverInv
<1> QED
  BY <1>7, <1>9, <1>10

LEMMA PutCursorStep ==
  ASSUME MInv, PutCursor
  PROVE  TypeOK' /\ OnceInv' /\ CoverInv'
<1> USE DEF MInv
<1>1. /\ worker.job \in Jobs /\ worker.pending = {} /\ worker' = Idle
      /\ cursor' = [cursor EXCEPT ![worker.job] = worker.next]
      /\ UNCHANGED <<now, served, hour, base, rotations, counted, logged, jobFaults,
                     reported, report, billed, billFaults, subscribed>>
  BY DEF PutCursor, TypeOK, caddy, billing
<1>2. \A j \in Jobs : cursor'[j] = IF j = worker.job THEN worker.next ELSE cursor[j]
  BY <1>1 DEF TypeOK
<1>3. TypeOK'
  BY <1>1 DEF TypeOK, Idle
<1>4. worker'.job = "idle" /\ "idle" \notin Jobs
  BY <1>1 DEF Idle, Jobs
<1>5. \A j \in Jobs : Start(j)' = IF j = worker.job THEN Reach(worker.next) ELSE Start(j)
  BY <1>1, <1>2 DEF Start, Reach, Size
<1>6. OnceInv'
  <2> SUFFICES ASSUME jobFaults = 0, NEW j \in Jobs, NEW n \in Requests
               PROVE  Written(j)[n] <= 1 /\ (Written(j)[n] > 0 => n <= base + Start(j)')
    BY <1>1, <1>4 DEF OnceInv, Written
  <2> QED
    BY <1>5 DEF OnceInv
<1>7. CoverInv'
  <2> SUFFICES ASSUME base = 0, NEW j \in Jobs
               PROVE  /\ cursor'[j] <= served
                      /\ \A n \in 1 .. cursor'[j] : Due(j, n) => Written(j)[n] > 0
    BY <1>1, <1>4 DEF CoverInv, Written, Due
  <2> QED
    BY <1>1, <1>2 DEF CoverInv
<1> QED
  BY <1>3, <1>6, <1>7

LEMMA PassFailsStep ==
  ASSUME MInv, PassFails
  PROVE  TypeOK' /\ OnceInv' /\ CoverInv'
<1> USE DEF MInv
<1>1. /\ worker' = Idle /\ jobFaults' = jobFaults + 1 /\ jobFaults < MaxJobFaults
      /\ UNCHANGED <<now, served, hour, base, rotations, cursor, counted, logged,
                     reported, report, billed, billFaults, subscribed>>
  BY DEF PassFails, caddy, billing
<1>2. jobFaults' # 0 /\ jobFaults' \in 0 .. MaxJobFaults
  BY <1>1, Ranges
<1>3. TypeOK'
  BY <1>1, <1>2 DEF TypeOK, Idle
<1>4. OnceInv'
  BY <1>2 DEF OnceInv
<1>5. worker'.job = "idle" /\ "idle" \notin Jobs
  BY <1>1 DEF Idle, Jobs
<1>6. CoverInv'
  BY <1>1, <1>5 DEF CoverInv, Written, Due
<1> QED
  BY <1>3, <1>4, <1>6

LEMMA CleanupStep ==
  ASSUME MInv, NEW last \in 1 .. served, CleanupLogs(last)
  PROVE  TypeOK' /\ OnceInv' /\ CoverInv'
<1> USE DEF MInv
<1>1. PICK old \in SUBSET (1 .. served) :
        /\ \A n \in old : hour[n] + Retention <= now
        /\ logged' = [n \in Requests |-> IF n \in old THEN 0 ELSE logged[n]]
  <2> DEFINE old == {n \in 1 .. last : logged[n] > 0}
  <2>1. /\ \A n \in 1 .. served : n <= last => hour[n] + Retention <= now
        /\ logged' = [n \in Requests |-> IF n \in old THEN 0 ELSE logged[n]]
    BY DEF CleanupLogs
  <2>2. old \in SUBSET (1 .. served)
    BY Ranges
  <2>3. \A n \in old : hour[n] + Retention <= now
    BY <2>1, <2>2
  <2> QED
    BY <2>1, <2>2, <2>3
<1>2. /\ worker.job = "idle" /\ "idle" \notin Jobs
      /\ UNCHANGED <<now, served, hour, base, rotations, cursor, worker, counted, jobFaults,
                     reported, report, billed, billFaults, subscribed>>
  BY DEF CleanupLogs, caddy, billing, Jobs
<1>3. logged' \in [Requests -> Nat]
  BY <1>1, Ranges
<1>4. TypeOK'
  BY <1>2, <1>3 DEF TypeOK
<1>5. \A j \in Jobs, n \in Requests :
        /\ Written(j)'[n] <= Written(j)[n]
        /\ Written(j)[n] \in Nat
        /\ n <= served /\ Due(j, n) => Written(j)'[n] = Written(j)[n]
  <2>1. \A n \in Requests : counted[n] \in Nat /\ logged[n] \in Nat
    BY Ranges
  <2>2. \A n \in Requests : n \in old => ~ Due("ingest", n)
    BY <1>1, Ranges DEF Due
  <2>3. \A n \in Requests : logged'[n] = IF n \in old THEN 0 ELSE logged[n]
    BY <1>1
  <2> QED
    BY <1>2, <2>1, <2>2, <2>3 DEF Written, Jobs
<1>6. OnceInv'
  <2> SUFFICES ASSUME jobFaults = 0, NEW j \in Jobs, NEW n \in Requests
               PROVE  Written(j)'[n] <= 1 /\ (Written(j)'[n] > 0 => n <= base + Start(j))
    BY <1>2 DEF OnceInv, Start, Reach, Size
  <2>1. Written(j)[n] <= 1 /\ (Written(j)[n] > 0 => n <= base + Start(j))
    BY <1>2 DEF OnceInv
  <2>2. Written(j)'[n] \in Nat
    BY <1>2, <1>3, Ranges DEF Written
  <2> QED
    BY <1>5, <2>1, <2>2
<1>7. CoverInv'
  <2> SUFFICES ASSUME base = 0, NEW j \in Jobs
               PROVE  /\ cursor[j] <= served
                      /\ \A n \in 1 .. cursor[j] : Due(j, n) => Written(j)'[n] > 0
    BY <1>2 DEF CoverInv, Due
  <2>1. /\ cursor[j] <= served
        /\ \A n \in 1 .. cursor[j] : Due(j, n) => Written(j)[n] > 0
    BY DEF CoverInv
  <2>2. \A n \in 1 .. cursor[j] : n \in Requests /\ n <= served
    BY <2>1, Ranges
  <2> QED
    BY <1>5, <2>1, <2>2
<1> QED
  BY <1>4, <1>6, <1>7
LEMMA AddGrows ==
  ASSUME NEW f \in [Requests -> Nat], NEW S
  PROVE  Add(f, S) \in [Requests -> Nat] /\ \A n \in Requests : f[n] <= Add(f, S)[n]
BY DEF Add

LEMMA WorkerKeepsMInv ==
  ASSUME MInv, WorkerStep \/ PassFails \/ (\E last \in 1 .. served : CleanupLogs(last)) \/ (\E j \in Jobs : BeginPass(j))
  PROVE  MInv'
<1> USE DEF MInv
<1>1. UNCHANGED <<caddy, billing, subscribed>>
  BY DEF WorkerStep, UpsertHour, InsertBatch, PutCursor, PassFails, CleanupLogs, BeginPass
<1>2. UNCHANGED <<now, served, hour, base, rotations>>
  BY <1>1 DEF caddy
<1>3. ASSUME counted' \in [Requests -> Nat], \A n \in Requests : counted[n] <= counted'[n]
      PROVE  BillInv'
  BY <1>1, <1>2, <1>3, Ranges, BillKept
<1>4. ASSUME UNCHANGED counted PROVE BillInv'
  <2>1. \A n \in Requests : counted[n] \in Nat
    BY Ranges
  <2> QED
    BY <1>3, <1>4, <2>1, Ranges
<1>5. ASSUME NEW h \in Hours, UpsertHour(h) PROVE MInv'
  <2> DEFINE S == {n \in worker.pending : hour[n] = h}
  <2>1. /\ worker.job = "aggregate" /\ counted' = Add(counted, S) /\ Done(S)
        /\ UNCHANGED <<caddy, cursor, logged, jobFaults, billing, subscribed>>
    BY <1>5 DEF UpsertHour
  <2>2. S \in SUBSET worker.pending
    OBVIOUS
  <2> HIDE DEF S
  <2>3. /\ "aggregate" \in Jobs
        /\ Written("aggregate")' = Add(Written("aggregate"), S)
        /\ \A j \in Jobs \ {"aggregate"} : Written(j)' = Written(j)
    BY <2>1 DEF Written, Jobs
  <2>4. TypeOK' /\ OnceInv' /\ CoverInv'
    BY <2>1, <2>2, <2>3, WriteStep
  <2>5. counted' \in [Requests -> Nat] /\ \A n \in Requests : counted[n] <= counted'[n]
    BY <2>1, AddGrows, Ranges
  <2> QED
    BY <1>3, <2>4, <2>5
<1>6. ASSUME NEW S \in SUBSET worker.pending, InsertBatch(S) PROVE MInv'
  <2>1. /\ worker.job = "ingest" /\ logged' = Add(logged, S) /\ Done(S)
        /\ UNCHANGED <<caddy, cursor, counted, jobFaults, billing, subscribed>>
    BY <1>6 DEF InsertBatch
  <2>2. /\ "ingest" \in Jobs /\ "ingest" # "aggregate"
        /\ Written("ingest")' = Add(Written("ingest"), S)
        /\ \A j \in Jobs \ {"ingest"} : Written(j)' = Written(j)
    BY <2>1 DEF Written, Jobs
  <2>3. TypeOK' /\ OnceInv' /\ CoverInv'
    BY <2>1, <2>2, WriteStep
  <2> QED
    BY <1>4, <2>1, <2>3
<1>7. CASE PutCursor
  BY <1>4, <1>7, PutCursorStep DEF PutCursor
<1>8. CASE PassFails
  BY <1>4, <1>8, PassFailsStep DEF PassFails
<1>9. ASSUME NEW last \in 1 .. served, CleanupLogs(last) PROVE MInv'
  BY <1>4, <1>9, CleanupStep DEF CleanupLogs
<1>10. ASSUME NEW j \in Jobs, BeginPass(j) PROVE MInv'
  BY <1>4, <1>10, BeginPassStep DEF BeginPass
<1> QED
  BY <1>5, <1>6, <1>7, <1>8, <1>9, <1>10 DEF WorkerStep

LEMMA StutterKeepsMInv == MInv /\ UNCHANGED vars => MInv'
BY DEF MInv, vars, caddy, jobs, billing, TypeOK, OnceInv, CoverInv, BillInv, Written, Start, Reach, Size, Due

\* The inductive invariant holds in every reachable state.
THEOREM MeteringInvariance == Spec => []MInv
<1>1. Init => MInv
  BY InitMInv
<1>2. MInv /\ [Next]_vars => MInv'
  BY CaddyStep, WorkerKeepsMInv, ReportStep, StutterKeepsMInv DEF Next
<1> QED
  BY <1>1, <1>2, PTL DEF Spec

\* Every variable keeps its type; a pass in hand lies within what was served.
THEOREM MeteringTypeCorrect == Spec => []TypeOK
<1>1. MInv => TypeOK
  BY DEF MInv
<1> QED
  BY <1>1, MeteringInvariance, PTL

\* Without a failed pass, no request is counted or shown twice: the cursor is
\* put after the writes, and a rotation never moves the start of a pass back.
THEOREM CountedAtMostOnce == Spec => []CountedOnce
<1>1. MInv => CountedOnce
  BY DEF MInv, OnceInv, CountedOnce, Written, Jobs
<1> QED
  BY <1>1, MeteringInvariance, PTL

\* Until the first rotation no line before a cursor is lost, whatever fails.
THEOREM NothingIsSkipped == Spec => []NothingSkipped
<1>1. MInv => NothingSkipped
  <2> SUFFICES ASSUME MInv, base = 0, NEW n \in 1 .. served
               PROVE  /\ n <= cursor["aggregate"] => counted[n] > 0
                      /\ n <= cursor["ingest"] /\ hour[n] + Retention > now => logged[n] > 0
    BY DEF NothingSkipped
  <2>1. TypeOK /\ "aggregate" \in Jobs /\ "ingest" \in Jobs /\ "ingest" # "aggregate"
    BY DEF MInv, Jobs
  <2>2. n \in Nat /\ n >= 1 /\ cursor["aggregate"] \in Nat /\ cursor["ingest"] \in Nat
    BY <2>1, Ranges
  <2>3. \A j \in Jobs : n <= cursor[j] /\ Due(j, n) => Written(j)[n] > 0
    BY <2>1, <2>2, Ranges DEF MInv, CoverInv
  <2> QED
    BY <2>1, <2>3 DEF Due, Written
<1> QED
  BY <1>1, MeteringInvariance, PTL

\* Without a report cut off between billing and marking, no request is billed
\* more often than it was counted.
THEOREM NothingIsBilledTwice == Spec => []BilledAsCounted
<1>1. MInv => BilledAsCounted
  BY DEF MInv, BillInv, BilledAsCounted
<1> QED
  BY <1>1, MeteringInvariance, PTL

\* No request is billed while its hour lasts.
THEOREM OnlyPastHoursAreBilled == Spec => []BilledAfterItsHour
<1>1. MInv => BilledAfterItsHour
  BY Ranges DEF MInv, BillInv, BilledAfterItsHour
<1> QED
  BY <1>1, MeteringInvariance, PTL
=============================================================================

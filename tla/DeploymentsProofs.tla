-------------------------- MODULE DeploymentsProofs --------------------------
(***************************************************************************)
(* Proofs about Deployments for any finite set of web processes, any       *)
(* number of builds, rows, seconds and faults, and any number of snapshots *)
(* kept: types and the bound on snapshots however deploys overlap; what    *)
(* snapshots and the table say of the VM when clients wait for each other. *)
(***************************************************************************)
EXTENDS Deployments, FiniteSetTheorems, WellFoundedInduction, TLAPS

(***************************************************************************)
(* What holds however deploys overlap.                                     *)
(***************************************************************************)
\* A process that has yet to redeploy the VM, and one that did.
Before == {"extract", "check", "clone", "empty", "fill", "send"}
After == {"build", "copy", "prune", "record", "delete", "restore"}
Ahead(p) == proc[p].pc \in Before
Sent(p) == proc[p].pc \in After

\* Which kind of deploy is at which step, with which row and directory, in a
\* table of n rows.
Fits(j, n) ==
  /\ j.pc = "idle" => j = Idle
  /\ j.pc \in {"extract", "check"} => j.kind = "code"
  /\ j.pc \in {"clone", "empty", "fill"} => j.kind = "git"
  /\ j.pc \in {"copy", "prune"} => j.kind # "rollback"
  /\ j.pc \in {"delete", "restore"} => j.kind = "rollback" /\ j.dir # Current
  /\ j.kind # "code" => j.row \in 1 .. n
  /\ j.kind # "rollback" /\ j.pc \in Before \cup {"build", "copy"} => j.dir = Current
  /\ j.pc \in {"empty", "fill"} => j.code # {}
JobsOK == \A p \in Procs : Fits(proc[p], Len(rows))

Appending == {p \in Procs : ~ At(p, "idle") /\ proc[p].kind # "git"}
Extracting == {p \in Procs : At(p, "extract")}
Pruning == {p \in Procs : At(p, "prune")}

\* The bounds leave room for what the processes at work still need.
RoomLeft ==
  /\ Len(rows) + Cardinality(Appending) <= MaxRows
  /\ newest + Cardinality(Extracting) <= MaxCode

IInv == TypeOK /\ JobsOK /\ RoomLeft /\ FewSnapshots

(***************************************************************************)
(* What holds when clients wait for each other.                            *)
(***************************************************************************)
AloneInv == serial => \A p, q \in Working : p = q

\* A snapshot that exists, or that a row or a job names, was written to.
NamedInv ==
  /\ \A s \in DOMAIN versions : writers[s] # 0
  /\ \A d \in 1 .. Len(rows) : rows[d].path # Current => writers[rows[d].path] # 0
  /\ \A p \in Procs : proc[p].dir # Current => writers[proc[p].dir] # 0

\* What is sent has content, unless a snapshot passes for the code.
FilledJob(p) ==
  /\ At(p, "send") => Exists(proc[p].dir) /\ (Content(proc[p].dir) # {} \/ SomeSnapshot)
  /\ Sent(p) => vm = proc[p].code
  /\ proc[p].pc \in {"build", "copy"} /\ proc[p].kind # "rollback" => build = proc[p].code
FilledInv == serial => \A p \in Procs : FilledJob(p)

\* What a deploy will record as its snapshot.
SnapJob(p) ==
  LET s == proc[p].dir IN
  /\ proc[p].pc \in {"prune", "record"} /\ proc[p].kind # "rollback" /\ s \in DOMAIN versions /\ writers[s] = 1 =>
       versions[s] = proc[p].code
  /\ proc[p].pc \in {"restore", "record"} /\ proc[p].kind = "rollback" => s \notin DOMAIN versions
SnapInv == serial /\ copyFaults = 0 => SnapshotAsDeployed /\ \A p \in Procs : SnapJob(p)

\* The row of a Git deployment is the last one while the job runs; the VM runs
\* what the table says until the next deploy reaches it.
LastJob(p) == proc[p].kind = "git" => proc[p].row = Len(rows)
LastRow == \A d \in Reached : (\A e \in Reached : e <= d) => vm = rows[d].code
LastInv ==
  serial =>
    /\ \A p \in Procs : LastJob(p)
    /\ faults = 0 /\ kills = 0 /\ (\A p \in Procs : ~ Sent(p)) => LastRow

SerialInv == AloneInv /\ NamedInv /\ FilledInv /\ SnapInv /\ LastInv

USE BoundsAssumption, KeepAssumption, WorkerAssumption, WebAssumption

(***************************************************************************)
(* Counting.                                                               *)
(***************************************************************************)
LEMMA ProcsFinite == \A S : S \subseteq Procs => IsFiniteSet(S) /\ Cardinality(S) \in Nat
<1>1. IsFiniteSet(Procs)
  BY FS_AddElement DEF Procs
<1> QED
  BY <1>1, FS_Subset, FS_CardinalityType

LEMMA CountMore ==
  ASSUME NEW S, NEW T, NEW x, IsFiniteSet(S), T \subseteq S \cup {x}
  PROVE  IsFiniteSet(T) /\ Cardinality(T) <= Cardinality(S) + 1
<1>1. Cardinality(S) \in Nat
  BY FS_CardinalityType
<1>2. /\ IsFiniteSet(S \cup {x})
       /\ Cardinality(S \cup {x}) = IF x \in S THEN Cardinality(S) ELSE Cardinality(S) + 1
  BY FS_AddElement, Zenon
<1>3. IsFiniteSet(S \cup {x}) /\ Cardinality(S \cup {x}) <= Cardinality(S) + 1
  BY <1>1, <1>2
<1>4. IsFiniteSet(T) /\ Cardinality(T) <= Cardinality(S \cup {x})
  BY <1>3, FS_Subset
<1> QED
  BY <1>3, <1>4, FS_CardinalityType

LEMMA CountLess ==
  ASSUME NEW S, NEW T, NEW x \in S, IsFiniteSet(S), T \subseteq S \ {x}
  PROVE  IsFiniteSet(T) /\ Cardinality(T) <= Cardinality(S) - 1
<1>1. IsFiniteSet(S \ {x}) /\ Cardinality(S \ {x}) = Cardinality(S) - 1
  BY FS_RemoveElement
<1>2. IsFiniteSet(T) /\ Cardinality(T) <= Cardinality(S \ {x})
  BY <1>1, FS_Subset
<1> QED
  BY <1>1, <1>2

LEMMA CountSame ==
  ASSUME NEW S, NEW T, IsFiniteSet(S), T \subseteq S
  PROVE  IsFiniteSet(T) /\ Cardinality(T) <= Cardinality(S)
BY FS_Subset

\* Fewer than n + 1 seconds have fewer than n seconds after them.
LEMMA NewestAreFew ==
  ASSUME NEW S \in SUBSET Nat, IsFiniteSet(S), NEW n \in Nat \ {0}
  PROVE  Cardinality({s \in S : Cardinality({t \in S : t > s}) < n}) <= n
<1> DEFINE N == {s \in S : Cardinality({t \in S : t > s}) < n}
<1>1. CASE N = {}
  <2>1. Cardinality(N) = 0
    BY <1>1, FS_EmptySet
  <2> QED
    BY <2>1
<1>2. CASE N # {}
  <2>1. N \subseteq Nat
    OBVIOUS
  <2>2. PICK m \in N : \A x \in N : m <= x
    <3> HIDE DEF N
    <3>1. PICK m \in N : \A x \in N : ~ (<<x, m>> \in OpToRel(<, Nat))
      BY <1>2, <2>1, NatLessThanWellFounded, WFMin
    <3>2. ASSUME NEW x \in N, ~ (m <= x) PROVE FALSE
      <4>1. x < m /\ x \in Nat /\ m \in Nat
        BY <2>1, <3>2
      <4>2. <<x, m>> \in OpToRel(<, Nat)
        BY <4>1 DEF OpToRel
      <4> QED
        BY <3>1, <4>2
    <3> QED
      BY <3>2
  <2> DEFINE Later == {t \in S : t > m}
  <2>3. N \subseteq Later \cup {m}
    BY <2>1, <2>2
  <2>4. IsFiniteSet(Later) /\ Cardinality(Later) < n
    BY FS_Subset
  <2>5. Cardinality(Later) \in Nat
    BY <2>4, FS_CardinalityType
  <2> HIDE DEF Later, N
  <2>6. IsFiniteSet(N) /\ Cardinality(N) <= Cardinality(Later) + 1
    BY <2>3, <2>4, CountMore
  <2>7. Cardinality(N) \in Nat
    BY <2>6, FS_CardinalityType
  <2>8. Cardinality(N) <= n
    BY <2>4, <2>5, <2>6, <2>7
  <2> QED
    BY <2>8 DEF N
<1> QED
  BY <1>1, <1>2

(***************************************************************************)
(* Steps: what they write is of its type.                                  *)
(***************************************************************************)
Steps == {"idle"} \cup Before \cup After

LEMMA JobTyped ==
  ASSUME TypeOK, NEW p \in Procs
  PROVE  /\ proc[p] \in Job /\ DOMAIN proc = Procs
         /\ proc[p].pc \in Steps /\ proc[p].kind \in {"code", "rollback", "git"}
         /\ proc[p].dir \in Paths /\ proc[p].row \in 0 .. MaxRows /\ proc[p].code \in SUBSET Code
BY DEF TypeOK, Job, Steps, Before, After

LEMMA ContentTyped ==
  ASSUME TypeOK, NEW dir \in Paths, Exists(dir)
  PROVE  Content(dir) \in SUBSET Code
BY DEF TypeOK, Exists, Content

LEMMA RowTyped ==
  ASSUME TypeOK, NEW d \in 1 .. Len(rows)
  PROVE  rows[d] \in Row /\ BuildDirOf(d) \in Paths
<1>1. rows[d] \in Row
  BY DEF TypeOK
<1> QED
  BY <1>1 DEF TypeOK, Row, BuildDirOf, Paths, Current

\* What a process does to its own job leaves the others'.
LEMMA OwnJob ==
  ASSUME TypeOK, NEW p \in Procs, NEW j, proc' = [proc EXCEPT ![p] = j]
  PROVE  proc'[p] = j /\ \A r \in Procs : r # p => proc'[r] = proc[r]
BY DEF TypeOK

LEMMA JobsStay ==
  ASSUME TypeOK, NEW p \in Procs, NEW j \in Job, proc' = [proc EXCEPT ![p] = j]
  PROVE  proc' \in [Procs -> Job]
BY DEF TypeOK

LEMMA IdleTyped == Idle \in Job
BY DEF Idle, Job, Paths, Current, Code

\* The table after a deploy recorded its outcome, or gave up.
LEMMA Recorded ==
  ASSUME TypeOK, JobsOK, NEW p \in Procs, NEW status \in {"failed", "succeeded"}, NEW path \in Paths,
         Record(p, status, path)
  PROVE  /\ rows' \in Seq(Row)
         /\ Len(rows') = IF proc[p].kind = "git" THEN Len(rows) ELSE Len(rows) + 1
<1>1. proc[p].kind \in {"code", "rollback", "git"} /\ proc[p].row \in 0 .. MaxRows
      /\ proc[p].code \in SUBSET Code
  BY JobTyped
<1>2. CASE proc[p].kind = "git"
  <2> DEFINE d == proc[p].row
             row == [rows[d] EXCEPT !.status = status, !.path = path, !.code = proc[p].code,
                              !.reached = TRUE]
  <2>1. d \in 1 .. Len(rows) /\ rows \in Seq(Row)
    BY <1>2 DEF JobsOK, Fits, TypeOK
  <2>2. rows[d] \in Row
    BY <2>1, RowTyped
  <2>3. row \in Row
    <3> HIDE DEF d
    <3>1. rows[d] \in [status : {"building", "succeeded", "failed"}, kind : {"code", "rollback", "git"},
                       path : Paths, code : SUBSET Code, reached : BOOLEAN, of : 0 .. MaxRows]
      BY <2>2 DEF Row
    <3> QED
      BY <1>1, <3>1 DEF Row
  <2>4. rows' = [rows EXCEPT ![d] = row]
    BY <1>2 DEF Record
  <2> HIDE DEF row, d
  <2> QED
    BY <1>2, <2>1, <2>3, <2>4
<1>3. CASE proc[p].kind # "git"
  <2> DEFINE row == [status |-> status, kind |-> proc[p].kind, path |-> path,
                     code |-> proc[p].code, reached |-> TRUE, of |-> proc[p].row]
  <2>1. row \in Row
    BY <1>1, <1>3 DEF Row
  <2>2. rows' = Append(rows, row) /\ rows \in Seq(Row)
    BY <1>3 DEF Record, TypeOK
  <2> HIDE DEF row
  <2> QED
    BY <1>3, <2>1, <2>2
<1> QED
  BY <1>2, <1>3

LEMMA GivenUp ==
  ASSUME TypeOK, JobsOK, NEW p \in Procs, GivesUp(p)
  PROVE  /\ rows' \in Seq(Row) /\ Len(rows') = Len(rows)
         /\ \A d \in 1 .. Len(rows) : /\ rows'[d].code = rows[d].code /\ rows'[d].path = rows[d].path
                                      /\ rows'[d].reached = rows[d].reached
                                      /\ rows'[d].status \in {rows[d].status, "failed"}
<1> rows \in Seq(Row)
  BY DEF TypeOK
<1>1. CASE proc[p].kind = "git"
  <2> DEFINE d == proc[p].row
             row == [rows[d] EXCEPT !.status = "failed"]
  <2>1. d \in 1 .. Len(rows)
    BY <1>1 DEF JobsOK, Fits
  <2>2. rows[d] \in Row
    BY <2>1, RowTyped
  <2>3. row \in Row /\ row.code = rows[d].code /\ row.path = rows[d].path /\ row.status = "failed"
        /\ row.reached = rows[d].reached
    BY <2>2 DEF Row
  <2>4. rows' = [rows EXCEPT ![d] = row]
    BY <1>1 DEF GivesUp
  <2> HIDE DEF row, d
  <2> QED
    BY <2>1, <2>3, <2>4
<1>2. CASE proc[p].kind # "git"
  BY <1>2 DEF GivesUp
<1> QED
  BY <1>1, <1>2

(***************************************************************************)
(* Jobs and rows, however deploys overlap.                                 *)
(***************************************************************************)
\* The steps of one process, beginnings and ends included.
Acts(p) ==
  \/ BeginUpload(p) \/ BeginDeploy(p) \/ BeginGit(p)
  \/ \E d \in 1 .. Len(rows) : BeginRollback(p, d)
  \/ ExtractFails(p) \/ Step(p) \/ Killed(p)

LEMMA FitsLater ==
  ASSUME NEW j \in Job, NEW n \in Nat, NEW m \in Nat, Fits(j, n), n <= m
  PROVE  Fits(j, m)
BY DEF Fits

LEMMA IdleFits ==
  ASSUME NEW n \in Nat
  PROVE  Fits(Idle, n)
BY DEF Fits, Idle, Before, After

\* The job of a process that goes on, its kind and row kept.
LEMMA Onward ==
  ASSUME NEW j \in Job, NEW pc \in Steps, NEW dir \in Paths, NEW code \in SUBSET Code
  PROVE  LET k == [j EXCEPT !.pc = pc, !.dir = dir, !.code = code] IN
         /\ k \in Job /\ k.pc = pc /\ k.dir = dir /\ k.code = code
         /\ k.kind = j.kind /\ k.row = j.row
BY DEF Job, Steps, Before, After

LEMMA JobsFollow ==
  ASSUME TypeOK, JobsOK, NEW p \in Procs,
         proc' = [proc EXCEPT ![p] = proc'[p]], proc'[p] \in Job, Fits(proc'[p], Len(rows')),
         Len(rows') \in Nat, Len(rows') >= Len(rows)
  PROVE  proc' \in [Procs -> Job] /\ JobsOK'
<1> Len(rows) \in Nat
  BY DEF TypeOK
<1> DEFINE n == Len(rows')
           j == proc'[p]
<1>1. n \in Nat /\ Len(rows) <= n /\ Fits(j, n) /\ j \in Job /\ proc' = [proc EXCEPT ![p] = j]
  OBVIOUS
<1> HIDE DEF n, j
<1>2. \A r \in Procs : r # p => proc'[r] = proc[r]
  BY <1>1, OwnJob
<1>3. ASSUME NEW r \in Procs PROVE Fits(proc'[r], n)
  <2>1. CASE r = p
    BY <1>1, <2>1 DEF j
  <2>2. CASE r # p
    <3>1. Fits(proc[r], Len(rows)) /\ proc[r] \in Job
      BY JobTyped DEF JobsOK
    <3>2. Fits(proc[r], n)
      BY <1>1, <3>1, FitsLater
    <3> QED
      BY <1>2, <2>2, <3>2
  <2> QED
    BY <2>1, <2>2
<1>4. JobsOK'
  BY <1>3 DEF JobsOK, n
<1> QED
  BY <1>1, <1>4, JobsStay

\* A process that ends.
LEMMA IdleFollows ==
  ASSUME TypeOK, JobsOK, NEW p \in Procs, Ends(p), Len(rows') \in Nat, Len(rows') >= Len(rows)
  PROVE  proc' \in [Procs -> Job] /\ JobsOK'
<1>1. proc' = [proc EXCEPT ![p] = Idle] /\ proc'[p] = Idle
  BY OwnJob DEF Ends
<1>2. Idle \in Job /\ Fits(Idle, Len(rows'))
  BY IdleTyped, IdleFits
<1>3. /\ proc' = [proc EXCEPT ![p] = proc'[p]]
      /\ proc'[p] \in Job /\ Fits(proc'[p], Len(rows'))
  BY <1>1, <1>2
<1> QED
  BY <1>3, JobsFollow

\* A process that goes on, with another step, code or directory.
LEMMA Went ==
  ASSUME TypeOK, NEW p \in Procs, NEW pc \in Steps, Go(p, pc)
  PROVE  /\ proc' = [proc EXCEPT ![p] = proc'[p]] /\ proc'[p] \in Job
         /\ proc'[p].pc = pc /\ proc'[p].kind = proc[p].kind /\ proc'[p].row = proc[p].row
         /\ proc'[p].dir = proc[p].dir /\ proc'[p].code = proc[p].code
BY JobTyped DEF Go, Job, Steps, Before, After

LEMMA WentWithCode ==
  ASSUME TypeOK, NEW p \in Procs, NEW pc \in Steps, NEW code \in SUBSET Code,
         proc' = [proc EXCEPT ![p].pc = pc, ![p].code = code]
  PROVE  /\ proc' = [proc EXCEPT ![p] = proc'[p]] /\ proc'[p] \in Job
         /\ proc'[p].pc = pc /\ proc'[p].kind = proc[p].kind /\ proc'[p].row = proc[p].row
         /\ proc'[p].dir = proc[p].dir /\ proc'[p].code = code
BY JobTyped DEF Job, Steps, Before, After

LEMMA WentWithDir ==
  ASSUME TypeOK, NEW p \in Procs, NEW pc \in Steps, NEW dir \in Paths,
         proc' = [proc EXCEPT ![p].pc = pc, ![p].dir = dir]
  PROVE  /\ proc' = [proc EXCEPT ![p] = proc'[p]] /\ proc'[p] \in Job
         /\ proc'[p].pc = pc /\ proc'[p].kind = proc[p].kind /\ proc'[p].row = proc[p].row
         /\ proc'[p].dir = dir /\ proc'[p].code = proc[p].code
BY JobTyped DEF Job, Steps, Before, After

\* What a step leaves of the jobs and of the table; only Tick moves the clock.
Followed == /\ proc' \in [Procs -> Job] /\ JobsOK'
            /\ rows' \in Seq(Row) /\ Len(rows') \in {Len(rows), Len(rows) + 1}
            /\ now' = now

LEMMA GoesOn ==
  ASSUME TypeOK, JobsOK, NEW p \in Procs,
         proc' = [proc EXCEPT ![p] = proc'[p]], proc'[p] \in Job,
         rows' = rows, now' = now, Fits(proc'[p], Len(rows))
  PROVE  Followed
<1>1. Len(rows) \in Nat /\ rows \in Seq(Row)
  BY DEF TypeOK
<1>2. Len(rows') \in Nat /\ Len(rows') >= Len(rows) /\ Fits(proc'[p], Len(rows'))
  BY <1>1
<1>3. proc' \in [Procs -> Job] /\ JobsOK'
  BY <1>2, JobsFollow
<1> QED
  BY <1>1, <1>3 DEF Followed

LEMMA Ended ==
  ASSUME TypeOK, JobsOK, NEW p \in Procs, Ends(p), now' = now,
         rows' \in Seq(Row), Len(rows') \in {Len(rows), Len(rows) + 1}
  PROVE  Followed
<1>1. Len(rows) \in Nat
  BY DEF TypeOK
<1>2. Len(rows') \in Nat /\ Len(rows') >= Len(rows)
  BY <1>1
<1> QED
  BY <1>2, IdleFollows DEF Followed

LEMMA JobsStep ==
  ASSUME TypeOK, JobsOK, NEW p \in Procs, Acts(p)
  PROVE  Followed
<1> now \in Nat /\ Len(rows) \in Nat /\ rows \in Seq(Row)
  BY DEF TypeOK, Paths
<1>1. /\ proc[p] \in Job /\ DOMAIN proc = Procs
      /\ proc[p].pc \in Steps /\ proc[p].kind \in {"code", "rollback", "git"}
      /\ proc[p].dir \in Paths /\ proc[p].row \in 0 .. MaxRows /\ proc[p].code \in SUBSET Code
  BY JobTyped
<1>2. Fits(proc[p], Len(rows))
  BY DEF JobsOK
<1>3. Before \cup After \subseteq Steps
  BY DEF Steps
<1>4. CASE BeginUpload(p) \/ BeginDeploy(p)
  <2>1. PICK pc \in {"extract", "check"} : proc' = [proc EXCEPT ![p] = [Idle EXCEPT !.pc = pc]]
    BY <1>4 DEF BeginUpload, BeginDeploy
  <2>2. proc'[p] = [Idle EXCEPT !.pc = pc]
    BY <2>1, OwnJob
  <2>3. proc'[p] \in Job
    BY <2>2, IdleTyped DEF Idle, Job
  <2>4. Fits(proc'[p], Len(rows))
    BY <2>2 DEF Fits, Idle, Before, After
  <2>5. rows' = rows /\ now' = now
    BY <1>4 DEF BeginUpload, BeginDeploy
  <2> QED
    BY <2>1, <2>2, <2>3, <2>4, <2>5, GoesOn
<1>5. CASE BeginGit(p)
  <2> DEFINE j == [Idle EXCEPT !.pc = "clone", !.kind = "git", !.row = Len(rows) + 1]
             row == [status |-> "building", kind |-> "git", path |-> Current, code |-> {},
                     reached |-> FALSE, of |-> 0]
  <2>1. Len(rows) + 1 \in 0 .. MaxRows
    <3>1. Cardinality({r \in Working : proc[r].kind # "git"}) \in Nat
      BY ProcsFinite DEF Working
    <3>2. Len(rows) + Cardinality({r \in Working : proc[r].kind # "git"}) < MaxRows
      BY <1>5 DEF BeginGit, MayBegin, RoomForRow
    <3> QED
      BY <3>1, <3>2
  <2>2. row \in Row
    <3>1. Current \in Paths /\ 0 \in 0 .. MaxRows
      BY DEF Paths, Current
    <3> QED
      BY <3>1 DEF Row
  <2>3. j \in Job
    BY <2>1, IdleTyped DEF Idle, Job
  <2>4. rows' = Append(rows, row) /\ now' = now
    BY <1>5 DEF BeginGit
  <2>5. proc' = [proc EXCEPT ![p] = j]
    BY <1>5 DEF BeginGit
  <2>6. Fits(j, Len(rows) + 1)
    BY DEF Fits, Idle, Before, After
  <2> HIDE DEF row, j
  <2>7. rows' \in Seq(Row) /\ Len(rows') = Len(rows) + 1
    BY <2>2, <2>4
  <2>8. proc'[p] = j
    BY <2>5, OwnJob
  <2>9. /\ proc' = [proc EXCEPT ![p] = proc'[p]] /\ proc'[p] \in Job
        /\ Fits(proc'[p], Len(rows'))
    BY <2>3, <2>4, <2>5, <2>6, <2>7, <2>8
  <2>10. Len(rows') \in Nat /\ Len(rows') >= Len(rows)
    BY <2>4, <2>7
  <2>11. proc' \in [Procs -> Job] /\ JobsOK'
    BY <2>9, <2>10, JobsFollow
  <2> QED
    BY <2>4, <2>7, <2>11 DEF Followed
<1>6. CASE \E d \in 1 .. Len(rows) : BeginRollback(p, d)
  <2>1. PICK d \in 1 .. Len(rows) : BeginRollback(p, d)
    BY <1>6
  <2> DEFINE dir == BuildDirOf(d)
             j == [pc |-> "send", kind |-> "rollback", dir |-> dir, row |-> d, code |-> {}]
  <2>2. dir \in Paths /\ d \in 0 .. MaxRows
    BY RowTyped DEF TypeOK
  <2>3. proc' = [proc EXCEPT ![p] = j] /\ rows' = rows /\ now' = now
    BY <2>1 DEF BeginRollback
  <2> HIDE DEF dir
  <2>4. j \in Job
    BY <2>2 DEF Job
  <2>5. Fits(j, Len(rows))
    BY DEF Fits, Before, After
  <2> HIDE DEF j
  <2>6. proc'[p] = j
    BY <2>3, OwnJob
  <2> QED
    BY <2>3, <2>4, <2>5, <2>6, GoesOn
<1>7. CASE ExtractFails(p) \/ Killed(p)
  BY <1>7, Ended DEF ExtractFails, Killed
<1>8. CASE Throws(p)
  BY <1>8, GivenUp, Ended DEF Throws, GivesUp
<1>9. CASE BuildFails(p) \/ Succeeds(p)
  <2>1. PICK status \in {"failed", "succeeded"} : Record(p, status, proc[p].dir)
    BY <1>9 DEF BuildFails, Succeeds
  <2>2. rows' \in Seq(Row) /\ Len(rows') \in {Len(rows), Len(rows) + 1}
    BY <1>1, <2>1, Recorded
  <2> QED
    BY <1>9, <2>2, Ended DEF BuildFails, Succeeds
<1>10. CASE Check(p)
  <2>1. rows' = rows /\ now' = now
    BY <1>10 DEF Check
  <2>2. CASE Ends(p)
    BY <2>1, <2>2, Ended
  <2>3. CASE Go(p, "send")
    <3>1. Fits(proc'[p], Len(rows))
      BY <1>10, <2>3, <1>2, <1>3, Went DEF Check, At, Fits, Before, After
    <3> QED
      BY <2>1, <2>3, <3>1, <1>3, Went, GoesOn DEF Before
  <2> QED
    BY <1>10, <2>2, <2>3 DEF Check
<1>11. CASE Extract(p) \/ GitFill(p) \/ GitEmpty(p)
  <2>1. rows' = rows /\ now' = now
    BY <1>11 DEF Extract, GitFill, GitEmpty
  <2>2. PICK pc \in {"check", "send", "fill"} : Go(p, pc)
    BY <1>11 DEF Extract, GitFill, GitEmpty
  <2>3. Fits(proc'[p], Len(rows))
    <3>1. CASE Extract(p)
      BY <3>1, <1>2, <1>3, Went DEF Extract, At, Fits, Before, After
    <3>2. CASE GitFill(p)
      BY <3>2, <1>2, <1>3, Went DEF GitFill, At, Fits, Before, After
    <3>3. CASE GitEmpty(p)
      BY <3>3, <1>2, <1>3, Went DEF GitEmpty, At, Fits, Before, After
    <3> QED
      BY <1>11, <3>1, <3>2, <3>3
  <2> QED
    BY <2>1, <2>2, <2>3, <1>3, Went, GoesOn DEF Before
<1>12. CASE Clone(p)
  <2> DEFINE code == {head}
  <2>1. code \in SUBSET Code /\ code # {}
    BY DEF TypeOK
  <2>2. /\ proc' = [proc EXCEPT ![p].pc = "empty", ![p].code = code]
        /\ rows' = rows /\ now' = now /\ proc[p].pc = "clone"
    BY <1>12 DEF Clone, At
  <2> HIDE DEF code
  <2>3. /\ proc' = [proc EXCEPT ![p] = proc'[p]] /\ proc'[p] \in Job
        /\ proc'[p].pc = "empty" /\ proc'[p].kind = proc[p].kind /\ proc'[p].row = proc[p].row
        /\ proc'[p].dir = proc[p].dir
    BY <2>1, <2>2, <1>3, WentWithCode DEF Before
  <2>4. proc'[p].code = code
    BY <2>2, <1>1 DEF Job
  <2>5. Fits(proc'[p], Len(rows))
    BY <2>1, <2>2, <2>3, <2>4, <1>2 DEF Fits, Before, After
  <2> QED
    BY <2>2, <2>3, <2>5, GoesOn
<1>13. CASE Send(p)
  <2> DEFINE code == Content(proc[p].dir)
  <2>1. code \in SUBSET Code
    BY <1>13, <1>1, ContentTyped DEF Send
  <2>2. /\ proc' = [proc EXCEPT ![p].pc = "build", ![p].code = code]
        /\ rows' = rows /\ now' = now /\ proc[p].pc = "send"
    BY <1>13 DEF Send, At
  <2> HIDE DEF code
  <2>3. /\ proc' = [proc EXCEPT ![p] = proc'[p]] /\ proc'[p] \in Job
        /\ proc'[p].pc = "build" /\ proc'[p].kind = proc[p].kind /\ proc'[p].row = proc[p].row
        /\ proc'[p].dir = proc[p].dir
    BY <2>1, <2>2, <1>3, WentWithCode DEF After
  <2>4. Fits(proc'[p], Len(rows))
    BY <2>2, <2>3, <1>2 DEF Fits, Before, After
  <2> QED
    BY <2>2, <2>3, <2>4, GoesOn
<1>14. CASE Builds(p)
  <2>1. rows' = rows /\ now' = now /\ proc[p].pc = "build"
    BY <1>14 DEF Builds, At
  <2>2. PICK pc \in {"copy", "record", "delete"} :
          /\ Go(p, pc)
          /\ pc = "copy" <=> proc[p].kind # "rollback"
          /\ pc = "delete" => proc[p].dir # Current
    BY <1>14 DEF Builds
  <2>3. Fits(proc'[p], Len(rows))
    BY <2>1, <2>2, <1>1, <1>2, <1>3, Went DEF Fits, Before, After
  <2> QED
    BY <2>1, <2>2, <2>3, <1>3, Went, GoesOn DEF After
<1>15. CASE Copy(p) \/ CopyFails(p)
  <2>1. /\ proc' = [proc EXCEPT ![p].pc = "prune", ![p].dir = now]
        /\ rows' = rows /\ now' = now /\ proc[p].pc = "copy" /\ now \in Paths
    BY <1>15 DEF Copy, CopyFails, At, TypeOK
  <2>2. /\ proc' = [proc EXCEPT ![p] = proc'[p]] /\ proc'[p] \in Job
        /\ proc'[p].pc = "prune" /\ proc'[p].kind = proc[p].kind /\ proc'[p].row = proc[p].row
    BY <2>1, <1>3, WentWithDir DEF After
  <2>3. Fits(proc'[p], Len(rows))
    BY <2>1, <2>2, <1>2 DEF Fits, Before, After
  <2> QED
    BY <2>1, <2>2, <2>3, GoesOn
<1>16. CASE Prune(p) \/ RestoreDelete(p) \/ RestoreCopy(p)
  <2>1. rows' = rows /\ now' = now
    BY <1>16 DEF Prune, RestoreDelete, RestoreCopy
  <2>2. PICK pc \in {"record", "restore"} : Go(p, pc)
    BY <1>16 DEF Prune, RestoreDelete, RestoreCopy
  <2>3. Fits(proc'[p], Len(rows))
    <3>1. CASE Prune(p)
      BY <3>1, <1>2, <1>3, Went DEF Prune, At, Fits, Before, After
    <3>2. CASE RestoreDelete(p)
      BY <3>2, <1>2, <1>3, Went DEF RestoreDelete, At, Fits, Before, After
    <3>3. CASE RestoreCopy(p)
      BY <3>3, <1>2, <1>3, Went DEF RestoreCopy, At, Fits, Before, After
    <3> QED
      BY <1>16, <3>1, <3>2, <3>3
  <2> QED
    BY <2>1, <2>2, <2>3, <1>3, Went, GoesOn DEF After
<1> QED
  BY <1>4, <1>5, <1>6, <1>7, <1>8, <1>9, <1>10, <1>11, <1>12, <1>13, <1>14, <1>15, <1>16 DEF Acts, Step

(***************************************************************************)
(* Room for what the processes at work still need.                         *)
(***************************************************************************)
\* How a process' step changes what is counted.
Starts(a, b) ==
  /\ a.pc = "idle" /\ b.pc \in Before
  /\ RoomForRow /\ (b.pc = "extract" => RoomForCode)
  /\ Len(rows') = (IF b.kind = "git" THEN Len(rows) + 1 ELSE Len(rows))
  /\ now' = now /\ newest' = newest
Stops(a, b) ==
  /\ a.pc # "idle" /\ b.pc = "idle"
  /\ Len(rows') = Len(rows) \/ (a.kind # "git" /\ Len(rows') = Len(rows) + 1)
  /\ now' = now /\ newest' = newest
Goes(a, b) ==
  /\ a.pc # "idle" /\ b.pc \notin {"idle", "extract"}
  /\ b.kind = a.kind /\ rows' = rows /\ now' = now
  /\ newest' = newest \/ (a.pc = "extract" /\ newest' = newest + 1)
Moves(p) ==
  /\ proc' = [proc EXCEPT ![p] = proc'[p]]
  /\ Starts(proc[p], proc'[p]) \/ Stops(proc[p], proc'[p]) \/ Goes(proc[p], proc'[p])

LEMMA StopMoves ==
  ASSUME TypeOK, NEW p \in Procs, Ends(p), proc[p].pc # "idle", now' = now, newest' = newest,
         Len(rows') = Len(rows) \/ (proc[p].kind # "git" /\ Len(rows') = Len(rows) + 1)
  PROVE  Moves(p)
<1>1. proc' = [proc EXCEPT ![p] = Idle] /\ proc'[p] = Idle
  BY OwnJob DEF Ends
<1>2. Stops(proc[p], proc'[p])
  BY <1>1 DEF Stops, Idle
<1>3. proc' = [proc EXCEPT ![p] = proc'[p]]
  BY <1>1
<1> QED
  BY <1>2, <1>3 DEF Moves

LEMMA GoMoves ==
  ASSUME NEW p \in Procs, proc' = [proc EXCEPT ![p] = proc'[p]],
         proc[p].pc # "idle", proc'[p].pc \in (Before \cup After) \ {"extract"},
         proc'[p].kind = proc[p].kind, rows' = rows, now' = now,
         newest' = newest \/ (proc[p].pc = "extract" /\ newest' = newest + 1)
  PROVE  Moves(p)
<1>1. "idle" \notin Before \cup After
  BY DEF Before, After
<1> DEFINE a == proc[p]
           b == proc'[p]
<1>2. Goes(a, b)
  BY <1>1 DEF Goes
<1> QED
  BY <1>2 DEF Moves

LEMMA MovesStep ==
  ASSUME TypeOK, JobsOK, NEW p \in Procs, Acts(p)
  PROVE  Moves(p)
<1> rows \in Seq(Row) /\ now \in Nat
  BY DEF TypeOK, Paths
<1>1. /\ proc[p] \in Job /\ DOMAIN proc = Procs
      /\ proc[p].pc \in Steps /\ proc[p].kind \in {"code", "rollback", "git"}
      /\ proc[p].dir \in Paths /\ proc[p].row \in 0 .. MaxRows /\ proc[p].code \in SUBSET Code
  BY JobTyped
<1>2. Before \cup After \subseteq Steps
  BY DEF Steps
<1>3. CASE BeginUpload(p) \/ BeginDeploy(p)
  <2>1. PICK pc \in {"extract", "check"} : proc' = [proc EXCEPT ![p] = [Idle EXCEPT !.pc = pc]]
    BY <1>3 DEF BeginUpload, BeginDeploy
  <2>2. proc'[p] = [Idle EXCEPT !.pc = pc] /\ proc' = [proc EXCEPT ![p] = proc'[p]]
    BY <2>1, OwnJob
  <2>3. proc'[p].pc = pc /\ proc'[p].kind = "code"
    BY <2>2 DEF Idle
  <2>4. pc = "extract" => RoomForCode
    <3>1. CASE BeginUpload(p)
      BY <3>1 DEF BeginUpload
    <3>2. CASE BeginDeploy(p)
      <4> DEFINE j == [Idle EXCEPT !.pc = "check"]
      <4>1. proc' = [proc EXCEPT ![p] = j] /\ j.pc = "check"
        BY <3>2 DEF BeginDeploy, Idle
      <4> HIDE DEF j
      <4>2. proc'[p].pc = "check"
        BY <4>1, OwnJob
      <4> QED
        BY <4>2, <2>3
    <3> QED
      BY <1>3, <3>1, <3>2
  <2>5. Starts(proc[p], proc'[p])
    BY <1>3, <2>3, <2>4 DEF Starts, BeginUpload, BeginDeploy, MayBegin, At, Before
  <2> QED
    BY <2>2, <2>5 DEF Moves
<1>4. CASE BeginGit(p)
  <2> DEFINE row == [status |-> "building", kind |-> "git", path |-> Current, code |-> {},
                     reached |-> FALSE, of |-> 0]
             j == [Idle EXCEPT !.pc = "clone", !.kind = "git", !.row = Len(rows) + 1]
  <2>1. j.pc = "clone" /\ j.kind = "git"
    BY DEF Idle
  <2>2. proc' = [proc EXCEPT ![p] = j] /\ rows' = Append(rows, row) /\ now' = now /\ newest' = newest
    BY <1>4 DEF BeginGit
  <2> HIDE DEF row, j
  <2>3. proc'[p] = j
    BY <2>2, OwnJob
  <2>4. Len(rows') = Len(rows) + 1
    BY <2>2
  <2>5. proc'[p] = j /\ Len(rows') = Len(rows) + 1
    BY <2>3, <2>4
  <2>6. proc' = [proc EXCEPT ![p] = proc'[p]]
    BY <2>2, <2>5
  <2>7. RoomForRow /\ proc[p].pc = "idle"
    BY <1>4 DEF BeginGit, MayBegin, At
  <2>8. Starts(proc[p], proc'[p])
    BY <2>1, <2>2, <2>5, <2>7 DEF Starts, Before
  <2> QED
    BY <2>6, <2>8 DEF Moves
<1>5. CASE \E d \in 1 .. Len(rows) : BeginRollback(p, d)
  <2>1. PICK d \in 1 .. Len(rows) : BeginRollback(p, d)
    BY <1>5
  <2> DEFINE j == [pc |-> "send", kind |-> "rollback", dir |-> BuildDirOf(d), row |-> d, code |-> {}]
  <2>2. j.pc = "send" /\ j.kind = "rollback"
    OBVIOUS
  <2>3. proc' = [proc EXCEPT ![p] = j] /\ rows' = rows /\ now' = now /\ newest' = newest
    BY <2>1 DEF BeginRollback
  <2> HIDE DEF j
  <2>4. proc'[p] = j /\ proc' = [proc EXCEPT ![p] = proc'[p]]
    BY <2>3, OwnJob
  <2>5. RoomForRow /\ proc[p].pc = "idle"
    BY <2>1 DEF BeginRollback, MayBegin, At
  <2>6. Starts(proc[p], proc'[p])
    BY <2>2, <2>3, <2>4, <2>5 DEF Starts, Before
  <2> QED
    BY <2>4, <2>6 DEF Moves
<1>6. CASE ExtractFails(p) \/ Killed(p)
  <2>1. Ends(p) /\ proc[p].pc # "idle" /\ now' = now /\ newest' = newest /\ rows' = rows
    BY <1>6 DEF ExtractFails, Killed, At
  <2> QED
    BY <2>1, StopMoves
<1>7. CASE Throws(p)
  <2>1. Len(rows') = Len(rows)
    BY <1>7, GivenUp DEF Throws
  <2>2. Ends(p) /\ proc[p].pc # "idle" /\ now' = now /\ newest' = newest
    BY <1>7 DEF Throws, GivesUp, At
  <2> QED
    BY <2>1, <2>2, StopMoves
<1>8. CASE BuildFails(p) \/ Succeeds(p)
  <2>1. PICK status \in {"failed", "succeeded"} : Record(p, status, proc[p].dir)
    BY <1>8 DEF BuildFails, Succeeds
  <2>2. Len(rows') = IF proc[p].kind = "git" THEN Len(rows) ELSE Len(rows) + 1
    BY <1>1, <2>1, Recorded
  <2>3. Ends(p) /\ proc[p].pc # "idle" /\ now' = now /\ newest' = newest
    BY <1>8 DEF BuildFails, Succeeds, At
  <2> QED
    BY <2>2, <2>3, StopMoves
<1>9. CASE Check(p)
  <2>1. rows' = rows /\ now' = now /\ newest' = newest /\ proc[p].pc = "check"
    BY <1>9 DEF Check, At
  <2>2. CASE Ends(p)
    <3>1. proc[p].pc # "idle" /\ Len(rows') = Len(rows)
      BY <2>1
    <3> QED
      BY <2>1, <2>2, <3>1, StopMoves
  <2>3. CASE Go(p, "send")
    <3>1. /\ proc' = [proc EXCEPT ![p] = proc'[p]]
          /\ proc'[p].pc = "send" /\ proc'[p].kind = proc[p].kind
      BY <2>3, <1>2, Went DEF Before
    <3>2. proc'[p].pc \in (Before \cup After) \ {"extract"} /\ proc[p].pc \in Before /\ proc[p].pc # "idle"
      BY <2>1, <3>1 DEF Before, After
    <3> QED
      BY <2>1, <3>1, <3>2, GoMoves
  <2> QED
    BY <1>9, <2>2, <2>3 DEF Check
<1>10. CASE Extract(p) \/ GitEmpty(p) \/ GitFill(p) \/ Builds(p) \/ Prune(p) \/ RestoreDelete(p) \/ RestoreCopy(p)
  <2>1. PICK pc \in (Before \cup After) \ {"extract"} : Go(p, pc) /\ (pc \in Before => proc[p].pc \in Before)
    <3>1. CASE Extract(p) \/ GitEmpty(p) \/ GitFill(p)
      BY <3>1 DEF Extract, GitEmpty, GitFill, At, Before
    <3>2. CASE Builds(p) \/ Prune(p) \/ RestoreDelete(p) \/ RestoreCopy(p)
      BY <3>2 DEF Builds, Prune, RestoreDelete, RestoreCopy, Before, After
    <3> QED
      BY <1>10, <3>1, <3>2
  <2>2. /\ rows' = rows /\ now' = now /\ proc[p].pc # "idle"
        /\ newest' = newest \/ (proc[p].pc = "extract" /\ newest' = newest + 1)
    BY <1>10 DEF Extract, GitEmpty, GitFill, Builds, Prune, RestoreDelete, RestoreCopy, At
  <2>3. /\ proc' = [proc EXCEPT ![p] = proc'[p]]
        /\ proc'[p].pc = pc /\ proc'[p].kind = proc[p].kind
    BY <2>1, <1>2, Went
  <2> QED
    BY <2>1, <2>2, <2>3, GoMoves
<1>11. CASE Clone(p)
  <2> DEFINE code == {head}
  <2>1. code \in SUBSET Code
    BY DEF TypeOK
  <2>2. /\ proc' = [proc EXCEPT ![p].pc = "empty", ![p].code = code]
        /\ rows' = rows /\ now' = now /\ newest' = newest /\ proc[p].pc = "clone"
    BY <1>11 DEF Clone, At
  <2> HIDE DEF code
  <2>3. /\ proc' = [proc EXCEPT ![p] = proc'[p]]
        /\ proc'[p].pc = "empty" /\ proc'[p].kind = proc[p].kind
    BY <2>1, <2>2, <1>2, WentWithCode DEF Before
  <2>4. proc'[p].pc \in (Before \cup After) \ {"extract"} /\ proc[p].pc \in Before /\ proc[p].pc # "idle"
    BY <2>2, <2>3 DEF Before, After
  <2> QED
    BY <2>2, <2>3, <2>4, GoMoves
<1>12. CASE Send(p)
  <2> DEFINE code == Content(proc[p].dir)
  <2>1. code \in SUBSET Code
    BY <1>12, <1>1, ContentTyped DEF Send
  <2>2. /\ proc' = [proc EXCEPT ![p].pc = "build", ![p].code = code]
        /\ rows' = rows /\ now' = now /\ newest' = newest /\ proc[p].pc = "send"
    BY <1>12 DEF Send, At
  <2> HIDE DEF code
  <2>3. /\ proc' = [proc EXCEPT ![p] = proc'[p]]
        /\ proc'[p].pc = "build" /\ proc'[p].kind = proc[p].kind
    BY <2>1, <2>2, <1>2, WentWithCode DEF After
  <2>4. proc'[p].pc \in (Before \cup After) \ {"extract"} /\ proc[p].pc # "idle"
    BY <2>2, <2>3 DEF Before, After
  <2> QED
    BY <2>2, <2>3, <2>4, GoMoves
<1>13. CASE Copy(p) \/ CopyFails(p)
  <2>1. /\ proc' = [proc EXCEPT ![p].pc = "prune", ![p].dir = now]
        /\ rows' = rows /\ now' = now /\ newest' = newest /\ proc[p].pc = "copy" /\ now \in Paths
    BY <1>13 DEF Copy, CopyFails, At, TypeOK
  <2>2. /\ proc' = [proc EXCEPT ![p] = proc'[p]]
        /\ proc'[p].pc = "prune" /\ proc'[p].kind = proc[p].kind
    BY <2>1, <1>2, WentWithDir DEF After
  <2>3. proc'[p].pc \in (Before \cup After) \ {"extract"} /\ proc[p].pc # "idle"
    BY <2>1, <2>2 DEF Before, After
  <2> QED
    BY <2>1, <2>2, <2>3, GoMoves
<1> QED
  BY <1>3, <1>4, <1>5, <1>6, <1>7, <1>8, <1>9, <1>10, <1>11, <1>12, <1>13 DEF Acts, Step

LEMMA SetsFinite ==
  /\ IsFiniteSet(Appending) /\ Cardinality(Appending) \in Nat
  /\ IsFiniteSet(Extracting) /\ Cardinality(Extracting) \in Nat
  /\ IsFiniteSet(Pruning) /\ Cardinality(Pruning) \in Nat
  /\ IsFiniteSet(Working) /\ Cardinality(Working) \in Nat
BY ProcsFinite DEF Appending, Extracting, Pruning, Working

\* What was checked before a process started.
LEMMA RoomChecked ==
  /\ RoomForRow => Len(rows) + Cardinality(Appending) < MaxRows
  /\ RoomForCode => newest + Cardinality(Extracting) < MaxCode
<1>1. {p \in Working : proc[p].kind # "git"} = Appending
  BY DEF Working, Appending
<1> QED
  BY <1>1 DEF RoomForRow, RoomForCode, Extracting

LEMMA RoomStep ==
  ASSUME TypeOK, RoomLeft, NEW p \in Procs, Moves(p), rows' \in Seq(Row)
  PROVE  RoomLeft'
<1> newest \in Nat /\ Len(rows) \in Nat /\ rows \in Seq(Row)
  BY DEF TypeOK, Code
<1>1. Cardinality(Appending) \in Nat /\ Cardinality(Extracting) \in Nat
  BY SetsFinite
<1>2. Len(rows) + Cardinality(Appending) <= MaxRows /\ newest + Cardinality(Extracting) <= MaxCode
  BY DEF RoomLeft
<1>3. proc' = [proc EXCEPT ![p] = proc'[p]]
  BY DEF Moves
<1>4. \A r \in Procs : r # p => proc'[r] = proc[r]
  BY <1>3, OwnJob
<1>5. Appending' \subseteq Appending \cup {p} /\ Extracting' \subseteq Extracting \cup {p}
  BY <1>4 DEF Appending, Extracting, At
<1>6. /\ Cardinality(Appending') \in Nat /\ Cardinality(Appending') <= Cardinality(Appending) + 1
      /\ Cardinality(Extracting') \in Nat /\ Cardinality(Extracting') <= Cardinality(Extracting) + 1
  <2> DEFINE A == Appending'
             E == Extracting'
  <2>1. A \subseteq Appending \cup {p} /\ E \subseteq Extracting \cup {p}
    BY <1>5
  <2> HIDE DEF A, E
  <2>2. IsFiniteSet(A) /\ Cardinality(A) <= Cardinality(Appending) + 1
    BY <2>1, SetsFinite, CountMore
  <2>3. IsFiniteSet(E) /\ Cardinality(E) <= Cardinality(Extracting) + 1
    BY <2>1, SetsFinite, CountMore
  <2>4. Cardinality(A) \in Nat /\ Cardinality(E) \in Nat
    BY <2>2, <2>3, FS_CardinalityType
  <2> QED
    BY <2>2, <2>3, <2>4 DEF A, E
\* A set that loses p, or does not gain it.
<1>7. /\ Appending' \subseteq Appending => Cardinality(Appending') <= Cardinality(Appending)
      /\ p \in Appending /\ p \notin Appending' => Cardinality(Appending') <= Cardinality(Appending) - 1
  <2> DEFINE A == Appending'
  <2>1. A \subseteq Appending \cup {p}
    BY <1>5
  <2> HIDE DEF A
  <2>2. A \subseteq Appending => Cardinality(A) <= Cardinality(Appending)
    BY SetsFinite, CountSame
  <2>3. p \in Appending /\ p \notin A => Cardinality(A) <= Cardinality(Appending) - 1
    <3>1. p \notin A => A \subseteq Appending \ {p}
      BY <2>1
    <3> QED
      BY <3>1, SetsFinite, CountLess
  <2> QED
    BY <2>2, <2>3 DEF A
<1>8. /\ Extracting' \subseteq Extracting => Cardinality(Extracting') <= Cardinality(Extracting)
      /\ p \in Extracting /\ p \notin Extracting' => Cardinality(Extracting') <= Cardinality(Extracting) - 1
  <2> DEFINE A == Extracting'
  <2>1. A \subseteq Extracting \cup {p}
    BY <1>5
  <2> HIDE DEF A
  <2>2. A \subseteq Extracting => Cardinality(A) <= Cardinality(Extracting)
    BY SetsFinite, CountSame
  <2>3. p \in Extracting /\ p \notin A => Cardinality(A) <= Cardinality(Extracting) - 1
    <3>1. p \notin A => A \subseteq Extracting \ {p}
      BY <2>1
    <3> QED
      BY <3>1, SetsFinite, CountLess
  <2> QED
    BY <2>2, <2>3 DEF A
<1>9. /\ RoomForRow => Len(rows) + Cardinality(Appending) < MaxRows
      /\ RoomForCode => newest + Cardinality(Extracting) < MaxCode
  BY RoomChecked
\* From here on it is arithmetic: what is used (n, newest) and what is still
\* needed (c, e), before and after (m, newest' and d, f).
<1> DEFINE a == proc[p]
           b == proc'[p]
           n == Len(rows)
           m == Len(rows')
           c == Cardinality(Appending)
           d == Cardinality(Appending')
           e == Cardinality(Extracting)
           f == Cardinality(Extracting')
<1>10. /\ n \in Nat /\ m \in Nat /\ c \in Nat /\ d \in Nat /\ e \in Nat /\ f \in Nat
       /\ d <= c + 1 /\ f <= e + 1
       /\ n + c <= MaxRows /\ newest + e <= MaxCode
  BY <1>1, <1>2, <1>6
<1>11. m + d <= MaxRows /\ newest' + f <= MaxCode => RoomLeft'
  BY DEF RoomLeft
<1>12. CASE Starts(a, b)
  <2>1. /\ n + c < MaxRows /\ (b.pc = "extract" => newest + e < MaxCode)
        /\ (b.kind = "git" /\ m = n + 1) \/ (b.kind # "git" /\ m = n)
        /\ newest' = newest
    BY <1>9, <1>12 DEF Starts
  <2>2. /\ b.kind = "git" => Appending' \subseteq Appending
        /\ b.pc # "extract" => Extracting' \subseteq Extracting
    BY <1>5 DEF Appending, Extracting, At
  <2>3. (b.kind = "git" => d <= c) /\ (b.pc # "extract" => f <= e)
    BY <1>7, <1>8, <2>2
  <2> HIDE DEF a, b, n, m, c, d, e, f
  <2>4. m + d <= MaxRows
    BY <1>10, <2>1, <2>3
  <2>5. newest' + f <= MaxCode
    BY <1>10, <2>1, <2>3
  <2> QED
    BY <1>11, <2>4, <2>5
<1>13. CASE Stops(a, b)
  <2>1. newest' = newest /\ (m = n \/ (a.kind # "git" /\ m = n + 1))
    BY <1>13 DEF Stops
  <2>2. Appending' \subseteq Appending /\ Extracting' \subseteq Extracting
        /\ p \notin Appending' /\ (a.kind # "git" => p \in Appending)
    BY <1>13, <1>5 DEF Stops, Appending, Extracting, At
  <2>3. d <= c /\ f <= e /\ (a.kind # "git" => d <= c - 1)
    BY <1>7, <1>8, <2>2
  <2> HIDE DEF a, b, n, m, c, d, e, f
  <2>4. m + d <= MaxRows
    BY <1>10, <2>1, <2>3
  <2>5. newest' + f <= MaxCode
    BY <1>10, <2>1, <2>3
  <2> QED
    BY <1>11, <2>4, <2>5
<1>14. CASE Goes(a, b)
  <2>1. m = n /\ (newest' = newest \/ (p \in Extracting /\ newest' = newest + 1))
    BY <1>14 DEF Goes, Extracting, At
  <2>2. Appending' \subseteq Appending /\ Extracting' \subseteq Extracting /\ p \notin Extracting'
    BY <1>14, <1>5 DEF Goes, Appending, Extracting, At
  <2>3. d <= c /\ f <= e
    BY <1>7, <1>8, <2>2
  <2>4. newest' = newest \/ (newest' = newest + 1 /\ f <= e - 1)
    BY <1>8, <2>1, <2>2
  <2> HIDE DEF a, b, n, m, c, d, e, f
  <2>5. m + d <= MaxRows
    BY <1>10, <2>1, <2>3
  <2>6. newest' + f <= MaxCode
    BY <1>10, <2>3, <2>4
  <2> QED
    BY <1>11, <2>5, <2>6
<1> QED
  BY <1>12, <1>13, <1>14 DEF Moves

(***************************************************************************)
(* Files, the VM and the counters are of their types.                      *)
(***************************************************************************)
\* What is written to one snapshot, and how often.
LEMMA Written ==
  ASSUME TypeOK, NEW s \in Paths \ {Current}, NEW content \in SUBSET Code, Write(s, content)
  PROVE  /\ DOMAIN versions' = DOMAIN versions \cup {s}
         /\ versions'[s] = content
         /\ \A t \in DOMAIN versions : t # s => versions'[t] = versions[t]
         /\ DOMAIN versions' \subseteq Paths \ {Current}
         /\ \A t \in DOMAIN versions' : versions'[t] \subseteq Code
         /\ writers' \in [Paths -> 0 .. 2]
         /\ writers'[s] = IF writers[s] = 0 THEN 1 ELSE 2
         /\ \A t \in Paths : t # s => writers'[t] = writers[t]
<1>1. versions' = [t \in DOMAIN versions \cup {s} |-> IF t = s THEN content ELSE versions[t]]
  BY DEF Write
<1>2. DOMAIN versions' = DOMAIN versions \cup {s}
  BY <1>1
<1>3. \A t \in DOMAIN versions' : versions'[t] = IF t = s THEN content ELSE versions[t]
  BY <1>1
<1>4. DOMAIN versions' \subseteq Paths \ {Current}
  BY <1>2 DEF TypeOK
<1>5. \A t \in DOMAIN versions' : versions'[t] \subseteq Code
  BY <1>2, <1>3 DEF TypeOK
<1>6. writers \in [Paths -> 0 .. 2] /\ writers' = [writers EXCEPT ![s] = IF @ = 0 THEN 1 ELSE 2]
  BY DEF TypeOK, Write
<1>7. /\ writers' \in [Paths -> 0 .. 2]
      /\ writers'[s] = IF writers[s] = 0 THEN 1 ELSE 2
      /\ \A t \in Paths : t # s => writers'[t] = writers[t]
  BY <1>6
<1> QED
  BY <1>2, <1>3, <1>4, <1>5, <1>7

LEMMA Copied ==
  ASSUME TypeOK, NEW content \in SUBSET Code, CopyOf(content)
  PROVE  /\ DOMAIN versions' = DOMAIN versions \cup {now}
         /\ now \notin DOMAIN versions => versions'[now] = content
         /\ \A s \in DOMAIN versions : s # now => versions'[s] = versions[s]
         /\ DOMAIN versions' \subseteq Paths \ {Current}
         /\ \A s \in DOMAIN versions' : versions'[s] \subseteq Code
         /\ writers' \in [Paths -> 0 .. 2]
         /\ writers'[now] = IF writers[now] = 0 THEN 1 ELSE 2
         /\ \A s \in Paths : s # now => writers'[s] = writers[s]
<1> DEFINE all == content \cup (IF now \in DOMAIN versions THEN versions[now] ELSE {})
<1>1. all \in SUBSET Code /\ (now \notin DOMAIN versions => all = content) /\ now \in Paths \ {Current}
  BY DEF TypeOK
<1>2. Write(now, all)
  BY DEF CopyOf
<1> HIDE DEF all
<1> QED
  BY <1>1, <1>2, Written

LEMMA Pruned ==
  ASSUME TypeOK, versions' = [s \in Newest(Keep) |-> versions[s]]
  PROVE  /\ DOMAIN versions' = Newest(Keep) /\ Newest(Keep) \subseteq DOMAIN versions
         /\ \A s \in DOMAIN versions' : versions'[s] = versions[s]
BY DEF Newest

LEMMA Deleted ==
  ASSUME DeleteBuild
  PROVE  build' = {} /\ DOMAIN versions' = {} /\ writers' = writers
BY DEF DeleteBuild, NoFiles

FilesOK ==
  /\ build \subseteq Code /\ present \in BOOLEAN
  /\ build # {} \/ DOMAIN versions # {} => present
  /\ DOMAIN versions \subseteq Paths \ {Current}
  /\ \A s \in DOMAIN versions : versions[s] \subseteq Code
  /\ writers \in [Paths -> 0 .. 2]

CountsOK ==
  /\ serial \in BOOLEAN
  /\ faults \in Nat /\ copyFaults \in Nat /\ kills \in Nat
  /\ faults + copyFaults + kills <= MaxFaults
  /\ byHand \in 0 .. MaxByHand

LEMMA FilesStep ==
  ASSUME TypeOK, JobsOK, newest' \in Code, NEW p \in Procs, Acts(p)
  PROVE  FilesOK'
<1>1. FilesOK
  BY DEF TypeOK, FilesOK
<1>2. Fits(proc[p], Len(rows)) /\ proc[p].code \in SUBSET Code
  BY JobTyped DEF JobsOK
<1>3. CASE files' = files
  BY <1>3, <1>1 DEF files, FilesOK
<1>4. CASE BeginUpload(p) \/ GitEmpty(p) \/ RestoreDelete(p)
  <2>1. DeleteBuild /\ present' \in BOOLEAN
    BY <1>4 DEF BeginUpload, GitEmpty, RestoreDelete
  <2> QED
    BY <1>1, <2>1, Deleted DEF FilesOK
<1>5. CASE Extract(p) \/ ExtractFails(p)
  <2>1. PICK part \in SUBSET Code : /\ build' = build \cup part /\ versions' = versions /\ writers' = writers
                                    /\ present' \in BOOLEAN /\ (present' \/ (present' = present /\ part = {}))
    <3>1. CASE Extract(p)
      <4>1. {newest + 1} \in SUBSET Code
        BY <3>1 DEF Extract
      <4> QED
        BY <3>1, <4>1 DEF Extract
    <3>2. CASE ExtractFails(p)
      <4>1. {} \in SUBSET Code /\ {Broken} \in SUBSET Code
        BY DEF Code, Broken
      <4> QED
        BY <3>2, <4>1, <1>1 DEF ExtractFails, FilesOK
    <3> QED
      BY <1>5, <3>1, <3>2
  <2> QED
    BY <1>1, <2>1 DEF FilesOK
<1>6. CASE GitFill(p)
  BY <1>6, <1>1, <1>2 DEF GitFill, FilesOK
<1>7. CASE Copy(p) \/ CopyFails(p)
  <2>1. PICK content \in SUBSET Code : CopyOf(content) /\ present' = TRUE /\ build' = build
    <3>1. CASE Copy(p)
      BY <3>1, <1>1 DEF Copy, FilesOK
    <3>2. CASE CopyFails(p)
      <4>1. {} \in SUBSET Code /\ {Broken} \in SUBSET Code
        BY DEF Code, Broken
      <4> QED
        BY <3>2, <4>1 DEF CopyFails
    <3> QED
      BY <1>7, <3>1, <3>2
  <2> QED
    BY <1>1, <2>1, Copied DEF FilesOK
<1>8. CASE Prune(p)
  <2>1. versions' = [s \in Newest(Keep) |-> versions[s]] /\ build' = build /\ present' = present
        /\ writers' = writers
    BY <1>8 DEF Prune
  <2> QED
    BY <1>1, <2>1, Pruned DEF FilesOK
<1>9. CASE RestoreCopy(p)
  <2>1. CASE proc[p].dir \in DOMAIN versions
    BY <1>9, <1>1, <2>1 DEF RestoreCopy, FilesOK
  <2>2. CASE proc[p].dir \notin DOMAIN versions
    BY <1>9, <1>1, <2>2 DEF RestoreCopy, FilesOK
  <2> QED
    BY <2>1, <2>2
<1>10. \/ files' = files
      \/ BeginUpload(p) \/ GitEmpty(p) \/ RestoreDelete(p) \/ Extract(p) \/ ExtractFails(p) \/ GitFill(p)
      \/ Copy(p) \/ CopyFails(p) \/ Prune(p) \/ RestoreCopy(p)
  <2>1. BeginDeploy(p) \/ BeginGit(p) \/ (\E d \in 1 .. Len(rows) : BeginRollback(p, d)) \/ Killed(p)
        => files' = files
    BY DEF BeginDeploy, BeginGit, BeginRollback, Killed
  <2>2. Check(p) \/ Clone(p) \/ Send(p) \/ Throws(p) \/ Builds(p) \/ BuildFails(p) \/ Succeeds(p)
        => files' = files
    BY DEF Check, Clone, Send, Throws, Builds, BuildFails, Succeeds
  <2> QED
    BY <2>1, <2>2 DEF Acts, Step
<1> QED
  BY <1>3, <1>4, <1>5, <1>6, <1>7, <1>8, <1>9, <1>10

LEMMA VmStep ==
  ASSUME TypeOK, JobsOK, NEW p \in Procs, Acts(p)
  PROVE  vm' \subseteq Code /\ head' \in Code
<1>1. vm \subseteq Code /\ head \in Code
  BY DEF TypeOK
<1>2. head' = head
  <2>1. BeginUpload(p) \/ BeginDeploy(p) \/ BeginGit(p) \/ (\E d \in 1 .. Len(rows) : BeginRollback(p, d))
        \/ ExtractFails(p) \/ Killed(p) => head' = head
    BY DEF BeginUpload, BeginDeploy, BeginGit, BeginRollback, ExtractFails, Killed
  <2>2. Step(p) => head' = head
    BY DEF Step, Extract, Check, Clone, GitEmpty, GitFill, Send, Throws, Builds, BuildFails, Copy, CopyFails,
           Prune, RestoreDelete, RestoreCopy, Succeeds
  <2> QED
    BY <2>1, <2>2 DEF Acts
<1>3. CASE Send(p) \/ Throws(p)
  <2>1. vm' = vm \/ (Exists(proc[p].dir) /\ vm' = Content(proc[p].dir))
    BY <1>3 DEF Send, Throws
  <2> QED
    BY <1>1, <1>2, <2>1, JobTyped, ContentTyped
<1>4. CASE ~ (Send(p) \/ Throws(p))
  <2>1. BeginUpload(p) \/ BeginDeploy(p) \/ BeginGit(p) \/ (\E d \in 1 .. Len(rows) : BeginRollback(p, d))
        \/ ExtractFails(p) \/ Killed(p) => vm' = vm
    BY DEF BeginUpload, BeginDeploy, BeginGit, BeginRollback, ExtractFails, Killed
  <2>2. Step(p) => vm' = vm
    BY <1>4 DEF Step, Extract, Check, Clone, GitEmpty, GitFill, Builds, BuildFails, Copy, CopyFails,
                Prune, RestoreDelete, RestoreCopy, Succeeds
  <2> QED
    BY <1>1, <1>2, <2>1, <2>2 DEF Acts
<1> QED
  BY <1>3, <1>4

LEMMA CountsStep ==
  ASSUME TypeOK, NEW p \in Procs, Acts(p)
  PROVE  CountsOK' /\ serial' = serial
<1>1. CountsOK /\ MaxFaults \in Nat
  BY DEF TypeOK, CountsOK
<1>2. serial' = serial /\ (\/ counts' = counts
                           \/ ExtractFails(p) \/ Throws(p) \/ CopyFails(p) \/ Killed(p))
  <2>1. BeginUpload(p) \/ BeginDeploy(p) \/ BeginGit(p) \/ (\E d \in 1 .. Len(rows) : BeginRollback(p, d))
        => serial' = serial /\ counts' = counts
    BY DEF BeginUpload, BeginDeploy, BeginGit, BeginRollback
  <2>2. ExtractFails(p) \/ Throws(p) \/ CopyFails(p) \/ Killed(p) => serial' = serial
    BY DEF ExtractFails, Throws, CopyFails, Killed
  <2>3. Step(p) => serial' = serial /\ (counts' = counts \/ Throws(p) \/ CopyFails(p))
    BY <2>2 DEF Step, Extract, Check, Clone, GitEmpty, GitFill, Send, Builds, BuildFails, Copy,
           Prune, RestoreDelete, RestoreCopy, Succeeds
  <2> QED
    BY <2>1, <2>2, <2>3 DEF Acts
<1>3. \/ counts' = counts
      \/ Fault /\ copyFaults' = copyFaults /\ kills' = kills /\ byHand' = byHand
      \/ RoomForFault /\ copyFaults' = copyFaults + 1 /\ faults' = faults /\ kills' = kills
         /\ byHand' = byHand
      \/ RoomForFault /\ kills' = kills + 1 /\ faults' = faults /\ copyFaults' = copyFaults
         /\ byHand' = byHand
  BY <1>2 DEF ExtractFails, Throws, CopyFails, Killed
<1> QED
  BY <1>1, <1>2, <1>3 DEF CountsOK, counts, Fault, RoomForFault

LEMMA TypeStep ==
  ASSUME TypeOK, JobsOK, RoomLeft, NEW p \in Procs, Acts(p)
  PROVE  TypeOK' /\ JobsOK' /\ RoomLeft'
<1> newest \in Nat /\ Len(rows) \in Nat
  BY DEF TypeOK, Code
<1>1. Followed /\ Moves(p)
  BY JobsStep, MovesStep
<1>2. RoomLeft'
  BY <1>1, RoomStep DEF Followed
<1>3. newest' \in {newest, newest + 1}
  BY <1>1 DEF Moves, Starts, Stops, Goes
<1>4. Len(rows') <= MaxRows /\ now' \in Paths \ {Current} /\ newest' \in Code
  <2>1. Cardinality(Appending') \in Nat /\ Cardinality(Extracting') \in Nat
    <3>1. /\ Appending' \subseteq Procs /\ Extracting' \subseteq Procs
      BY DEF Appending, Extracting
    <3> QED
      BY <3>1, ProcsFinite
  <2>2. Len(rows') \in Nat /\ newest' \in Nat
    BY <1>1, <1>3 DEF Followed
  <2>3. now' \in Paths \ {Current}
    BY <1>1 DEF Followed, TypeOK
  <2> QED
    BY <1>2, <2>1, <2>2, <2>3 DEF RoomLeft, Code
<1>5. FilesOK' /\ CountsOK' /\ vm' \subseteq Code /\ head' \in Code
  BY <1>4, FilesStep, VmStep, CountsStep
<1>6. TypeOK'
  BY <1>1, <1>4, <1>5 DEF TypeOK, FilesOK, CountsOK, Followed
<1> QED
  BY <1>1, <1>2, <1>6 DEF Followed

\* What clients and time do.
Outside == \/ Push \/ EditFile \/ FilesDelete \/ Tick
           \/ \E s \in Paths : EditSnapshot(s)

LEMMA OutsideFiles ==
  ASSUME TypeOK, newest' \in Code, Outside
  PROVE  FilesOK' /\ head' \in Code
<1>1. CASE Push
  BY <1>1 DEF Push, files, FilesOK, TypeOK
<1>2. CASE EditFile
  <2>1. {newest + 1} \subseteq Code
    BY <1>2 DEF EditFile
  <2> QED
    BY <1>2, <2>1 DEF EditFile, FilesOK, TypeOK
<1>3. CASE FilesDelete
  <2>1. CASE build' = {} /\ versions' = versions
    BY <1>3, <2>1 DEF FilesDelete, FilesOK, TypeOK
  <2>2. CASE /\ \E s \in DOMAIN versions : versions' = [t \in DOMAIN versions \ {s} |-> versions[t]]
             /\ build' = build
    <3>1. PICK s \in DOMAIN versions : versions' = [t \in DOMAIN versions \ {s} |-> versions[t]]
      BY <2>2
    <3>2. /\ DOMAIN versions' \subseteq DOMAIN versions
          /\ \A t \in DOMAIN versions' : versions'[t] = versions[t]
      BY <3>1
    <3> QED
      BY <1>3, <2>2, <3>2 DEF FilesDelete, FilesOK, TypeOK
  <2> QED
    BY <1>3, <2>1, <2>2 DEF FilesDelete
<1>4. CASE Tick
  BY <1>4 DEF Tick, files, FilesOK, TypeOK
<1>5. CASE \E s \in Paths : EditSnapshot(s)
  <2>1. PICK s \in Paths : EditSnapshot(s)
    BY <1>5
  <2>2. s \in DOMAIN versions /\ s \in Paths \ {Current} /\ newest' = newest + 1 /\ newest + 1 \in Code
    BY <2>1 DEF EditSnapshot, TypeOK
  <2>3. versions[s] \cup {newest + 1} \in SUBSET Code /\ {} \in SUBSET Code
    BY <2>2 DEF TypeOK
  <2>4. PICK content \in SUBSET Code : Write(s, content)
    BY <2>1, <2>3 DEF EditSnapshot
  <2>5. /\ DOMAIN versions' = DOMAIN versions \cup {s}
        /\ DOMAIN versions' \subseteq Paths \ {Current}
        /\ \A t \in DOMAIN versions' : versions'[t] \subseteq Code
        /\ writers' \in [Paths -> 0 .. 2]
    BY <2>2, <2>4, Written
  <2>6. build' = build /\ present' = present /\ head' = head
    BY <2>1 DEF EditSnapshot
  <2> QED
    BY <2>2, <2>5, <2>6 DEF FilesOK, TypeOK
<1> QED
  BY <1>1, <1>2, <1>3, <1>4, <1>5 DEF Outside

LEMMA OutsideCounts ==
  ASSUME TypeOK, Outside
  PROVE  /\ rows' = rows /\ proc' = proc /\ vm' = vm /\ serial' = serial
         /\ faults' = faults /\ copyFaults' = copyFaults /\ kills' = kills
         /\ byHand' \in 0 .. MaxByHand
         /\ (newest' = newest \/ (RoomForCode /\ newest' = newest + 1))
         /\ (now' = now \/ (now < MaxSecond /\ now' = now + 1))
<1>1. byHand \in 0 .. MaxByHand
  BY DEF TypeOK
<1>2. CASE Push \/ EditFile \/ Tick
  BY <1>1, <1>2 DEF Push, EditFile, Tick, counts
<1>3. CASE FilesDelete
  BY <1>1, <1>3 DEF FilesDelete, ByHand
<1>4. CASE \E s \in Paths : EditSnapshot(s)
  BY <1>1, <1>4 DEF EditSnapshot, ByHand
<1> QED
  BY <1>2, <1>3, <1>4 DEF Outside

LEMMA OutsideType ==
  ASSUME TypeOK, JobsOK, RoomLeft, Outside
  PROVE  TypeOK' /\ JobsOK' /\ RoomLeft'
<1> now \in Nat /\ newest \in Nat /\ Len(rows) \in Nat
  BY DEF TypeOK, Paths, Code
<1>1. /\ rows' = rows /\ proc' = proc /\ vm' = vm /\ serial' = serial
      /\ faults' = faults /\ copyFaults' = copyFaults /\ kills' = kills /\ byHand' \in 0 .. MaxByHand
      /\ (newest' = newest \/ (RoomForCode /\ newest' = newest + 1))
      /\ (now' = now \/ (now < MaxSecond /\ now' = now + 1))
  BY OutsideCounts
<1>2. /\ Appending' = Appending /\ Extracting' = Extracting
  BY <1>1 DEF Appending, Extracting, At
<1>3. Cardinality(Extracting) \in Nat
  BY SetsFinite
<1>4. RoomForCode => newest + Cardinality(Extracting) < MaxCode
  BY RoomChecked
<1>5. newest' + Cardinality(Extracting) <= MaxCode
  BY <1>1, <1>3, <1>4 DEF RoomLeft
<1>6. newest' \in Code /\ now' \in Paths \ {Current}
  BY <1>1, <1>3, <1>5 DEF Code, Paths, Current, TypeOK
<1>7. RoomLeft'
  BY <1>1, <1>2, <1>5 DEF RoomLeft
<1>8. JobsOK'
  BY <1>1 DEF JobsOK
<1>9. FilesOK' /\ head' \in Code
  BY <1>6, OutsideFiles
<1>10. TypeOK'
  BY <1>1, <1>6, <1>9 DEF TypeOK, FilesOK
<1> QED
  BY <1>7, <1>8, <1>10

(***************************************************************************)
(* Few snapshots.                                                          *)
(***************************************************************************)
LEMMA SnapshotsFinite ==
  ASSUME TypeOK
  PROVE  DOMAIN versions \in SUBSET Nat /\ IsFiniteSet(DOMAIN versions)
<1>1. IsFiniteSet(Paths) /\ Paths \subseteq Nat
  BY FS_Interval DEF Paths
<1>2. DOMAIN versions \subseteq Paths
  BY DEF TypeOK
<1> QED
  BY <1>1, <1>2, FS_Subset

LEMMA FewStep ==
  ASSUME TypeOK, TypeOK', FewSnapshots, JobsOK, NEW p \in Procs, Acts(p)
  PROVE  FewSnapshots'
<1> DEFINE D == DOMAIN versions
           E == DOMAIN versions'
           Q == Pruning'
<1>1. Cardinality(D) <= Keep + kills + Cardinality(Pruning)
  BY DEF FewSnapshots, Pruning
<1>2. Cardinality(E) <= Keep + kills' + Cardinality(Q) => FewSnapshots'
  BY DEF FewSnapshots, Pruning
<1>3. \A r \in Procs : r # p => proc'[r] = proc[r]
  BY MovesStep, OwnJob DEF Moves
<1>4. Pruning \subseteq Q \cup {p} /\ (p \notin Pruning => Pruning \subseteq Q)
  BY <1>3 DEF Pruning, At
<1>5. p \in Pruning <=> proc[p].pc = "prune"
  BY DEF Pruning, At
<1>6. p \in Q <=> proc'[p].pc = "prune"
  BY DEF Pruning, At
<1>7. D \in SUBSET Nat /\ IsFiniteSet(D)
  BY SnapshotsFinite
<1>8. E \in SUBSET Nat /\ IsFiniteSet(E)
  <2>1. IsFiniteSet(Paths) /\ Paths \subseteq Nat
    BY FS_Interval DEF Paths
  <2>2. E \subseteq Paths
    BY DEF TypeOK
  <2> HIDE DEF E
  <2> QED
    BY <2>1, <2>2, FS_Subset
<1>9. IsFiniteSet(Q)
  <2>1. Q \subseteq Procs
    BY DEF Pruning
  <2> HIDE DEF Q
  <2> QED
    BY <2>1, ProcsFinite
<1>10. kills \in Nat /\ kills' \in Nat
  BY DEF TypeOK
<1> HIDE DEF D, E, Q
<1>11. /\ Cardinality(D) \in Nat /\ Cardinality(E) \in Nat
      /\ Cardinality(Pruning) \in Nat /\ Cardinality(Q) \in Nat
  BY <1>7, <1>8, <1>9, SetsFinite, FS_CardinalityType
\* Nothing is added, and p has nothing to prune.
<1>12. ASSUME E \subseteq D, p \notin Pruning, kills' >= kills
      PROVE  FewSnapshots'
  <2>1. Cardinality(E) <= Cardinality(D)
    BY <1>7, <1>12, CountSame
  <2>2. Cardinality(Pruning) <= Cardinality(Q)
    BY <1>9, <1>4, <1>12, CountSame
  <2> QED
    BY <1>1, <1>2, <1>11, <1>10, <1>12, <2>1, <2>2
<1>13. CASE BeginUpload(p) \/ GitEmpty(p) \/ RestoreDelete(p)
  <2>1. E = {} /\ kills' = kills /\ p \notin Pruning
    BY <1>13, <1>5, Deleted DEF BeginUpload, GitEmpty, RestoreDelete, MayBegin, At, counts, E
  <2> QED
    BY <1>12, <1>10, <2>1
<1>14. CASE Copy(p) \/ CopyFails(p)
  <2>1. E \subseteq D \cup {now} /\ kills' = kills /\ p \notin Pruning
    <3>1. PICK content : CopyOf(content)
      BY <1>14 DEF Copy, CopyFails
    <3>2. DOMAIN versions' = DOMAIN versions \cup {now}
      BY <3>1 DEF CopyOf, Write
    <3>3. kills' = kills /\ p \notin Pruning
      BY <1>14, <1>5 DEF Copy, CopyFails, At, counts
    <3> QED
      BY <3>2, <3>3 DEF D, E
  <2>2. p \in Q
    <3>1. now \in Paths /\ "prune" \in Steps /\ proc' = [proc EXCEPT ![p].pc = "prune", ![p].dir = now]
      BY <1>14 DEF Copy, CopyFails, TypeOK, Steps, After
    <3> QED
      BY <1>6, <3>1, WentWithDir
  <2>3. Cardinality(E) <= Cardinality(D) + 1
    BY <1>7, <2>1, CountMore
  <2>4. Cardinality(Pruning) <= Cardinality(Q) - 1
    <3>1. Pruning \subseteq Q \ {p}
      BY <1>4, <2>1
    <3> QED
      BY <1>9, <2>2, <3>1, CountLess
  <2> QED
    BY <1>1, <1>2, <1>11, <1>10, <2>1, <2>3, <2>4
<1>15. CASE Prune(p)
  <2>1. E = Newest(Keep) /\ kills' = kills
    BY <1>15, Pruned DEF Prune, E, counts
  <2>2. Newest(Keep) = {s \in D : Cardinality({t \in D : t > s}) < Keep}
    BY DEF Newest, D
  <2>3. Cardinality(E) <= Keep
    BY <1>7, <2>1, <2>2, NewestAreFew
  <2> QED
    BY <1>2, <1>11, <1>10, <2>1, <2>3
<1>16. CASE Killed(p)
  <2>1. E = D /\ kills' = kills + 1
    BY <1>16 DEF Killed, files, D, E
  <2>2. Cardinality(Pruning) <= Cardinality(Q) + 1
    BY <1>9, <1>4, CountMore
  <2> QED
    BY <1>1, <1>2, <1>11, <1>10, <2>1, <2>2
<1>17. CASE ~ (\/ BeginUpload(p) \/ GitEmpty(p) \/ RestoreDelete(p) \/ Copy(p) \/ CopyFails(p)
              \/ Prune(p) \/ Killed(p))
  <2>1. versions' = versions /\ kills' = kills /\ proc[p].pc # "prune"
    <3>1. BeginDeploy(p) \/ BeginGit(p) \/ (\E d \in 1 .. Len(rows) : BeginRollback(p, d)) \/ ExtractFails(p)
          => versions' = versions /\ kills' = kills /\ proc[p].pc # "prune"
      BY DEF BeginDeploy, BeginGit, BeginRollback, ExtractFails, MayBegin, At, files, counts
    <3>2. Extract(p) \/ Check(p) \/ Clone(p) \/ GitFill(p) \/ Send(p) \/ Throws(p)
          => versions' = versions /\ kills' = kills /\ proc[p].pc # "prune"
      BY DEF Extract, Check, Clone, GitFill, Send, Throws, At, files, counts
    <3>3. Builds(p) \/ BuildFails(p) \/ RestoreCopy(p) \/ Succeeds(p)
          => versions' = versions /\ kills' = kills /\ proc[p].pc # "prune"
      BY DEF Builds, BuildFails, RestoreCopy, Succeeds, At, files, counts
    <3> QED
      BY <1>17, <3>1, <3>2, <3>3 DEF Acts, Step
  <2> QED
    BY <1>12, <1>10, <1>5, <2>1 DEF D, E
<1> QED
  BY <1>13, <1>14, <1>15, <1>16, <1>17

LEMMA OutsideFew ==
  ASSUME TypeOK, FewSnapshots, Outside
  PROVE  FewSnapshots'
<1> DEFINE D == DOMAIN versions
           E == DOMAIN versions'
<1>1. kills' = kills /\ proc' = proc
  BY OutsideCounts
<1>2. E \subseteq D
  <2>1. CASE Push \/ EditFile \/ Tick
    BY <2>1 DEF Push, EditFile, Tick, files
  <2>2. CASE FilesDelete
    BY <2>2 DEF FilesDelete
  <2>3. CASE \E s \in Paths : EditSnapshot(s)
    BY <2>3 DEF EditSnapshot, Write
  <2> QED
    BY <2>1, <2>2, <2>3 DEF Outside
<1>3. IsFiniteSet(D)
  BY SnapshotsFinite
<1> HIDE DEF D, E
<1>4. Cardinality(E) <= Cardinality(D) /\ Cardinality(E) \in Nat /\ Cardinality(D) \in Nat
  BY <1>2, <1>3, CountSame, FS_CardinalityType
<1>5. Cardinality(D) <= Keep + kills + Cardinality(Pruning)
  BY DEF FewSnapshots, Pruning, D
<1>6. Pruning' = Pruning /\ Cardinality(Pruning) \in Nat /\ kills \in Nat
  BY <1>1, SetsFinite DEF Pruning, At, TypeOK
<1>7. Cardinality(E) <= Keep + kills' + Cardinality(Pruning')
  BY <1>1, <1>4, <1>5, <1>6
<1> QED
  BY <1>7 DEF FewSnapshots, Pruning, E

LEMMA InitIInv == Init => IInv
<1> SUFFICES ASSUME Init PROVE IInv
  OBVIOUS
<1>1. \A p \in Procs : proc[p] = Idle
  BY DEF Init
<1>2. rows = <<>> /\ Len(rows) = 0 /\ now = 1 /\ newest = 0
  BY DEF Init
<1>3. TypeOK
  <2>1. proc \in [Procs -> Job]
    BY IdleTyped DEF Init
  <2>2. FilesOK
    <3>1. DOMAIN versions = {} /\ writers \in [Paths -> 0 .. 2]
      BY DEF Init, NoFiles
    <3> QED
      BY <3>1 DEF Init, FilesOK
  <2>3. now \in Paths \ {Current} /\ newest \in Code /\ head \in Code
    BY <1>2 DEF Init, Paths, Current, Code
  <2> QED
    BY <1>2, <2>1, <2>2, <2>3 DEF Init, TypeOK, FilesOK
<1>4. JobsOK
  BY <1>1, <1>2, IdleFits DEF JobsOK
<1>5. Appending = {} /\ Extracting = {} /\ Pruning = {}
  BY <1>1 DEF Appending, Extracting, Pruning, At, Idle
<1>6. RoomLeft
  BY <1>2, <1>5, FS_EmptySet DEF RoomLeft
<1>7. DOMAIN versions = {} /\ kills = 0
  BY DEF Init, NoFiles
<1>8. FewSnapshots
  BY <1>5, <1>7, FS_EmptySet DEF FewSnapshots, Pruning
<1> QED
  BY <1>3, <1>4, <1>6, <1>8 DEF IInv

LEMMA StepIInv == IInv /\ [Next]_vars => IInv'
<1> SUFFICES ASSUME IInv, [Next]_vars PROVE IInv'
  OBVIOUS
<1> USE DEF IInv
<1>1. CASE Outside
  BY <1>1, OutsideType, OutsideFew
<1>2. ASSUME NEW p \in Procs, Acts(p) PROVE IInv'
  BY <1>2, TypeStep, FewStep
<1>3. CASE UNCHANGED vars
  BY <1>3 DEF vars, files, counts, TypeOK, JobsOK, RoomLeft, FewSnapshots, Appending, Extracting, At
<1> QED
  BY <1>1, <1>2, <1>3 DEF Next, Acts, Outside

\* However deploys overlap, whatever fails and whoever is killed, the state is
\* of its type: a Git job has its row, a second stays within the bound.
THEOREM TypeCorrect == Spec => []TypeOK
<1>1. Spec => []IInv
  BY InitIInv, StepIInv, PTL DEF Spec
<1> QED
  BY <1>1, PTL DEF IInv

\* However deploys overlap there are no more snapshots than are kept, being
\* made, or left behind by a killed worker, for any number to keep.
THEOREM SnapshotsStayFew == Spec => []FewSnapshots
<1>1. Spec => []IInv
  BY InitIInv, StepIInv, PTL DEF Spec
<1> QED
  BY <1>1, PTL DEF IInv

(***************************************************************************)
(* Clients that wait for each other.                                       *)
(***************************************************************************)
\* What a step of p does to the table.
Landed(p) == IF proc[p].kind = "git" THEN proc[p].row ELSE Len(rows) + 1
OldRow(d) ==
  /\ d \in 1 .. Len(rows)
  /\ rows'[d].path = rows[d].path /\ rows'[d].code = rows[d].code
  /\ rows'[d].reached = rows[d].reached
  /\ rows'[d].status \in {rows[d].status, "failed"}
GitRow(p, d) ==
  /\ BeginGit(p) /\ d = Len(rows) + 1
  /\ rows'[d].path = Current /\ rows'[d].reached = FALSE /\ rows'[d].status = "building"
OutcomeRow(p, d) ==
  /\ BuildFails(p) \/ Succeeds(p)
  /\ d = Landed(p)
  /\ rows'[d].path = proc[p].dir /\ rows'[d].code = proc[p].code /\ rows'[d].reached = TRUE
  /\ BuildFails(p) => rows'[d].status = "failed"

LEMMA Outcome ==
  ASSUME TypeOK, JobsOK, NEW p \in Procs, NEW status \in {"failed", "succeeded"}, NEW path \in Paths,
         Record(p, status, path)
  PROVE  /\ Landed(p) \in 1 .. Len(rows') /\ Len(rows) <= Len(rows')
         /\ rows'[Landed(p)].path = path /\ rows'[Landed(p)].code = proc[p].code
         /\ rows'[Landed(p)].status = status /\ rows'[Landed(p)].reached = TRUE
         /\ \A d \in 1 .. Len(rows') : d # Landed(p) => d \in 1 .. Len(rows) /\ rows'[d] = rows[d]
<1>1. rows \in Seq(Row) /\ Len(rows) \in Nat
  BY DEF TypeOK
<1>2. CASE proc[p].kind = "git"
  <2> DEFINE d == proc[p].row
             row == [rows[d] EXCEPT !.status = status, !.path = path, !.code = proc[p].code,
                              !.reached = TRUE]
  <2>1. d \in 1 .. Len(rows) /\ Landed(p) = d
    BY <1>2 DEF JobsOK, Fits, Landed
  <2>2. rows[d] \in Row
    BY <2>1, RowTyped
  <2>3. row.status = status /\ row.path = path /\ row.code = proc[p].code /\ row.reached = TRUE
    BY <2>2 DEF Row
  <2>4. rows' = [rows EXCEPT ![d] = row]
    BY <1>2 DEF Record
  <2> HIDE DEF d, row
  <2>5. Len(rows') = Len(rows) /\ rows'[d] = row /\ \A e \in 1 .. Len(rows) : e # d => rows'[e] = rows[e]
    BY <1>1, <2>1, <2>4
  <2> QED
    BY <1>1, <2>1, <2>3, <2>5
<1>3. CASE proc[p].kind # "git"
  <2> DEFINE row == [status |-> status, kind |-> proc[p].kind, path |-> path,
                     code |-> proc[p].code, reached |-> TRUE, of |-> proc[p].row]
  <2>1. row.status = status /\ row.path = path /\ row.code = proc[p].code /\ row.reached = TRUE
    OBVIOUS
  <2>2. rows' = Append(rows, row) /\ Landed(p) = Len(rows) + 1
    BY <1>3 DEF Record, Landed
  <2> HIDE DEF row
  <2>3. Len(rows') = Len(rows) + 1 /\ rows'[Len(rows) + 1] = row /\ \A e \in 1 .. Len(rows) : rows'[e] = rows[e]
    BY <1>1, <2>2
  <2> QED
    BY <1>1, <2>1, <2>2, <2>3
<1> QED
  BY <1>2, <1>3

LEMMA TableStep ==
  ASSUME TypeOK, JobsOK, NEW p \in Procs, Acts(p), NEW d \in 1 .. Len(rows')
  PROVE  OldRow(d) \/ GitRow(p, d) \/ OutcomeRow(p, d)
<1>1. rows \in Seq(Row) /\ Len(rows) \in Nat
  BY DEF TypeOK
<1>2. CASE rows' = rows
  BY <1>2 DEF OldRow
<1>3. CASE BeginGit(p)
  <2> DEFINE row == [status |-> "building", kind |-> "git", path |-> Current, code |-> {},
                     reached |-> FALSE, of |-> 0]
  <2>1. row.status = "building" /\ row.path = Current /\ row.reached = FALSE
    OBVIOUS
  <2>2. rows' = Append(rows, row)
    BY <1>3 DEF BeginGit
  <2> HIDE DEF row
  <2>3. Len(rows') = Len(rows) + 1 /\ rows'[Len(rows) + 1] = row /\ \A e \in 1 .. Len(rows) : rows'[e] = rows[e]
    BY <1>1, <2>2
  <2>4. CASE d = Len(rows) + 1
    BY <1>3, <2>1, <2>3, <2>4 DEF GitRow
  <2>5. CASE d \in 1 .. Len(rows)
    BY <2>3, <2>5 DEF OldRow
  <2> QED
    BY <1>1, <2>3, <2>4, <2>5
<1>4. CASE Throws(p)
  BY <1>4, GivenUp DEF Throws, OldRow
<1>5. CASE BuildFails(p) \/ Succeeds(p)
  <2>1. PICK status \in {"failed", "succeeded"} :
          Record(p, status, proc[p].dir) /\ (BuildFails(p) => status = "failed")
    <3>1. BuildFails(p) => Record(p, "failed", proc[p].dir)
      BY DEF BuildFails
    <3>2. Succeeds(p) => Record(p, "succeeded", proc[p].dir)
      BY DEF Succeeds
    <3> QED
      BY <1>5, <3>1, <3>2
  <2>2. /\ rows'[Landed(p)].path = proc[p].dir /\ rows'[Landed(p)].code = proc[p].code
        /\ rows'[Landed(p)].status = status /\ rows'[Landed(p)].reached = TRUE
        /\ \A e \in 1 .. Len(rows') : e # Landed(p) => e \in 1 .. Len(rows) /\ rows'[e] = rows[e]
    BY <2>1, Outcome, JobTyped
  <2> QED
    BY <1>5, <2>1, <2>2 DEF OldRow, OutcomeRow
<1>6. rows' = rows \/ BeginGit(p) \/ Throws(p) \/ BuildFails(p) \/ Succeeds(p)
  <2>1. BeginUpload(p) \/ BeginDeploy(p) \/ (\E e \in 1 .. Len(rows) : BeginRollback(p, e))
        \/ ExtractFails(p) \/ Killed(p) => rows' = rows
    BY DEF BeginUpload, BeginDeploy, BeginRollback, ExtractFails, Killed
  <2>2. Step(p) => rows' = rows \/ Throws(p) \/ BuildFails(p) \/ Succeeds(p)
    BY DEF Step, Extract, Check, Clone, GitEmpty, GitFill, Send, Builds, Copy, CopyFails,
           Prune, RestoreDelete, RestoreCopy
  <2> QED
    BY <2>1, <2>2 DEF Acts
<1> QED
  BY <1>2, <1>3, <1>4, <1>5, <1>6

\* While p is at work, nobody else is.
LEMMA OthersIdle ==
  ASSUME TypeOK, JobsOK, AloneInv, serial, NEW p \in Procs, Acts(p)
  PROVE  \A r \in Procs : r # p => proc[r] = Idle /\ proc'[r] = Idle
<1>1. \A r \in Procs : r # p => proc'[r] = proc[r]
  BY MovesStep, OwnJob DEF Moves
<1>2. Working = {} \/ p \in Working
  <2>1. BeginUpload(p) \/ BeginDeploy(p) \/ BeginGit(p) \/ (\E d \in 1 .. Len(rows) : BeginRollback(p, d))
        => Working = {}
    BY DEF BeginUpload, BeginDeploy, BeginGit, BeginRollback, MayBegin
  <2>2. ExtractFails(p) \/ Killed(p) => ~ At(p, "idle")
    BY DEF ExtractFails, Killed, At
  <2>3. Step(p) => ~ At(p, "idle")
    BY DEF Step, Extract, Check, Clone, GitEmpty, GitFill, Send, Throws, Builds, BuildFails, Copy, CopyFails,
           Prune, RestoreDelete, RestoreCopy, Succeeds, At
  <2> QED
    BY <2>1, <2>2, <2>3 DEF Acts, Working
<1>3. \A r \in Procs : r # p => At(r, "idle")
  BY <1>2 DEF AloneInv, Working
<1> QED
  BY <1>1, <1>3 DEF JobsOK, Fits, At

LEMMA AloneStep ==
  ASSUME TypeOK, JobsOK, AloneInv, NEW p \in Procs, Acts(p)
  PROVE  AloneInv'
<1>1. serial' = serial
  BY CountsStep
<1>2. CASE serial
  <2>1. \A r \in Procs : r # p => proc'[r].pc = "idle"
    BY <1>2, OthersIdle DEF Idle
  <2> QED
    BY <2>1 DEF AloneInv, Working, At
<1> QED
  BY <1>1, <1>2 DEF AloneInv

\* Where a step leaves the directory of a job.
LEMMA DirStep ==
  ASSUME TypeOK, NEW p \in Procs, Acts(p)
  PROVE  \/ proc'[p].dir \in {Current, proc[p].dir} \cup DOMAIN versions
         \/ (Copy(p) \/ CopyFails(p)) /\ proc'[p].dir = now
<1>1. Before \cup After \cup {"idle"} \subseteq Steps
  BY DEF Steps
<1>2. CASE BeginUpload(p) \/ BeginDeploy(p)
  <2>1. PICK pc \in {"extract", "check"} : proc' = [proc EXCEPT ![p] = [Idle EXCEPT !.pc = pc]]
    BY <1>2 DEF BeginUpload, BeginDeploy
  <2> QED
    BY <2>1, OwnJob DEF Idle
<1>3. CASE BeginGit(p)
  <2> DEFINE j == [Idle EXCEPT !.pc = "clone", !.kind = "git", !.row = Len(rows) + 1]
  <2>1. j.dir = Current
    BY DEF Idle
  <2>2. proc' = [proc EXCEPT ![p] = j]
    BY <1>3 DEF BeginGit
  <2> HIDE DEF j
  <2> QED
    BY <2>1, <2>2, OwnJob
<1>4. CASE \E d \in 1 .. Len(rows) : BeginRollback(p, d)
  <2>1. PICK d \in 1 .. Len(rows) : BeginRollback(p, d)
    BY <1>4
  <2> DEFINE j == [pc |-> "send", kind |-> "rollback", dir |-> BuildDirOf(d), row |-> d, code |-> {}]
  <2>2. proc' = [proc EXCEPT ![p] = j] /\ j.dir = BuildDirOf(d)
    BY <2>1 DEF BeginRollback
  <2> HIDE DEF j
  <2>3. proc'[p].dir = BuildDirOf(d)
    BY <2>2, OwnJob
  <2> QED
    BY <2>3 DEF BuildDirOf
<1>5. CASE Ends(p)
  <2>1. proc'[p] = Idle
    BY <1>5, OwnJob DEF Ends
  <2> QED
    BY <2>1 DEF Idle
<1>6. CASE \E pc \in Before \cup After : Go(p, pc)
  BY <1>6, <1>1, Went
<1>7. CASE Clone(p)
  <2> DEFINE code == {head}
  <2>1. code \in SUBSET Code /\ proc' = [proc EXCEPT ![p].pc = "empty", ![p].code = code]
    BY <1>7 DEF Clone, TypeOK
  <2> HIDE DEF code
  <2> QED
    BY <1>1, <2>1, WentWithCode DEF Before
<1>8. CASE Send(p)
  <2> DEFINE code == Content(proc[p].dir)
  <2>1. code \in SUBSET Code /\ proc' = [proc EXCEPT ![p].pc = "build", ![p].code = code]
    BY <1>8, JobTyped, ContentTyped DEF Send
  <2> HIDE DEF code
  <2> QED
    BY <1>1, <2>1, WentWithCode DEF After
<1>9. CASE Copy(p) \/ CopyFails(p)
  <2>1. now \in Paths /\ proc' = [proc EXCEPT ![p].pc = "prune", ![p].dir = now]
    BY <1>9 DEF Copy, CopyFails, TypeOK
  <2>2. proc[p] \in Job /\ DOMAIN proc = Procs
    BY JobTyped
  <2>3. proc'[p].dir = now
    BY <2>1, <2>2 DEF Job
  <2> QED
    BY <1>9, <2>3
<1>10. \/ BeginUpload(p) \/ BeginDeploy(p) \/ BeginGit(p) \/ (\E d \in 1 .. Len(rows) : BeginRollback(p, d))
      \/ Ends(p) \/ (\E pc \in Before \cup After : Go(p, pc))
      \/ Clone(p) \/ Send(p) \/ Copy(p) \/ CopyFails(p)
  <2>1. ExtractFails(p) \/ Killed(p) \/ Throws(p) \/ BuildFails(p) \/ Succeeds(p) => Ends(p)
    BY DEF ExtractFails, Killed, Throws, GivesUp, BuildFails, Succeeds
  <2>2. Check(p) => Ends(p) \/ Go(p, "send")
    BY DEF Check
  <2>3. Extract(p) \/ GitEmpty(p) \/ GitFill(p) => Go(p, "check") \/ Go(p, "fill") \/ Go(p, "send")
    BY DEF Extract, GitEmpty, GitFill
  <2>4. Builds(p) => Go(p, "copy") \/ Go(p, "record") \/ Go(p, "delete")
    BY DEF Builds
  <2>5. Prune(p) \/ RestoreDelete(p) \/ RestoreCopy(p) => Go(p, "record") \/ Go(p, "restore")
    BY DEF Prune, RestoreDelete, RestoreCopy
  <2>6. {"send", "check", "fill", "copy", "record", "delete", "restore"} \subseteq Before \cup After
    BY DEF Before, After
  <2> QED
    BY <2>1, <2>2, <2>3, <2>4, <2>5, <2>6 DEF Acts, Step
<1> QED
  BY <1>2, <1>3, <1>4, <1>5, <1>6, <1>7, <1>8, <1>9, <1>10

\* A snapshot once written to stays so; only a copy writes to one.
LEMMA WritersStep ==
  ASSUME TypeOK, NEW p \in Procs, Acts(p)
  PROVE  \/ ~ (Copy(p) \/ CopyFails(p)) /\ writers' = writers /\ DOMAIN versions' \subseteq DOMAIN versions
         \/ /\ Copy(p) \/ CopyFails(p)
            /\ DOMAIN versions' = DOMAIN versions \cup {now}
            /\ writers'[now] = IF writers[now] = 0 THEN 1 ELSE 2
            /\ \A s \in Paths : s # now => writers'[s] = writers[s]
<1>1. CASE Copy(p) \/ CopyFails(p)
  <2>1. PICK content \in SUBSET Code : CopyOf(content)
    <3>1. build \in SUBSET Code /\ {} \in SUBSET Code /\ {Broken} \in SUBSET Code
      BY DEF TypeOK, Code, Broken
    <3> QED
      BY <1>1, <3>1 DEF Copy, CopyFails
  <2> QED
    BY <1>1, <2>1, Copied
<1>2. CASE BeginUpload(p) \/ GitEmpty(p) \/ RestoreDelete(p)
  <2>1. ~ (Copy(p) \/ CopyFails(p))
    BY <1>2 DEF BeginUpload, GitEmpty, RestoreDelete, MayBegin, Copy, CopyFails, At
  <2> QED
    BY <1>2, <2>1, Deleted DEF BeginUpload, GitEmpty, RestoreDelete
<1>3. CASE Prune(p)
  <2>1. ~ (Copy(p) \/ CopyFails(p))
    BY <1>3 DEF Prune, Copy, CopyFails, At
  <2> QED
    BY <1>3, <2>1, Pruned DEF Prune
<1>4. CASE ~ (\/ Copy(p) \/ CopyFails(p) \/ BeginUpload(p) \/ GitEmpty(p) \/ RestoreDelete(p) \/ Prune(p))
  <2>1. BeginDeploy(p) \/ BeginGit(p) \/ (\E d \in 1 .. Len(rows) : BeginRollback(p, d)) \/ ExtractFails(p)
        \/ Killed(p) => versions' = versions /\ writers' = writers
    BY DEF BeginDeploy, BeginGit, BeginRollback, ExtractFails, Killed, files
  <2>2. Step(p) => versions' = versions /\ writers' = writers
    BY <1>4 DEF Step, Extract, Check, Clone, GitFill, Send, Throws, Builds, BuildFails, RestoreCopy, Succeeds, files
  <2> QED
    BY <1>4, <2>1, <2>2 DEF Acts
<1> QED
  BY <1>1, <1>2, <1>3, <1>4

LEMMA NamedStep ==
  ASSUME TypeOK, JobsOK, NamedInv, NEW p \in Procs, Acts(p)
  PROVE  NamedInv'
<1>1. \A s \in Paths : writers[s] # 0 => writers'[s] # 0
  BY WritersStep
<1>2. Copy(p) \/ CopyFails(p) => writers'[now] # 0
  BY WritersStep
<1>3. /\ DOMAIN versions \subseteq Paths /\ now \in Paths
      /\ \A d \in 1 .. Len(rows) : rows[d].path \in Paths
      /\ \A r \in Procs : proc[r].dir \in Paths
  BY RowTyped, JobTyped DEF TypeOK, Row
<1>4. \A s \in DOMAIN versions' : writers'[s] # 0
  <2>1. \A s \in DOMAIN versions' : s \in DOMAIN versions \/ (s = now /\ (Copy(p) \/ CopyFails(p)))
    BY WritersStep
  <2> QED
    BY <1>1, <1>2, <1>3, <2>1 DEF NamedInv
<1>5. \A d \in 1 .. Len(rows') : rows'[d].path # Current => writers'[rows'[d].path] # 0
  <2> TAKE d \in 1 .. Len(rows')
  <2>1. CASE OldRow(d)
    BY <1>1, <1>3, <2>1 DEF OldRow, NamedInv
  <2>2. CASE GitRow(p, d)
    BY <2>2 DEF GitRow
  <2>3. CASE OutcomeRow(p, d)
    BY <1>1, <1>3, <2>3 DEF OutcomeRow, NamedInv
  <2> QED
    BY <2>1, <2>2, <2>3, TableStep
<1>6. \A r \in Procs : proc'[r].dir # Current => writers'[proc'[r].dir] # 0
  <2>1. \A r \in Procs : r # p => proc'[r] = proc[r]
    BY MovesStep, OwnJob DEF Moves
  <2>2. proc'[p].dir # Current => writers'[proc'[p].dir] # 0
    BY <1>1, <1>2, <1>3, DirStep DEF NamedInv
  <2> QED
    BY <1>1, <1>3, <2>1, <2>2 DEF NamedInv
<1> QED
  BY <1>4, <1>5, <1>6 DEF NamedInv

\* Only a redeploy changes the VM.
LEMMA VmChanges ==
  ASSUME NEW p \in Procs, Acts(p)
  PROVE  vm' = vm \/ (At(p, "send") /\ Exists(proc[p].dir) /\ vm' = Content(proc[p].dir))
<1>1. BeginUpload(p) \/ BeginDeploy(p) \/ BeginGit(p) \/ (\E d \in 1 .. Len(rows) : BeginRollback(p, d))
      \/ ExtractFails(p) \/ Killed(p) => vm' = vm
  BY DEF BeginUpload, BeginDeploy, BeginGit, BeginRollback, ExtractFails, Killed
<1>2. Extract(p) \/ Check(p) \/ Clone(p) \/ GitEmpty(p) \/ GitFill(p) \/ Builds(p) \/ BuildFails(p)
      \/ Copy(p) \/ CopyFails(p) \/ Prune(p) \/ RestoreDelete(p) \/ RestoreCopy(p) \/ Succeeds(p) => vm' = vm
  BY DEF Extract, Check, Clone, GitEmpty, GitFill, Builds, BuildFails, Copy, CopyFails, Prune, RestoreDelete,
         RestoreCopy, Succeeds
<1>3. CASE Send(p)
  BY <1>3 DEF Send
<1>4. CASE Throws(p)
  BY <1>4 DEF Throws
<1> QED
  BY <1>1, <1>2, <1>3, <1>4 DEF Acts, Step

\* A process that goes on after its redeploy keeps kind, row and code.
LEMMA SentGoesOn ==
  ASSUME TypeOK, JobsOK, NEW p \in Procs, Acts(p), Sent(p)
  PROVE  \/ Ends(p)
         \/ /\ proc'[p].kind = proc[p].kind /\ proc'[p].row = proc[p].row /\ proc'[p].code = proc[p].code
            /\ proc'[p].pc \in After \ {"build"} /\ vm' = vm /\ rows' = rows
            /\ Builds(p) \/ proc'[p].pc # "copy"
<1>1. proc[p].pc \in After /\ Fits(proc[p], Len(rows))
  BY DEF Sent, JobsOK
<1>2. After \subseteq Steps /\ "idle" \notin After
  BY DEF Steps, After
<1>3. CASE Throws(p) \/ BuildFails(p) \/ Succeeds(p) \/ Killed(p) \/ ExtractFails(p)
  BY <1>3 DEF Throws, GivesUp, BuildFails, Succeeds, Killed, ExtractFails
<1>4. CASE Builds(p) \/ Prune(p) \/ RestoreDelete(p) \/ RestoreCopy(p)
  <2>1. PICK pc \in After \ {"build"} : Go(p, pc) /\ (Builds(p) \/ pc # "copy")
    BY <1>4 DEF Builds, Prune, RestoreDelete, RestoreCopy, After
  <2>2. vm' = vm /\ rows' = rows
    BY <1>4 DEF Builds, Prune, RestoreDelete, RestoreCopy
  <2> QED
    BY <1>2, <2>1, <2>2, Went
<1>5. CASE Copy(p) \/ CopyFails(p)
  <2>1. /\ proc' = [proc EXCEPT ![p].pc = "prune", ![p].dir = now]
        /\ rows' = rows /\ vm' = vm /\ now \in Paths
    BY <1>5 DEF Copy, CopyFails, TypeOK
  <2>2. proc[p] \in Job /\ DOMAIN proc = Procs
    BY JobTyped
  <2>3. /\ proc'[p].pc = "prune" /\ proc'[p].kind = proc[p].kind /\ proc'[p].row = proc[p].row
        /\ proc'[p].code = proc[p].code
    BY <2>1, <2>2 DEF Job
  <2> QED
    BY <2>1, <2>3 DEF After
<1>6. Throws(p) \/ BuildFails(p) \/ Succeeds(p) \/ Killed(p) \/ ExtractFails(p)
      \/ Builds(p) \/ Prune(p) \/ RestoreDelete(p) \/ RestoreCopy(p) \/ Copy(p) \/ CopyFails(p)
  <2>1. ~ (BeginUpload(p) \/ BeginDeploy(p) \/ BeginGit(p) \/ (\E d \in 1 .. Len(rows) : BeginRollback(p, d)))
    BY <1>1 DEF BeginUpload, BeginDeploy, BeginGit, BeginRollback, MayBegin, At, After
  <2>2. ~ (Extract(p) \/ Check(p) \/ Clone(p) \/ GitEmpty(p) \/ GitFill(p) \/ Send(p))
    BY <1>1 DEF Extract, Check, Clone, GitEmpty, GitFill, Send, At, After
  <2> QED
    BY <2>1, <2>2 DEF Acts, Step
<1> QED
  BY <1>3, <1>4, <1>5, <1>6

\* A process comes to its redeploy from one of three places.
LEMMA ReadyToSend ==
  ASSUME TypeOK, JobsOK, NEW p \in Procs, Acts(p), At(p, "send")'
  PROVE  \/ Check(p) /\ (build # {} \/ SomeSnapshot) /\ proc'[p].dir = Current
         \/ GitFill(p) /\ proc[p].code # {} /\ proc'[p].dir = Current
         \/ \E d \in 1 .. Len(rows) : BeginRollback(p, d) /\ proc'[p].dir = BuildDirOf(d)
<1>1. proc'[p].pc = "send" /\ Fits(proc[p], Len(rows))
  BY DEF At, JobsOK
<1>2. Before \cup After \subseteq Steps
  BY DEF Steps
<1>3. CASE Ends(p)
  <2>1. proc'[p] = Idle
    BY <1>3, OwnJob DEF Ends
  <2> QED
    BY <1>1, <2>1 DEF Idle
<1>4. CASE Check(p) /\ ~ Ends(p)
  <2>1. Go(p, "send") /\ (build # {} \/ SomeSnapshot) /\ proc[p].pc = "check"
    BY <1>4 DEF Check, At
  <2>2. proc'[p].dir = proc[p].dir
    BY <1>2, <2>1, Went DEF Before
  <2> QED
    BY <1>4, <1>1, <2>1, <2>2 DEF Fits, Before
<1>5. CASE GitFill(p)
  <2>1. Go(p, "send") /\ proc[p].pc = "fill"
    BY <1>5 DEF GitFill, At
  <2>2. proc'[p].dir = proc[p].dir
    BY <1>2, <2>1, Went DEF Before
  <2> QED
    BY <1>5, <1>1, <2>1, <2>2 DEF Fits, Before
<1>6. CASE \E d \in 1 .. Len(rows) : BeginRollback(p, d)
  <2>1. PICK d \in 1 .. Len(rows) : BeginRollback(p, d)
    BY <1>6
  <2> DEFINE j == [pc |-> "send", kind |-> "rollback", dir |-> BuildDirOf(d), row |-> d, code |-> {}]
  <2>2. proc' = [proc EXCEPT ![p] = j] /\ j.dir = BuildDirOf(d)
    BY <2>1 DEF BeginRollback
  <2> HIDE DEF j
  <2>3. proc'[p].dir = BuildDirOf(d)
    BY <2>2, OwnJob
  <2> QED
    BY <2>1, <2>3
<1>7. CASE Sent(p) /\ ~ Ends(p)
  BY <1>7, <1>1, SentGoesOn DEF After
<1>8. ~ (BeginUpload(p) \/ BeginDeploy(p) \/ BeginGit(p))
  <2>1. CASE BeginUpload(p) \/ BeginDeploy(p)
    <3>1. PICK pc \in {"extract", "check"} : proc' = [proc EXCEPT ![p] = [Idle EXCEPT !.pc = pc]]
      BY <2>1 DEF BeginUpload, BeginDeploy
    <3> DEFINE j == [Idle EXCEPT !.pc = pc]
    <3>2. proc' = [proc EXCEPT ![p] = j] /\ j.pc = pc
      BY <3>1 DEF Idle
    <3> HIDE DEF j
    <3> QED
      BY <1>1, <3>2, OwnJob
  <2>2. CASE BeginGit(p)
    <3> DEFINE j == [Idle EXCEPT !.pc = "clone", !.kind = "git", !.row = Len(rows) + 1]
    <3>1. proc' = [proc EXCEPT ![p] = j] /\ j.pc = "clone"
      BY <2>2 DEF BeginGit, Idle
    <3> HIDE DEF j
    <3> QED
      BY <1>1, <3>1, OwnJob
  <2> QED
    BY <2>1, <2>2
<1>9. ~ (Extract(p) \/ GitEmpty(p))
  BY <1>1, <1>2, Went DEF Extract, GitEmpty, Before
<1>10. ~ Clone(p)
  <2>1. ASSUME Clone(p) PROVE FALSE
    <3> DEFINE code == {head}
    <3>1. code \in SUBSET Code /\ proc' = [proc EXCEPT ![p].pc = "empty", ![p].code = code]
      BY <2>1 DEF Clone, TypeOK
    <3> HIDE DEF code
    <3>2. proc'[p].pc = "empty"
      BY <1>2, <3>1, WentWithCode DEF Before
    <3> QED
      BY <1>1, <3>2
  <2> QED
    BY <2>1
<1>11. ~ Send(p)
  <2>1. ASSUME Send(p) PROVE FALSE
    <3> DEFINE code == Content(proc[p].dir)
    <3>1. code \in SUBSET Code /\ proc' = [proc EXCEPT ![p].pc = "build", ![p].code = code]
      BY <2>1, JobTyped, ContentTyped DEF Send
    <3> HIDE DEF code
    <3>2. proc'[p].pc = "build"
      BY <1>2, <3>1, WentWithCode DEF After
    <3> QED
      BY <1>1, <3>2
  <2> QED
    BY <2>1
<1>12. ExtractFails(p) \/ Killed(p) \/ Throws(p) \/ BuildFails(p) \/ Succeeds(p) => Ends(p)
  BY DEF ExtractFails, Killed, Throws, GivesUp, BuildFails, Succeeds
<1>13. Builds(p) \/ Copy(p) \/ CopyFails(p) \/ Prune(p) \/ RestoreDelete(p) \/ RestoreCopy(p) => Sent(p)
  BY DEF Builds, Copy, CopyFails, Prune, RestoreDelete, RestoreCopy, At, Sent, After
<1> QED
  BY <1>3, <1>4, <1>5, <1>6, <1>7, <1>8, <1>9, <1>10, <1>11, <1>12, <1>13 DEF Acts, Step

\* A process that has just redeployed.
LEMMA JustSent ==
  ASSUME TypeOK, JobsOK, NEW p \in Procs, Acts(p), Sent(p)', ~ Sent(p)
  PROVE  /\ Send(p) /\ proc'[p].pc = "build" /\ proc'[p].code = Content(proc[p].dir)
         /\ proc'[p].kind = proc[p].kind /\ proc'[p].dir = proc[p].dir
<1>1. proc'[p].pc \in After
  BY DEF Sent
<1>2. Before \cup After \subseteq Steps
  BY DEF Steps
<1>3. CASE Send(p)
  <2> DEFINE code == Content(proc[p].dir)
  <2>1. code \in SUBSET Code /\ proc' = [proc EXCEPT ![p].pc = "build", ![p].code = code]
    BY <1>3, JobTyped, ContentTyped DEF Send
  <2>2. proc[p] \in Job /\ DOMAIN proc = Procs
    BY JobTyped
  <2> HIDE DEF code
  <2>3. /\ proc'[p].pc = "build" /\ proc'[p].code = code /\ proc'[p].kind = proc[p].kind
        /\ proc'[p].dir = proc[p].dir
    BY <2>1, <2>2 DEF Job
  <2> QED
    BY <1>3, <2>3 DEF code
<1>4. ~ Ends(p)
  <2>1. ASSUME Ends(p) PROVE FALSE
    <3>1. proc'[p] = Idle
      BY <2>1, OwnJob DEF Ends
    <3> QED
      BY <1>1, <3>1 DEF Idle, After
  <2> QED
    BY <2>1
<1>5. ~ (Starts(proc[p], proc'[p]))
  BY <1>1 DEF Starts, Before, After
<1>6. ~ (BeginUpload(p) \/ BeginDeploy(p) \/ BeginGit(p) \/ (\E d \in 1 .. Len(rows) : BeginRollback(p, d)))
  <2>1. BeginUpload(p) \/ BeginDeploy(p) \/ BeginGit(p) \/ (\E d \in 1 .. Len(rows) : BeginRollback(p, d))
        => proc[p].pc = "idle"
    BY DEF BeginUpload, BeginDeploy, BeginGit, BeginRollback, MayBegin, At
  <2>2. proc[p].pc = "idle" => Starts(proc[p], proc'[p])
    BY MovesStep DEF Moves, Stops, Goes
  <2> QED
    BY <1>5, <2>1, <2>2
<1>7. ~ (Check(p) \/ Extract(p) \/ GitEmpty(p) \/ GitFill(p))
  <2>1. Check(p) \/ Extract(p) \/ GitEmpty(p) \/ GitFill(p) => \E pc \in Before : Go(p, pc)
    BY <1>4 DEF Check, Extract, GitEmpty, GitFill, Before
  <2>2. \A pc \in Before : Go(p, pc) => proc'[p].pc \in Before
    BY <1>2, Went
  <2> QED
    BY <1>1, <2>1, <2>2 DEF Before, After
<1>8. ~ Clone(p)
  <2>1. ASSUME Clone(p) PROVE FALSE
    <3> DEFINE code == {head}
    <3>1. code \in SUBSET Code /\ proc' = [proc EXCEPT ![p].pc = "empty", ![p].code = code]
      BY <2>1 DEF Clone, TypeOK
    <3> HIDE DEF code
    <3>2. proc'[p].pc = "empty"
      BY <1>2, <3>1, WentWithCode DEF Before
    <3> QED
      BY <1>1, <3>2 DEF After
  <2> QED
    BY <2>1
<1>9. ExtractFails(p) \/ Killed(p) \/ Throws(p) \/ BuildFails(p) \/ Succeeds(p) => Ends(p)
  BY DEF ExtractFails, Killed, Throws, GivesUp, BuildFails, Succeeds
<1>10. Builds(p) \/ Copy(p) \/ CopyFails(p) \/ Prune(p) \/ RestoreDelete(p) \/ RestoreCopy(p) => Sent(p)
  BY DEF Builds, Copy, CopyFails, Prune, RestoreDelete, RestoreCopy, At, Sent, After
<1> QED
  BY <1>3, <1>4, <1>6, <1>7, <1>8, <1>9, <1>10 DEF Acts, Step

(***************************************************************************)
(* What is sent is what was there.                                         *)
(***************************************************************************)
LEMMA FilledStep ==
  ASSUME TypeOK, TypeOK', JobsOK, AloneInv, FilledInv, NEW p \in Procs, Acts(p)
  PROVE  FilledInv'
<1>1. serial' = serial
  BY CountsStep
<1> SUFFICES ASSUME serial PROVE \A r \in Procs : FilledJob(r)'
  BY <1>1 DEF FilledInv
<1>2. FilledJob(p)
  BY DEF FilledInv
<1>3. Fits(proc[p], Len(rows))
  BY DEF JobsOK
<1>4. build # {} \/ SomeSnapshot => present
  BY DEF TypeOK, SomeSnapshot
<1>5. At(p, "send")' => Exists(proc[p].dir)' /\ (Content(proc[p].dir)' # {} \/ SomeSnapshot')
  <2> SUFFICES ASSUME At(p, "send")' PROVE Exists(proc[p].dir)' /\ (Content(proc[p].dir)' # {} \/ SomeSnapshot')
    OBVIOUS
  <2>1. CASE Check(p) /\ (build # {} \/ SomeSnapshot) /\ proc'[p].dir = Current
    <3>1. build' = build /\ versions' = versions /\ present' = present
      BY <2>1 DEF Check, files
    <3>2. present' /\ (build' # {} \/ SomeSnapshot')
      BY <1>4, <2>1, <3>1 DEF SomeSnapshot
    <3> QED
      BY <2>1, <3>2 DEF Content, Exists
  <2>2. CASE GitFill(p) /\ proc[p].code # {} /\ proc'[p].dir = Current
    <3>1. build' # {} /\ present'
      BY <2>2 DEF GitFill
    <3> QED
      BY <2>2, <3>1 DEF Content, Exists
  <2>3. CASE \E d \in 1 .. Len(rows) : BeginRollback(p, d) /\ proc'[p].dir = BuildDirOf(d)
    <3>1. PICK d \in 1 .. Len(rows) : BeginRollback(p, d) /\ proc'[p].dir = BuildDirOf(d)
      BY <2>3
    <3>2. HasFiles(BuildDirOf(d)) /\ build' = build /\ present' = present /\ versions' = versions
      BY <3>1 DEF BeginRollback, files
    <3>3. CASE BuildDirOf(d) = Current
      <4>1. present' /\ (build' # {} \/ SomeSnapshot')
        BY <1>4, <3>2, <3>3 DEF HasFiles, SomeSnapshot
      <4> QED
        BY <3>1, <3>3, <4>1 DEF Content, Exists
    <3>4. CASE BuildDirOf(d) # Current
      <4>1. BuildDirOf(d) \in DOMAIN versions
        BY <3>4 DEF BuildDirOf
      <4> QED
        BY <3>1, <3>2, <3>4, <4>1 DEF HasFiles, Content, Exists
    <3> QED
      BY <3>3, <3>4
  <2> QED
    BY <2>1, <2>2, <2>3, ReadyToSend
<1>6. Sent(p)' => vm' = proc'[p].code
  <2>1. CASE Sent(p)
    <3>1. CASE Ends(p)
      <4>1. proc'[p] = Idle
        BY <3>1, OwnJob DEF Ends
      <4> QED
        BY <4>1 DEF Sent, Idle, After
    <3>2. CASE ~ Ends(p)
      BY <1>2, <2>1, <3>2, SentGoesOn DEF FilledJob
    <3> QED
      BY <3>1, <3>2
  <2>2. CASE ~ Sent(p)
    BY <1>2, <2>2, JustSent DEF FilledJob, Send
  <2> QED
    BY <2>1, <2>2
<1>7. proc'[p].pc \in {"build", "copy"} /\ proc'[p].kind # "rollback" => build' = proc'[p].code
  <2> SUFFICES ASSUME proc'[p].pc \in {"build", "copy"}, proc'[p].kind # "rollback"
               PROVE  build' = proc'[p].code
    OBVIOUS
  <2>1. Sent(p)'
    BY DEF Sent, After
  <2>2. CASE Sent(p)
    <3>1. ~ Ends(p)
      <4>1. ASSUME Ends(p) PROVE FALSE
        <5>1. proc'[p] = Idle
          BY <4>1, OwnJob DEF Ends
        <5> QED
          BY <5>1 DEF Idle
      <4> QED
        BY <4>1
    <3>2. Builds(p) /\ proc'[p].code = proc[p].code /\ proc'[p].kind = proc[p].kind
      BY <2>2, <3>1, SentGoesOn
    <3>3. proc[p].pc = "build" /\ build' = build
      BY <3>2 DEF Builds, At, files
    <3> QED
      BY <1>2, <3>2, <3>3 DEF FilledJob
  <2>3. CASE ~ Sent(p)
    <3>1. /\ Send(p) /\ proc'[p].code = Content(proc[p].dir) /\ proc'[p].kind = proc[p].kind
      BY <2>1, <2>3, JustSent
    <3>2. proc[p].dir = Current /\ build' = build
      BY <1>3, <3>1 DEF Send, At, Fits, Before, files
    <3> QED
      BY <3>1, <3>2 DEF Content
  <2> QED
    BY <2>2, <2>3
<1>8. FilledJob(p)'
  BY <1>5, <1>6, <1>7 DEF FilledJob
<1>9. ASSUME NEW r \in Procs, r # p PROVE FilledJob(r)'
  <2>1. proc'[r] = Idle
    BY <1>9, OthersIdle
  <2> QED
    BY <2>1 DEF FilledJob, At, Sent, After, Idle
<1> QED
  BY <1>8, <1>9

(***************************************************************************)
(* Snapshots hold what was deployed.                                       *)
(***************************************************************************)
LEMMA SnapStep ==
  ASSUME TypeOK, TypeOK', JobsOK, AloneInv, NamedInv, FilledInv, SnapInv, NEW p \in Procs, Acts(p)
  PROVE  SnapInv'
<1>1. serial' = serial
  BY CountsStep
<1>2. copyFaults' = 0 => copyFaults = 0 /\ ~ CopyFails(p)
  <2>1. copyFaults \in Nat
    BY DEF TypeOK
  <2>2. ExtractFails(p) \/ Killed(p) \/ Throws(p) => copyFaults' = copyFaults
    BY DEF ExtractFails, Killed, Throws, Fault, counts
  <2>3. BeginUpload(p) \/ BeginDeploy(p) \/ BeginGit(p) \/ (\E d \in 1 .. Len(rows) : BeginRollback(p, d))
        => copyFaults' = copyFaults
    BY DEF BeginUpload, BeginDeploy, BeginGit, BeginRollback, counts
  <2>4. CopyFails(p) => copyFaults' = copyFaults + 1
    BY DEF CopyFails
  <2>5. Step(p) => copyFaults' = copyFaults \/ CopyFails(p)
    BY <2>2 DEF Step, Extract, Check, Clone, GitEmpty, GitFill, Send, Builds, BuildFails, Copy,
                Prune, RestoreDelete, RestoreCopy, Succeeds, counts
  <2> QED
    BY <2>1, <2>2, <2>3, <2>4, <2>5 DEF Acts
<1> SUFFICES ASSUME serial, copyFaults' = 0
             PROVE  SnapshotAsDeployed' /\ \A r \in Procs : SnapJob(r)'
  BY <1>1 DEF SnapInv
<1>3. SnapJob(p) /\ FilledJob(p) /\ ~ CopyFails(p)
      /\ \A d \in 1 .. Len(rows) :
           rows[d].status = "succeeded" /\ rows[d].path \in DOMAIN versions /\ writers[rows[d].path] = 1
             => versions[rows[d].path] = rows[d].code
  BY <1>2 DEF SnapInv, FilledInv, SnapshotAsDeployed
<1>4. Fits(proc[p], Len(rows)) /\ Current \notin DOMAIN versions
  BY DEF JobsOK, TypeOK
<1>5. /\ now \in Paths \ {Current} /\ DOMAIN versions \subseteq Paths
      /\ \A s \in DOMAIN versions : writers[s] # 0
      /\ \A d \in 1 .. Len(rows) : rows[d].path \in Paths /\ (rows[d].path # Current => writers[rows[d].path] # 0)
  BY RowTyped DEF TypeOK, Row, NamedInv
\* The snapshots written to at most once that are there after the step are as
\* they were, but for a new one.
<1>6. \/ /\ ~ Copy(p) /\ DOMAIN versions' \subseteq DOMAIN versions /\ writers' = writers
         /\ \A s \in DOMAIN versions' : versions'[s] = versions[s]
      \/ /\ Copy(p) /\ DOMAIN versions' = DOMAIN versions \cup {now}
         /\ writers'[now] = 1 => now \notin DOMAIN versions /\ versions'[now] = build /\ writers[now] = 0
         /\ \A s \in DOMAIN versions : s # now => versions'[s] = versions[s] /\ writers'[s] = writers[s]
  <2>1. CASE BeginUpload(p) \/ GitEmpty(p) \/ RestoreDelete(p)
    <3>1. ~ Copy(p)
      BY <2>1 DEF BeginUpload, GitEmpty, RestoreDelete, MayBegin, Copy, At
    <3> QED
      BY <2>1, <3>1, Deleted DEF BeginUpload, GitEmpty, RestoreDelete
  <2>2. CASE Copy(p)
    <3>1. CopyOf(build) /\ build \in SUBSET Code
      BY <2>2 DEF Copy, TypeOK
    <3>2. /\ DOMAIN versions' = DOMAIN versions \cup {now}
          /\ now \notin DOMAIN versions => versions'[now] = build
          /\ \A s \in DOMAIN versions : s # now => versions'[s] = versions[s]
          /\ writers'[now] = IF writers[now] = 0 THEN 1 ELSE 2
          /\ \A s \in Paths : s # now => writers'[s] = writers[s]
      BY <3>1, Copied
    <3>3. writers'[now] = 1 => writers[now] = 0
      BY <3>2
    <3> QED
      BY <1>5, <2>2, <3>2, <3>3
  <2>3. CASE Prune(p)
    <3>1. ~ Copy(p)
      BY <2>3 DEF Prune, Copy, At
    <3> QED
      BY <2>3, <3>1, Pruned DEF Prune
  <2>4. CASE ~ (BeginUpload(p) \/ GitEmpty(p) \/ RestoreDelete(p) \/ Copy(p) \/ Prune(p))
    <3>1. BeginDeploy(p) \/ BeginGit(p) \/ (\E d \in 1 .. Len(rows) : BeginRollback(p, d)) \/ ExtractFails(p)
          \/ Killed(p) => versions' = versions /\ writers' = writers
      BY DEF BeginDeploy, BeginGit, BeginRollback, ExtractFails, Killed, files
    <3>2. Extract(p) \/ Check(p) \/ Clone(p) \/ GitFill(p) \/ Send(p) \/ Throws(p) \/ Builds(p)
          \/ BuildFails(p) \/ RestoreCopy(p) \/ Succeeds(p) => versions' = versions /\ writers' = writers
      BY DEF Extract, Check, Clone, GitFill, Send, Throws, Builds, BuildFails, RestoreCopy, Succeeds, files
    <3>3. versions' = versions /\ writers' = writers
      BY <1>3, <2>4, <3>1, <3>2 DEF Acts, Step
    <3> QED
      BY <2>4, <3>3
  <2> QED
    BY <2>1, <2>2, <2>3, <2>4
<1>7. SnapshotAsDeployed'
  <2> SUFFICES ASSUME NEW d \in 1 .. Len(rows'), rows'[d].status = "succeeded", rows'[d].path \in DOMAIN versions',
                      writers'[rows'[d].path] = 1
               PROVE  versions'[rows'[d].path] = rows'[d].code
    BY DEF SnapshotAsDeployed
  <2>1. CASE OldRow(d)
    <3>1. /\ d \in 1 .. Len(rows) /\ rows[d].status = "succeeded"
          /\ rows'[d].path = rows[d].path /\ rows'[d].code = rows[d].code
      BY <2>1 DEF OldRow
    <3>2. /\ rows[d].path \in DOMAIN versions /\ versions'[rows[d].path] = versions[rows[d].path]
          /\ writers[rows[d].path] = 1
      <4>1. CASE Copy(p) /\ rows[d].path = now
        BY <1>5, <1>6, <3>1, <4>1
      <4>2. CASE ~ (Copy(p) /\ rows[d].path = now)
        BY <1>6, <3>1, <4>2
      <4> QED
        BY <4>1, <4>2
    <3> QED
      BY <1>3, <3>1, <3>2
  <2>2. CASE GitRow(p, d)
    BY <2>2 DEF GitRow
  <2>3. CASE OutcomeRow(p, d)
    <3>1. Succeeds(p) /\ rows'[d].path = proc[p].dir /\ rows'[d].code = proc[p].code
      BY <2>3 DEF OutcomeRow
    <3>2. versions' = versions /\ writers' = writers /\ proc[p].pc = "record"
      BY <3>1 DEF Succeeds, files, At
    <3>3. proc[p].kind # "rollback"
      BY <1>3, <3>1, <3>2 DEF SnapJob
    <3> QED
      BY <1>3, <3>1, <3>2, <3>3 DEF SnapJob
  <2> QED
    BY <2>1, <2>2, <2>3, TableStep
<1>8. Before \cup After \cup {"idle"} \subseteq Steps
  BY DEF Steps
<1>9. SnapJob(p)'
  <2>1. CASE ~ Sent(p)'
    BY <2>1 DEF SnapJob, Sent, After
  <2>2. CASE Sent(p)' /\ ~ Sent(p)
    <3>1. Send(p) /\ proc'[p].pc = "build"
      BY <2>2, JustSent
    <3> QED
      BY <3>1 DEF SnapJob
  <2>3. CASE Sent(p)' /\ Sent(p)
    <3>1. ~ Ends(p)
      <4>1. ASSUME Ends(p) PROVE FALSE
        <5>1. proc'[p] = Idle
          BY <4>1, OwnJob DEF Ends
        <5> QED
          BY <2>3, <5>1 DEF Idle, Sent, After
      <4> QED
        BY <4>1
    <3>2. CASE Builds(p)
      <4>1. PICK pc \in {"copy", "record", "delete"} :
              /\ Go(p, pc)
              /\ pc = "copy" <=> proc[p].kind # "rollback"
              /\ pc = "record" => proc[p].dir = Current
        BY <3>2 DEF Builds
      <4>2. proc'[p].pc = pc /\ proc'[p].kind = proc[p].kind /\ proc'[p].dir = proc[p].dir
        BY <1>8, <4>1, Went DEF After
      <4>3. versions' = versions /\ writers' = writers
        BY <3>2 DEF Builds, files
      <4>4. CASE pc = "copy"
        BY <4>2, <4>4 DEF SnapJob
      <4>5. CASE pc = "record"
        BY <1>4, <4>1, <4>2, <4>3, <4>5 DEF SnapJob
      <4>6. CASE pc = "delete"
        BY <4>2, <4>6 DEF SnapJob
      <4> QED
        BY <4>4, <4>5, <4>6
    <3>3. CASE Copy(p)
      <4>1. /\ proc' = [proc EXCEPT ![p].pc = "prune", ![p].dir = now]
            /\ proc[p].pc = "copy" /\ proc[p] \in Job /\ DOMAIN proc = Procs
        BY <3>3, JobTyped DEF Copy, At
      <4>2. /\ proc'[p].pc = "prune" /\ proc'[p].dir = now /\ proc'[p].code = proc[p].code
            /\ proc'[p].kind = proc[p].kind
        BY <4>1 DEF Job
      <4>3. build = proc[p].code /\ proc[p].kind # "rollback"
        BY <1>3, <1>4, <4>1 DEF FilledJob, Fits
      <4>4. writers'[now] = 1 => versions'[now] = build
        BY <1>6, <3>3
      <4> QED
        BY <4>2, <4>3, <4>4 DEF SnapJob
    <3>4. CASE Prune(p)
      <4>1. Go(p, "record") /\ proc[p].pc = "prune"
        BY <3>4 DEF Prune, At
      <4>2. /\ proc'[p].pc = "record" /\ proc'[p].kind = proc[p].kind /\ proc'[p].dir = proc[p].dir
            /\ proc'[p].code = proc[p].code
        BY <1>8, <4>1, Went DEF After
      <4>3. proc[p].kind # "rollback"
        BY <1>4, <4>1 DEF Fits
      <4>4. /\ DOMAIN versions' \subseteq DOMAIN versions /\ writers' = writers
            /\ \A s \in DOMAIN versions' : versions'[s] = versions[s]
        BY <3>4, Pruned DEF Prune
      <4> QED
        BY <1>3, <4>1, <4>2, <4>3, <4>4 DEF SnapJob
    <3>5. CASE RestoreDelete(p)
      <4>1. DOMAIN versions' = {} /\ Go(p, "restore")
        BY <3>5, Deleted DEF RestoreDelete
      <4>2. proc'[p].pc = "restore"
        BY <1>8, <4>1, Went DEF After
      <4> QED
        BY <4>1, <4>2 DEF SnapJob
    <3>6. CASE RestoreCopy(p)
      <4>1. Go(p, "record") /\ proc[p].pc = "restore" /\ versions' = versions /\ writers' = writers
        BY <3>6 DEF RestoreCopy, At
      <4>2. /\ proc'[p].pc = "record" /\ proc'[p].kind = proc[p].kind /\ proc'[p].dir = proc[p].dir
        BY <1>8, <4>1, Went DEF After
      <4>3. proc[p].kind = "rollback"
        BY <1>4, <4>1 DEF Fits
      <4> QED
        BY <1>3, <4>1, <4>2, <4>3 DEF SnapJob
    <3>7. Builds(p) \/ Copy(p) \/ Prune(p) \/ RestoreDelete(p) \/ RestoreCopy(p)
      <4>1. ExtractFails(p) \/ Killed(p) \/ Throws(p) \/ BuildFails(p) \/ Succeeds(p) => Ends(p)
        BY DEF ExtractFails, Killed, Throws, GivesUp, BuildFails, Succeeds
      <4>2. ~ (BeginUpload(p) \/ BeginDeploy(p) \/ BeginGit(p) \/ (\E d \in 1 .. Len(rows) : BeginRollback(p, d)))
        BY <2>3 DEF BeginUpload, BeginDeploy, BeginGit, BeginRollback, MayBegin, At, Sent, After
      <4>3. ~ (Extract(p) \/ Check(p) \/ Clone(p) \/ GitEmpty(p) \/ GitFill(p) \/ Send(p))
        BY <2>3 DEF Extract, Check, Clone, GitEmpty, GitFill, Send, At, Sent, After
      <4> QED
        BY <1>3, <3>1, <4>1, <4>2, <4>3 DEF Acts, Step
    <3> QED
      BY <3>2, <3>3, <3>4, <3>5, <3>6, <3>7
  <2> QED
    BY <2>1, <2>2, <2>3
<1>10. ASSUME NEW r \in Procs, r # p PROVE SnapJob(r)'
  <2>1. proc'[r] = Idle
    BY <1>10, OthersIdle
  <2> QED
    BY <2>1 DEF SnapJob, Idle
<1> QED
  BY <1>7, <1>9, <1>10

(***************************************************************************)
(* The VM runs what the table says.                                        *)
(***************************************************************************)
\* Where nothing new was recorded the last row that reached the VM is the same.
LEMMA LastRowStays ==
  ASSUME TypeOK, LastRow, vm' = vm, Len(rows') \in Nat, Len(rows) <= Len(rows'),
         \A d \in 1 .. Len(rows) : OldRow(d),
         \A d \in 1 .. Len(rows') : d \in 1 .. Len(rows) \/ ~ rows'[d].reached
  PROVE  LastRow'
<1>1. Len(rows) \in Nat
  BY DEF TypeOK
<1>2. Reached' = Reached
  BY <1>1 DEF Reached, OldRow
<1>3. \A d \in Reached : rows'[d].code = rows[d].code
  BY DEF Reached, OldRow
<1> QED
  BY <1>2, <1>3 DEF LastRow

LEMMA LastStep ==
  ASSUME TypeOK, TypeOK', JobsOK, AloneInv, FilledInv, LastInv, NEW p \in Procs, Acts(p)
  PROVE  LastInv'
<1>1. serial' = serial
  BY CountsStep
<1> SUFFICES ASSUME serial
             PROVE  /\ \A r \in Procs : LastJob(r)'
                    /\ faults' = 0 /\ kills' = 0 /\ (\A r \in Procs : ~ Sent(r)') => LastRow'
  BY <1>1 DEF LastInv
<1>2. LastJob(p) /\ FilledJob(p) /\ (faults = 0 /\ kills = 0 /\ (\A r \in Procs : ~ Sent(r)) => LastRow)
  BY DEF LastInv, FilledInv
<1>3. Fits(proc[p], Len(rows))
  BY DEF JobsOK
<1>4. rows \in Seq(Row) /\ Len(rows) \in Nat
  BY DEF TypeOK
<1>5. Len(rows') \in {Len(rows), Len(rows) + 1}
  BY JobsStep DEF Followed
<1>6. Len(rows) \in Nat /\ Len(rows') \in Nat /\ Len(rows) <= Len(rows') /\ rows \in Seq(Row)
  BY <1>4, <1>5
<1>7. \A r \in Procs : r # p => proc[r] = Idle /\ proc'[r] = Idle
  BY OthersIdle
<1>8. LastJob(p)'
  <2>1. CASE Starts(proc[p], proc'[p])
    <3>1. CASE BeginGit(p)
      <4> DEFINE row == [status |-> "building", kind |-> "git", path |-> Current, code |-> {},
                     reached |-> FALSE, of |-> 0]
                 j == [Idle EXCEPT !.pc = "clone", !.kind = "git", !.row = Len(rows) + 1]
      <4>1. j.row = Len(rows) + 1
        BY DEF Idle
      <4>2. proc' = [proc EXCEPT ![p] = j] /\ rows' = Append(rows, row)
        BY <3>1 DEF BeginGit
      <4> HIDE DEF row, j
      <4>3. proc'[p].row = Len(rows) + 1
        BY <4>1, <4>2, OwnJob
      <4>4. Len(rows') = Len(rows) + 1
        BY <1>6, <4>2
      <4> QED
        BY <4>3, <4>4 DEF LastJob
    <3>2. CASE BeginUpload(p) \/ BeginDeploy(p)
      <4>1. PICK pc \in {"extract", "check"} : proc' = [proc EXCEPT ![p] = [Idle EXCEPT !.pc = pc]]
        BY <3>2 DEF BeginUpload, BeginDeploy
      <4> DEFINE j == [Idle EXCEPT !.pc = pc]
      <4>2. proc' = [proc EXCEPT ![p] = j] /\ j.kind = "code"
        BY <4>1 DEF Idle
      <4> HIDE DEF j
      <4>3. proc'[p].kind = "code"
        BY <4>2, OwnJob
      <4> QED
        BY <4>3 DEF LastJob
    <3>3. CASE \E d \in 1 .. Len(rows) : BeginRollback(p, d)
      <4>1. PICK d \in 1 .. Len(rows) : BeginRollback(p, d)
        BY <3>3
      <4> DEFINE j == [pc |-> "send", kind |-> "rollback", dir |-> BuildDirOf(d), row |-> d, code |-> {}]
      <4>2. proc' = [proc EXCEPT ![p] = j] /\ j.kind = "rollback"
        BY <4>1 DEF BeginRollback
      <4> HIDE DEF j
      <4>3. proc'[p].kind = "rollback"
        BY <4>2, OwnJob
      <4> QED
        BY <4>3 DEF LastJob
    <3>4. BeginUpload(p) \/ BeginDeploy(p) \/ BeginGit(p) \/ (\E d \in 1 .. Len(rows) : BeginRollback(p, d))
      <4>1. proc[p].pc = "idle"
        BY <2>1 DEF Starts
      <4>2. ~ (ExtractFails(p) \/ Killed(p))
        BY <4>1 DEF ExtractFails, Killed, At
      <4>3. ~ Step(p)
        BY <4>1 DEF Step, Extract, Check, Clone, GitEmpty, GitFill, Send, Throws, Builds, BuildFails, Copy,
                    CopyFails, Prune, RestoreDelete, RestoreCopy, Succeeds, At
      <4> QED
        BY <4>2, <4>3 DEF Acts
    <3> QED
      BY <3>1, <3>2, <3>3, <3>4
  <2>2. CASE Stops(proc[p], proc'[p])
    <3>1. proc'[p].pc = "idle" /\ Fits(proc'[p], Len(rows'))
      BY <2>2, JobsStep DEF Stops, Followed, JobsOK
    <3>2. proc'[p].kind = "code"
      BY <3>1 DEF Fits, Idle
    <3> QED
      BY <3>2 DEF LastJob
  <2>3. CASE Goes(proc[p], proc'[p])
    <3>1. proc'[p].kind = proc[p].kind /\ rows' = rows
      BY <2>3 DEF Goes
    <3>2. proc'[p].row = proc[p].row
      <4>1. Before \cup After \cup {"idle"} \subseteq Steps
        BY DEF Steps
      <4>2. ~ Ends(p)
        <5>1. ASSUME Ends(p) PROVE FALSE
          <6>1. proc'[p] = Idle
            BY <5>1, OwnJob DEF Ends
          <6> QED
            BY <2>3, <6>1 DEF Goes, Idle
        <5> QED
          BY <5>1
      <4>3. CASE Sent(p)
        BY <4>3, <4>2, SentGoesOn
      <4>4. CASE \E pc \in Before : Go(p, pc)
        BY <4>1, <4>4, Went
      <4>5. CASE Clone(p) \/ Send(p)
        <5>1. PICK pc \in Before \cup After : \E code : proc' = [proc EXCEPT ![p].pc = pc, ![p].code = code]
          BY <4>5 DEF Clone, Send, Before, After
        <5>2. PICK code : proc' = [proc EXCEPT ![p].pc = pc, ![p].code = code]
          BY <5>1
        <5>3. proc[p] \in Job /\ DOMAIN proc = Procs
          BY JobTyped
        <5> QED
          BY <5>2, <5>3 DEF Job
      <4>6. Sent(p) \/ (\E pc \in Before : Go(p, pc)) \/ Clone(p) \/ Send(p)
        <5>1. ~ (BeginUpload(p) \/ BeginDeploy(p) \/ BeginGit(p) \/ (\E d \in 1 .. Len(rows) : BeginRollback(p, d)))
          BY <2>3 DEF Goes, BeginUpload, BeginDeploy, BeginGit, BeginRollback, MayBegin, At
        <5>2. ExtractFails(p) \/ Killed(p) \/ Throws(p) => Ends(p)
          BY DEF ExtractFails, Killed, Throws, GivesUp
        <5>3. Extract(p) \/ Check(p) \/ GitEmpty(p) \/ GitFill(p) => \E pc \in Before : Go(p, pc)
          BY <4>2 DEF Extract, Check, GitEmpty, GitFill, Before
        <5>4. Builds(p) \/ BuildFails(p) \/ Copy(p) \/ CopyFails(p) \/ Prune(p) \/ RestoreDelete(p) \/ RestoreCopy(p)
              \/ Succeeds(p) => Sent(p)
          BY DEF Builds, BuildFails, Copy, CopyFails, Prune, RestoreDelete, RestoreCopy, Succeeds, At, Sent, After
        <5> QED
          BY <4>2, <5>1, <5>2, <5>3, <5>4 DEF Acts, Step
      <4> QED
        BY <4>3, <4>4, <4>5, <4>6
    <3> QED
      BY <1>2, <3>1, <3>2 DEF LastJob
  <2> QED
    BY <2>1, <2>2, <2>3, MovesStep DEF Moves
<1>9. ASSUME NEW r \in Procs, r # p PROVE LastJob(r)'
  <2>1. proc'[r].kind = "code"
    BY <1>9, <1>7 DEF Idle
  <2> QED
    BY <2>1 DEF LastJob
<1>10. ASSUME faults' = 0, kills' = 0, \A r \in Procs : ~ Sent(r)' PROVE LastRow'
  <2>1. faults = 0 /\ kills = 0 /\ ~ Killed(p)
    <3>1. faults \in Nat /\ kills \in Nat
      BY DEF TypeOK
    <3>2. faults' = faults \/ faults' = faults + 1
      <4>1. ExtractFails(p) \/ Throws(p) \/ Killed(p) => faults' = faults \/ faults' = faults + 1
        BY DEF ExtractFails, Throws, Killed, Fault, counts
      <4>2. BeginUpload(p) \/ BeginDeploy(p) \/ BeginGit(p) \/ (\E d \in 1 .. Len(rows) : BeginRollback(p, d))
            => faults' = faults
        BY DEF BeginUpload, BeginDeploy, BeginGit, BeginRollback, counts
      <4>3. Step(p) => faults' = faults \/ faults' = faults + 1
        BY <4>1 DEF Step, Extract, Check, Clone, GitEmpty, GitFill, Send, Builds, BuildFails, Copy, CopyFails,
                    Prune, RestoreDelete, RestoreCopy, Succeeds, counts
      <4> QED
        BY <4>1, <4>2, <4>3 DEF Acts
    <3>3. kills' = kills \/ kills' = kills + 1
      <4>1. ExtractFails(p) \/ Throws(p) \/ Killed(p) => kills' = kills \/ kills' = kills + 1
        BY DEF ExtractFails, Throws, Killed, Fault, counts
      <4>2. BeginUpload(p) \/ BeginDeploy(p) \/ BeginGit(p) \/ (\E d \in 1 .. Len(rows) : BeginRollback(p, d))
            => kills' = kills
        BY DEF BeginUpload, BeginDeploy, BeginGit, BeginRollback, counts
      <4>3. Step(p) => kills' = kills \/ kills' = kills + 1
        BY <4>1 DEF Step, Extract, Check, Clone, GitEmpty, GitFill, Send, Builds, BuildFails, Copy, CopyFails,
                    Prune, RestoreDelete, RestoreCopy, Succeeds, counts
      <4> QED
        BY <4>1, <4>2, <4>3 DEF Acts
    <3>4. Killed(p) => kills' = kills + 1
      BY DEF Killed
    <3> QED
      BY <1>10, <3>1, <3>2, <3>3, <3>4
  <2>2. CASE BuildFails(p) \/ Succeeds(p)
    <3>1. Sent(p) /\ vm' = vm
      BY <2>2 DEF BuildFails, Succeeds, At, Sent, After
    <3>2. proc[p].code = vm
      BY <1>2, <3>1 DEF FilledJob
    <3>3. PICK status \in {"failed", "succeeded"} : Record(p, status, proc[p].dir)
      BY <2>2 DEF BuildFails, Succeeds
    <3>4. /\ Landed(p) \in 1 .. Len(rows') /\ rows'[Landed(p)].code = proc[p].code
          /\ rows'[Landed(p)].reached
      BY <3>3, Outcome, JobTyped
    <3>5. Landed(p) = Len(rows')
      <4>1. Len(rows') = IF proc[p].kind = "git" THEN Len(rows) ELSE Len(rows) + 1
        BY <3>3, Recorded, JobTyped
      <4> QED
        BY <1>2, <4>1 DEF LastJob, Landed
    <3>6. Landed(p) \in Reached'
      BY <3>2, <3>4 DEF Reached
    <3>7. ASSUME NEW d \in Reached', \A e \in Reached' : e <= d PROVE vm' = rows'[d].code
      <4>1. Landed(p) <= d /\ d \in 1 .. Len(rows')
        BY <3>6, <3>7 DEF Reached
      <4>2. d = Landed(p)
        BY <1>6, <3>5, <4>1
      <4> QED
        BY <3>1, <3>2, <3>4, <4>2
    <3> QED
      BY <3>7 DEF LastRow
  <2>3. CASE ~ (BuildFails(p) \/ Succeeds(p))
    <3>1. ~ Sent(p)
      <4>1. ASSUME Sent(p) PROVE FALSE
        <5>1. Ends(p)
          BY <1>10, <4>1, SentGoesOn DEF Sent
        <5>2. ~ (Throws(p) \/ ExtractFails(p))
          <6>1. faults' # faults + 1
            BY <1>10, <2>1
          <6> QED
            BY <4>1, <6>1 DEF Throws, ExtractFails, Fault, At, Sent, After
        <5>3. ~ (Builds(p) \/ Prune(p) \/ RestoreDelete(p) \/ RestoreCopy(p))
          <6>1. proc'[p] = Idle
            BY <5>1, OwnJob DEF Ends
          <6>2. Builds(p) \/ Prune(p) \/ RestoreDelete(p) \/ RestoreCopy(p) => \E pc \in After : Go(p, pc)
            BY DEF Builds, Prune, RestoreDelete, RestoreCopy, After
          <6>3. \A pc \in After : Go(p, pc) => proc'[p].pc = pc
            BY Went DEF Steps
          <6> QED
            BY <6>1, <6>2, <6>3 DEF Idle, After
        <5>4. ~ (Copy(p) \/ CopyFails(p))
          <6>1. proc'[p] = Idle
            BY <5>1, OwnJob DEF Ends
          <6>2. Copy(p) \/ CopyFails(p) => proc' = [proc EXCEPT ![p].pc = "prune", ![p].dir = now]
            BY DEF Copy, CopyFails
          <6>3. proc[p] \in Job /\ DOMAIN proc = Procs
            BY JobTyped
          <6>4. Copy(p) \/ CopyFails(p) => proc'[p].pc = "prune"
            BY <6>2, <6>3 DEF Job
          <6> QED
            BY <6>1, <6>4 DEF Idle
        <5>5. ~ (BeginUpload(p) \/ BeginDeploy(p) \/ BeginGit(p) \/ (\E d \in 1 .. Len(rows) : BeginRollback(p, d)))
          BY <4>1 DEF BeginUpload, BeginDeploy, BeginGit, BeginRollback, MayBegin, At, Sent, After
        <5>6. ~ (Extract(p) \/ Check(p) \/ Clone(p) \/ GitEmpty(p) \/ GitFill(p) \/ Send(p))
          BY <4>1 DEF Extract, Check, Clone, GitEmpty, GitFill, Send, At, Sent, After
        <5> QED
          BY <2>1, <2>3, <5>2, <5>3, <5>4, <5>5, <5>6 DEF Acts, Step
      <4> QED
        BY <4>1
    <3>2. \A r \in Procs : ~ Sent(r)
      <4>1. \A r \in Procs : r # p => ~ Sent(r)
        BY <1>7 DEF Sent, After, Idle
      <4> QED
        BY <3>1, <4>1
    <3>3. LastRow
      BY <1>2, <2>1, <3>2
    <3>4. vm' = vm
      <4>1. ASSUME Send(p) PROVE FALSE
        <5> DEFINE code == Content(proc[p].dir)
        <5>1. code \in SUBSET Code /\ proc' = [proc EXCEPT ![p].pc = "build", ![p].code = code]
          BY <4>1, JobTyped, ContentTyped DEF Send
        <5>2. proc[p] \in Job /\ DOMAIN proc = Procs
          BY JobTyped
        <5> HIDE DEF code
        <5>3. proc'[p].pc = "build"
          BY <5>1, <5>2 DEF Job
        <5> QED
          BY <1>10, <5>3 DEF Sent, After
      <4>2. Throws(p) => vm' = vm
        BY <1>10, <2>1 DEF Throws, Fault
      <4>3. BeginUpload(p) \/ BeginDeploy(p) \/ BeginGit(p) \/ (\E d \in 1 .. Len(rows) : BeginRollback(p, d))
            \/ ExtractFails(p) \/ Killed(p) => vm' = vm
        BY DEF BeginUpload, BeginDeploy, BeginGit, BeginRollback, ExtractFails, Killed
      <4>4. Step(p) => vm' = vm
        BY <4>1, <4>2 DEF Step, Extract, Check, Clone, GitEmpty, GitFill, Builds, BuildFails, Copy, CopyFails,
                    Prune, RestoreDelete, RestoreCopy, Succeeds
      <4> QED
        BY <4>3, <4>4 DEF Acts
    <3>5. \A d \in 1 .. Len(rows) : OldRow(d)
      <4> TAKE d \in 1 .. Len(rows)
      <4>1. d \in 1 .. Len(rows') /\ d # Len(rows) + 1
        BY <1>6
      <4>2. ~ GitRow(p, d) /\ ~ OutcomeRow(p, d)
        BY <2>3, <4>1 DEF GitRow, OutcomeRow
      <4> QED
        BY <4>1, <4>2, TableStep
    <3>6. \A d \in 1 .. Len(rows') : d \in 1 .. Len(rows) \/ ~ rows'[d].reached
      BY <2>3, TableStep DEF OldRow, GitRow, OutcomeRow
    <3> QED
      BY <1>6, <3>3, <3>4, <3>5, <3>6, LastRowStays
  <2> QED
    BY <2>2, <2>3
<1> QED
  BY <1>8, <1>9, <1>10

(***************************************************************************)
(* The theorems.                                                           *)
(***************************************************************************)
\* What is done beside the deploys, and time, either leave the files or come
\* between two deploys.
LEMMA OutsideSerial ==
  ASSUME TypeOK, TypeOK', SerialInv, Outside
  PROVE  SerialInv'
<1>1. /\ rows' = rows /\ proc' = proc /\ vm' = vm /\ serial' = serial
      /\ faults' = faults /\ copyFaults' = copyFaults /\ kills' = kills
  BY OutsideCounts
<1>2. \/ files' = files
      \/ serial => Working = {}
  BY DEF Outside, Push, Tick, EditFile, FilesDelete, EditSnapshot, ByHand, MayEdit
\* A snapshot that is there was there before, and changed only if written to.
<1>3. /\ DOMAIN versions' \subseteq DOMAIN versions
      /\ \A t \in Paths : writers[t] # 0 => writers'[t] # 0
      /\ \A t \in DOMAIN versions' : writers[t] # 0 /\ writers'[t] = 1 => writers[t] = 1 /\ versions'[t] = versions[t]
  <2>1. CASE Push \/ EditFile \/ Tick
    BY <2>1 DEF Push, EditFile, Tick, files
  <2>2. CASE FilesDelete
    BY <2>2 DEF FilesDelete
  <2>3. CASE \E s \in Paths : EditSnapshot(s)
    <3>1. PICK s \in Paths : EditSnapshot(s)
      BY <2>3
    <3>2. s \in DOMAIN versions /\ s \in Paths \ {Current} /\ newest' = newest + 1 /\ newest + 1 \in Code
      BY <3>1 DEF EditSnapshot, TypeOK
    <3>3. versions[s] \cup {newest + 1} \in SUBSET Code /\ {} \in SUBSET Code
      BY <3>2 DEF TypeOK
    <3>4. PICK content \in SUBSET Code : Write(s, content)
      BY <3>1, <3>3 DEF EditSnapshot
    <3>5. /\ DOMAIN versions' = DOMAIN versions \cup {s}
          /\ \A t \in DOMAIN versions : t # s => versions'[t] = versions[t]
          /\ writers'[s] = IF writers[s] = 0 THEN 1 ELSE 2
          /\ \A t \in Paths : t # s => writers'[t] = writers[t]
      BY <3>2, <3>4, Written
    <3>6. DOMAIN versions \subseteq Paths
      BY DEF TypeOK
    <3> QED
      BY <3>2, <3>5, <3>6
  <2> QED
    BY <2>1, <2>2, <2>3 DEF Outside
<1>4. AloneInv'
  BY <1>1 DEF SerialInv, AloneInv, Working, At
<1>5. NamedInv'
  <2>1. /\ DOMAIN versions \subseteq Paths
        /\ \A d \in 1 .. Len(rows) : rows[d].path \in Paths
        /\ \A p \in Procs : proc[p].dir \in Paths
    BY RowTyped, JobTyped DEF TypeOK, Row
  <2> QED
    BY <1>1, <1>3, <2>1 DEF SerialInv, NamedInv
<1>6. LastInv'
  BY <1>1 DEF SerialInv, LastInv, LastJob, LastRow, Reached, Sent
<1>7. CASE files' = files
  <2>1. build' = build /\ present' = present /\ versions' = versions /\ writers' = writers
    BY <1>7 DEF files
  <2>2. FilledInv'
    BY <1>1, <2>1 DEF SerialInv, FilledInv, FilledJob, SomeSnapshot, Content, Exists, At, Sent
  <2>3. ASSUME NEW p \in Procs, SnapJob(p) PROVE SnapJob(p)'
    BY <1>1, <2>1, <2>3 DEF SnapJob
  <2>4. SnapshotAsDeployed => SnapshotAsDeployed'
    BY <1>1, <2>1 DEF SnapshotAsDeployed
  <2>5. SnapInv'
    BY <1>1, <2>3, <2>4 DEF SerialInv, SnapInv
  <2> QED
    BY <1>4, <1>5, <1>6, <2>2, <2>5 DEF SerialInv
<1>8. CASE serial => Working = {}
  <2>1. serial => \A p \in Procs : proc[p].pc = "idle"
    BY <1>8 DEF Working, At
  <2>2. FilledInv'
    BY <1>1, <2>1 DEF FilledInv, FilledJob, At, Sent, After
  <2>3. SnapInv'
    <3> SUFFICES ASSUME serial, copyFaults = 0 PROVE SnapshotAsDeployed' /\ \A p \in Procs : SnapJob(p)'
      BY <1>1 DEF SnapInv
    <3>1. \A p \in Procs : SnapJob(p)'
      BY <1>1, <2>1 DEF SnapJob
    <3>2. SnapshotAsDeployed'
      <4> SUFFICES ASSUME NEW d \in 1 .. Len(rows), rows[d].status = "succeeded", rows[d].path \in DOMAIN versions',
                          writers'[rows[d].path] = 1
                   PROVE  versions'[rows[d].path] = rows[d].code
        BY <1>1 DEF SnapshotAsDeployed
      <4>1. rows[d].path \in DOMAIN versions /\ writers[rows[d].path] # 0
        BY <1>3 DEF SerialInv, NamedInv
      <4>2. writers[rows[d].path] = 1 /\ versions'[rows[d].path] = versions[rows[d].path]
        BY <1>3, <4>1
      <4> QED
        BY <4>1, <4>2 DEF SerialInv, SnapInv, SnapshotAsDeployed
    <3> QED
      BY <3>1, <3>2
  <2> QED
    BY <1>4, <1>5, <1>6, <2>2, <2>3 DEF SerialInv
<1> QED
  BY <1>2, <1>7, <1>8

LEMMA InitSerial == Init => SerialInv
<1> SUFFICES ASSUME Init PROVE SerialInv
  OBVIOUS
<1>1. \A p \in Procs : proc[p] = Idle
  BY DEF Init
<1>2. Working = {}
  BY <1>1 DEF Working, At, Idle
<1>3. rows = <<>> /\ Len(rows) = 0 /\ DOMAIN versions = {}
  BY DEF Init, NoFiles
<1>4. AloneInv /\ NamedInv
  BY <1>1, <1>2, <1>3 DEF AloneInv, NamedInv, Idle
<1>5. FilledInv
  BY <1>1, <1>3 DEF FilledInv, FilledJob, At, Sent, After, Idle
<1>6. SnapInv
  BY <1>1, <1>3 DEF SnapInv, SnapshotAsDeployed, SnapJob, Idle
<1>7. LastInv
  BY <1>1, <1>3 DEF LastInv, LastJob, LastRow, Reached, Idle
<1> QED
  BY <1>4, <1>5, <1>6, <1>7 DEF SerialInv

LEMMA StepSerial == IInv /\ SerialInv /\ [Next]_vars => SerialInv'
<1> SUFFICES ASSUME IInv, SerialInv, [Next]_vars PROVE SerialInv'
  OBVIOUS
<1>1. TypeOK /\ TypeOK' /\ JobsOK
  BY StepIInv DEF IInv
<1>2. CASE Outside
  BY <1>1, <1>2, OutsideSerial
<1>3. ASSUME NEW p \in Procs, Acts(p) PROVE SerialInv'
  BY <1>1, <1>3, AloneStep, NamedStep, FilledStep, SnapStep, LastStep DEF SerialInv
<1>4. CASE UNCHANGED vars
  BY <1>4 DEF vars, files, counts, SerialInv, AloneInv, NamedInv, FilledInv, FilledJob, SnapInv, SnapJob,
     SnapshotAsDeployed, LastInv, LastJob, LastRow, Reached, Working, SomeSnapshot, Content, Exists, At, Sent
<1> QED
  BY <1>2, <1>3, <1>4 DEF Next, Acts, Outside

LEMMA BothInvs == Spec => [](IInv /\ SerialInv)
BY InitIInv, InitSerial, StepIInv, StepSerial, PTL DEF Spec

\* With one deploy at a time a snapshot that nothing else was written to holds
\* what its deployment put on the VM for as long as it exists, whatever uploads,
\* edits, Git jobs, rollbacks, pruning and killed workers come after it, and for
\* any number of seconds and rows.
THEOREM SnapshotsAreAsDeployed == Spec => []SnapshotAsDeployed
<1>1. SerialInv => SnapshotAsDeployed
  BY DEF SerialInv, SnapInv, SnapshotAsDeployed
<1> QED
  BY <1>1, BothInvs, PTL

\* With one deploy at a time and nothing lost, the VM runs what the table says
\* was deployed last, also after a build command that failed.
THEOREM TableTellsWhatRuns == Spec => []VmRunsLastRow
<1>1. SerialInv => VmRunsLastRow
  <2> SUFFICES ASSUME SerialInv, serial, faults = 0, kills = 0, Working = {} PROVE LastRow
    BY DEF VmRunsLastRow, LastRow
  <2>1. \A p \in Procs : ~ Sent(p)
    BY DEF Working, At, Sent, After
  <2> QED
    BY <2>1 DEF SerialInv, LastInv
<1> QED
  BY <1>1, BothInvs, PTL

\* With one deploy at a time no step, of a deploy or of its failure, takes the
\* code from a VM that has some, unless there are files in a snapshot below an
\* empty build directory.
THEOREM VmKeepsCode == Spec => NoCodeNoDeploy
<1>1. IInv /\ SerialInv /\ [Next]_vars => [serial /\ vm # {} /\ vm' = {} => SomeSnapshot]_vars
  <2> SUFFICES ASSUME IInv, SerialInv, Next, serial, vm # {}, vm' = {} PROVE SomeSnapshot
    OBVIOUS
  <2>1. CASE Outside
    BY <2>1, OutsideCounts DEF IInv
  <2>2. ASSUME NEW p \in Procs, Acts(p) PROVE SomeSnapshot
    <3>1. At(p, "send") => Content(proc[p].dir) # {} \/ SomeSnapshot
      BY DEF SerialInv, FilledInv, FilledJob
    <3> QED
      BY <2>2, <3>1, VmChanges
  <2> QED
    BY <2>1, <2>2 DEF Next, Acts, Outside
<1> QED
  BY <1>1, BothInvs, PTL DEF Spec, NoCodeNoDeploy

=============================================================================

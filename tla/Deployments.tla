---------------------------- MODULE Deployments ----------------------------
(***************************************************************************)
(* How code reaches an app's VM: the build directory builds/<slug>, its    *)
(* snapshots builds/<slug>/versions/<second>, the deployments table, the   *)
(* deploy and rollback requests of the panel (web and API) and GitDeployJob *)
(* on the queue worker.                                                    *)
(*                                                                         *)
(* Every upload, edit and push makes a new piece of code, numbered from 1. *)
(* The content of a directory is the set of pieces that went into it; some *)
(* files deleted of many are an edit.  The snapshots lie inside the build  *)
(* directory: who deletes it deletes them.                                 *)
(***************************************************************************)
EXTENDS Naturals, Sequences, FiniteSets

CONSTANTS
  Web,                             \* PHP workers that serve requests
  Worker,                          \* the queue worker
  Keep,                            \* snapshots kept (5)
  MaxCode, MaxSecond, MaxRows,     \* bounds: pieces of code, seconds, rows
  MaxFaults,                       \* bound: failures of all kinds
  MaxByHand                        \* bound: deletions and changes of snapshots in the browser

ASSUME BoundsAssumption ==
  /\ MaxCode \in Nat /\ MaxSecond \in Nat \ {0} /\ MaxRows \in Nat
  /\ MaxFaults \in Nat /\ MaxByHand \in Nat
ASSUME KeepAssumption == Keep \in Nat \ {0}
ASSUME WorkerAssumption == Worker \notin Web
ASSUME WebAssumption == IsFiniteSet(Web)

Procs == Web \cup {Worker}
Broken == 0                        \* a piece that was written in part
Code == 0 .. MaxCode
Current == 0                       \* the build directory; other paths are seconds
Paths == 0 .. MaxSecond

VARIABLES
  newest, head,                    \* pieces of code made; the head of the Git branch
  present, build,                  \* does the build directory exist; what it holds beside snapshots
  versions,                        \* second -> content, of the existing snapshots
  writers,                         \* history, read by a property alone: how often a
                                   \* snapshot was written to, 2 for more than once
  vm,                              \* /app in the VM, beside copied snapshots
  rows,                            \* the deployments table
  now,                             \* the current second
  proc,                            \* what each process works on
  serial,                          \* do clients wait for each other?  (never changes)
  faults, copyFaults, kills, byHand

files == <<present, build, versions, writers>>
counts == <<faults, copyFaults, kills, byHand>>
vars == <<newest, head, files, vm, rows, now, proc, serial, counts>>

Idle == [pc |-> "idle", kind |-> "code", dir |-> Current, row |-> 0, code |-> {}]

Row == [status : {"building", "succeeded", "failed"}, kind : {"code", "rollback", "git"},
        path : Paths, code : SUBSET Code, reached : BOOLEAN, of : 0 .. MaxRows]
Job == [pc : {"idle", "extract", "check", "clone", "empty", "fill", "send", "build",
              "copy", "prune", "record", "delete", "restore"},
        kind : {"code", "rollback", "git"}, dir : Paths, row : 0 .. MaxRows, code : SUBSET Code]

TypeOK ==
  /\ newest \in Code /\ head \in Code
  /\ build \subseteq Code /\ present \in BOOLEAN
  /\ build # {} \/ DOMAIN versions # {} => present
  /\ DOMAIN versions \subseteq Paths \ {Current}
  /\ \A s \in DOMAIN versions : versions[s] \subseteq Code
  /\ writers \in [Paths -> 0 .. 2]
  /\ vm \subseteq Code
  /\ rows \in Seq(Row) /\ Len(rows) <= MaxRows
  /\ now \in Paths \ {Current}
  /\ proc \in [Procs -> Job]
  /\ serial \in BOOLEAN
  /\ faults \in Nat /\ copyFaults \in Nat /\ kills \in Nat
  /\ faults + copyFaults + kills <= MaxFaults
  /\ byHand \in 0 .. MaxByHand

NoFiles == [s \in {} |-> {}]

\* File::deleteDirectory of the build directory.
DeleteBuild == build' = {} /\ versions' = NoFiles /\ UNCHANGED writers

Init ==
  /\ newest = 0 /\ head = 0
  /\ present = FALSE /\ build = {} /\ versions = NoFiles
  /\ writers = [s \in Paths |-> 0]
  /\ vm = {}
  /\ rows = <<>>
  /\ now = 1
  /\ proc = [p \in Procs |-> Idle]
  /\ serial \in BOOLEAN
  /\ faults = 0 /\ copyFaults = 0 /\ kills = 0 /\ byHand = 0

At(p, pc) == proc[p].pc = pc
Working == {p \in Procs : ~ At(p, "idle")}

\* Bounds: what the processes at work may still need.
RoomForRow == Len(rows) + Cardinality({p \in Working : proc[p].kind # "git"}) < MaxRows
RoomForCode == newest + Cardinality({p \in Procs : At(p, "extract")}) < MaxCode

MayBegin(p) ==
  /\ At(p, "idle")
  /\ serial => Working = {}
  /\ RoomForRow

Go(p, pc) == proc' = [proc EXCEPT ![p].pc = pc]
Ends(p) == proc' = [proc EXCEPT ![p] = Idle]
RoomForFault == faults + copyFaults + kills < MaxFaults
Fault == RoomForFault /\ faults' = faults + 1

(***************************************************************************)
(* Clients and time.                                                       *)
(***************************************************************************)
Push ==
  /\ RoomForCode
  /\ newest' = newest + 1 /\ head' = newest + 1
  /\ UNCHANGED <<files, vm, rows, now, proc, serial, counts>>

\* The file browser, between deploys when clients wait for each other.
MayEdit == serial => Working = {}
ByHand ==
  /\ MayEdit
  /\ byHand < MaxByHand /\ byHand' = byHand + 1
  /\ UNCHANGED <<faults, copyFaults, kills>>

\* filesUpload, filesWrite, and filesDelete of a part.
EditFile ==
  /\ MayEdit /\ RoomForCode
  /\ newest' = newest + 1
  /\ build' = build \cup {newest + 1} /\ present' = TRUE
  /\ UNCHANGED <<head, versions, writers, vm, rows, now, proc, serial, counts>>

Write(s, content) ==
  /\ versions' = [t \in DOMAIN versions \cup {s} |-> IF t = s THEN content ELSE versions[t]]
  /\ writers' = [writers EXCEPT ![s] = IF @ = 0 THEN 1 ELSE 2]

\* The browser shows the snapshots, too.
EditSnapshot(s) ==
  /\ ByHand /\ RoomForCode
  /\ s \in DOMAIN versions
  /\ newest' = newest + 1
  /\ \E content \in {versions[s] \cup {newest + 1}, {}} : Write(s, content)
  /\ UNCHANGED <<head, present, build, vm, rows, now, proc, serial>>

\* filesDelete of everything beside the snapshots, or of one of these.
FilesDelete ==
  /\ ByHand
  /\ \/ build # {} /\ build' = {} /\ UNCHANGED versions
     \/ /\ \E s \in DOMAIN versions : versions' = [t \in DOMAIN versions \ {s} |-> versions[t]]
        /\ UNCHANGED build
  /\ UNCHANGED <<newest, head, present, writers, vm, rows, now, proc, serial>>

Tick ==
  /\ now < MaxSecond
  /\ now' = now + 1
  /\ UNCHANGED <<newest, head, files, vm, rows, proc, serial, counts>>

(***************************************************************************)
(* The beginning of a deploy: an upload, the directory as it is, a rollback *)
(* or a Git job.                                                           *)
(***************************************************************************)
\* "Clear existing build dir so deleted files don't persist".
BeginUpload(p) ==
  /\ p \in Web /\ MayBegin(p) /\ RoomForCode
  /\ DeleteBuild /\ present' = TRUE
  /\ proc' = [proc EXCEPT ![p] = [Idle EXCEPT !.pc = "extract"]]
  /\ UNCHANGED <<newest, head, vm, rows, now, serial, counts>>

Extract(p) ==
  /\ At(p, "extract")
  /\ newest' = newest + 1
  /\ build' = build \cup {newest + 1} /\ present' = TRUE
  /\ Go(p, "check")
  /\ UNCHANGED <<head, versions, writers, vm, rows, now, serial, counts>>

ExtractFails(p) ==
  /\ At(p, "extract")
  /\ Fault
  /\ \E part \in {{}, {Broken}} : build' = build \cup part /\ present' = (present \/ part # {})
  /\ Ends(p)
  /\ UNCHANGED <<newest, head, versions, writers, vm, rows, now, serial, copyFaults, kills, byHand>>

BeginDeploy(p) ==
  /\ p \in Web /\ MayBegin(p)
  /\ proc' = [proc EXCEPT ![p] = [Idle EXCEPT !.pc = "check"]]
  /\ UNCHANGED <<newest, head, files, vm, rows, now, serial, counts>>

SomeSnapshot == \E s \in DOMAIN versions : versions[s] # {}

\* Mutant: a deploy does not look whether there is code.
CheckNothing(p) ==
  /\ At(p, "check")
  /\ Go(p, "send")
  /\ UNCHANGED <<newest, head, files, vm, rows, now, serial, counts>>

\* "No code to deploy."  The API counts the files of the directory, the web
\* controller also those below it, snapshots included.
Check(p) ==
  /\ At(p, "check")
  /\ \/ (build # {} \/ SomeSnapshot) /\ Go(p, "send")
     \/ build = {} /\ Ends(p)
  /\ UNCHANGED <<newest, head, files, vm, rows, now, serial, counts>>

\* The snapshot of a deployment or, if it is gone, the build directory.
BuildDirOf(d) == IF rows[d].path \in DOMAIN versions THEN rows[d].path ELSE Current
HasFiles(dir) == IF dir = Current THEN build # {} \/ SomeSnapshot ELSE versions[dir] # {}

BeginRollback(p, d) ==
  /\ p \in Web /\ MayBegin(p)
  /\ rows[d].status = "succeeded"
  /\ HasFiles(BuildDirOf(d))
  /\ proc' = [proc EXCEPT ![p] = [pc |-> "send", kind |-> "rollback", dir |-> BuildDirOf(d),
                                  row |-> d, code |-> {}]]
  /\ UNCHANGED <<newest, head, files, vm, rows, now, serial, counts>>

BeginGit(p) ==
  /\ p = Worker /\ MayBegin(p)
  /\ rows' = Append(rows, [status |-> "building", kind |-> "git", path |-> Current, code |-> {},
                          reached |-> FALSE, of |-> 0])
  /\ proc' = [proc EXCEPT ![p] = [Idle EXCEPT !.pc = "clone", !.kind = "git", !.row = Len(rows) + 1]]
  /\ UNCHANGED <<newest, head, files, vm, now, serial, counts>>

Clone(p) ==
  /\ At(p, "clone")
  /\ head > 0
  /\ proc' = [proc EXCEPT ![p].pc = "empty", ![p].code = {head}]
  /\ UNCHANGED <<newest, head, files, vm, rows, now, serial, counts>>

GitEmpty(p) ==
  /\ At(p, "empty")
  /\ DeleteBuild /\ present' = FALSE
  /\ Go(p, "fill")
  /\ UNCHANGED <<newest, head, vm, rows, now, serial, counts>>

GitFill(p) ==
  /\ At(p, "fill")
  /\ build' = build \cup proc[p].code /\ present' = TRUE
  /\ Go(p, "send")
  /\ UNCHANGED <<newest, head, versions, writers, vm, rows, now, serial, counts>>

(***************************************************************************)
(* The VM, the build command, the snapshot, the row.                       *)
(***************************************************************************)
Content(dir) == IF dir = Current THEN build ELSE versions[dir]
Exists(dir) == IF dir = Current THEN present ELSE dir \in DOMAIN versions

\* VMManagerClient::deployCode, then waitForRunning.
Send(p) ==
  /\ At(p, "send")
  /\ Exists(proc[p].dir)
  /\ vm' = Content(proc[p].dir)
  /\ proc' = [proc EXCEPT ![p].pc = "build", ![p].code = Content(proc[p].dir)]
  /\ UNCHANGED <<newest, head, files, rows, now, serial, counts>>

\* Mutant: the exception leaves the row of a Git deployment as it is.
GivesUpSilently(p) == Ends(p) /\ UNCHANGED rows

\* An exception: a Git deployment is marked as failed, a request leaves no row.
GivesUp(p) ==
  /\ Ends(p)
  /\ rows' = IF proc[p].kind = "git" THEN [rows EXCEPT ![proc[p].row].status = "failed"] ELSE rows

\* No repository or branch, an error or a lost answer of the manager (which may
\* have taken the code all the same), or a failed reload of Caddy.
Throws(p) ==
  /\ \/ At(p, "clone") /\ UNCHANGED <<vm, counts>>
     \/ At(p, "send") /\ ~ Exists(proc[p].dir) /\ UNCHANGED <<vm, counts>>
     \/ /\ At(p, "send") /\ Fault /\ UNCHANGED <<copyFaults, kills, byHand>>
        /\ vm' = vm \/ (Exists(proc[p].dir) /\ vm' = Content(proc[p].dir))
     \/ At(p, "build") /\ Fault /\ UNCHANGED <<vm, copyFaults, kills, byHand>>
  /\ GivesUp(p)
  /\ UNCHANGED <<newest, head, files, now, serial>>

\* Puts the outcome into the table.
Record(p, status, path) ==
  rows' = IF proc[p].kind = "git"
          THEN [rows EXCEPT ![proc[p].row] = [@ EXCEPT !.status = status, !.path = path,
                                                       !.code = proc[p].code, !.reached = TRUE]]
          ELSE Append(rows, [status |-> status, kind |-> proc[p].kind, path |-> path,
                             code |-> proc[p].code, reached |-> TRUE, of |-> proc[p].row])

\* Mutant: a failed build command leaves no row.
BuildFailsSilently(p) ==
  /\ At(p, "build")
  /\ GivesUp(p)
  /\ UNCHANGED <<newest, head, files, vm, now, serial, counts>>

BuildFails(p) ==
  /\ At(p, "build")
  /\ Record(p, "failed", proc[p].dir)
  /\ Ends(p)
  /\ UNCHANGED <<newest, head, files, vm, now, serial, counts>>

Builds(p) ==
  /\ At(p, "build")
  /\ Go(p, IF proc[p].kind # "rollback" THEN "copy"
           ELSE IF proc[p].dir = Current THEN "record" ELSE "delete")
  /\ UNCHANGED <<newest, head, files, vm, rows, now, serial, counts>>

\* rsync -a into versions/<now>: what an earlier copy put there stays.
CopyOf(content) ==
  Write(now, content \cup (IF now \in DOMAIN versions THEN versions[now] ELSE {}))

\* Mutant: the snapshot has no name of its own.
CopyUnnamed(p) ==
  /\ At(p, "copy")
  /\ Write(Current, build) /\ present' = TRUE
  /\ proc' = [proc EXCEPT ![p].pc = "prune", ![p].dir = Current]
  /\ UNCHANGED <<newest, head, build, vm, rows, now, serial, counts>>

Copy(p) ==
  /\ At(p, "copy")
  /\ CopyOf(build) /\ present' = TRUE
  /\ proc' = [proc EXCEPT ![p].pc = "prune", ![p].dir = now]
  /\ UNCHANGED <<newest, head, build, vm, rows, now, serial, counts>>

\* rsync's exit code is not looked at.
CopyFails(p) ==
  /\ At(p, "copy")
  /\ RoomForFault /\ copyFaults' = copyFaults + 1
  /\ \E part \in {{}, {Broken}} : CopyOf(part) /\ present' = TRUE
  /\ proc' = [proc EXCEPT ![p].pc = "prune", ![p].dir = now]
  /\ UNCHANGED <<newest, head, build, vm, rows, now, serial, faults, kills, byHand>>

Newest(n) == {s \in DOMAIN versions : Cardinality({t \in DOMAIN versions : t > s}) < n}

\* Mutant: one snapshot too many is kept.
PruneLess(p) ==
  /\ At(p, "prune")
  /\ versions' = [s \in Newest(Keep + 1) |-> versions[s]]
  /\ Go(p, "record")
  /\ UNCHANGED <<newest, head, present, build, writers, vm, rows, now, serial, counts>>

\* "Prune old snapshots - keep the 5 most recent".
Prune(p) ==
  /\ At(p, "prune")
  /\ versions' = [s \in Newest(Keep) |-> versions[s]]
  /\ Go(p, "record")
  /\ UNCHANGED <<newest, head, present, build, writers, vm, rows, now, serial, counts>>

\* A rollback replaces the build directory: deleteDirectory ...
RestoreDelete(p) ==
  /\ At(p, "delete")
  /\ DeleteBuild /\ present' = FALSE
  /\ Go(p, "restore")
  /\ UNCHANGED <<newest, head, vm, rows, now, serial, counts>>

\* ... and copyDirectory, which returns false when its source does not exist.
RestoreCopy(p) ==
  /\ At(p, "restore")
  /\ IF proc[p].dir \in DOMAIN versions
     THEN build' = build \cup versions[proc[p].dir] /\ present' = TRUE
     ELSE UNCHANGED <<build, present>>
  /\ Go(p, "record")
  /\ UNCHANGED <<newest, head, versions, writers, vm, rows, now, serial, counts>>

\* Mutant: the row names the second in which it is written.
SucceedsLate(p) ==
  /\ At(p, "record")
  /\ Record(p, "succeeded", now)
  /\ Ends(p)
  /\ UNCHANGED <<newest, head, files, vm, now, serial, counts>>

Succeeds(p) ==
  /\ At(p, "record")
  /\ Record(p, "succeeded", proc[p].dir)
  /\ Ends(p)
  /\ UNCHANGED <<newest, head, files, vm, now, serial, counts>>

\* The worker process ends within a job (timeout, restart).
Killed(p) ==
  /\ p = Worker /\ ~ At(p, "idle")
  /\ RoomForFault /\ kills' = kills + 1
  /\ Ends(p)
  /\ UNCHANGED <<newest, head, files, vm, rows, now, serial, faults, copyFaults, byHand>>

Step(p) ==
  \/ Extract(p) \/ Check(p) \/ Clone(p) \/ GitEmpty(p) \/ GitFill(p)
  \/ Send(p) \/ Throws(p) \/ Builds(p) \/ BuildFails(p)
  \/ Copy(p) \/ CopyFails(p) \/ Prune(p)
  \/ RestoreDelete(p) \/ RestoreCopy(p) \/ Succeeds(p)

Next ==
  \/ Push \/ EditFile \/ FilesDelete \/ Tick
  \/ \E s \in Paths : EditSnapshot(s)
  \/ \E p \in Procs :
       \/ BeginUpload(p) \/ BeginDeploy(p) \/ BeginGit(p)
       \/ \E d \in 1 .. Len(rows) : BeginRollback(p, d)
       \/ ExtractFails(p) \/ Step(p) \/ Killed(p)

Spec == Init /\ [][Next]_vars
FairSpec == Spec /\ \A p \in Procs : WF_vars(Step(p))

-----------------------------------------------------------------------------
Building(d) == d <= Len(rows) /\ rows[d].status = "building"
Reached == {d \in 1 .. Len(rows) : rows[d].reached}

\* With one deploy at a time, a snapshot that nothing else was written to holds
\* what its deployment put on the VM, for as long as it exists: uploads, edits,
\* Git deployments, rollbacks and pruning leave it alone.
SnapshotAsDeployed ==
  serial /\ copyFaults = 0 =>
    \A d \in 1 .. Len(rows) :
      LET s == rows[d].path IN
      rows[d].status = "succeeded" /\ s \in DOMAIN versions /\ writers[s] = 1 =>
        versions[s] = rows[d].code

\* With one deploy at a time and nothing lost, the VM runs what the table says
\* was deployed last, also after a failed build.
VmRunsLastRow ==
  serial /\ faults = 0 /\ kills = 0 /\ Working = {} =>
    \A d \in Reached : (\A e \in Reached : e <= d) => vm = rows[d].code

\* No more snapshots than are kept, are being made, or were left by a worker killed
\* before it pruned, however deploys overlap.
FewSnapshots ==
  Cardinality(DOMAIN versions) <= Keep + kills + Cardinality({p \in Procs : At(p, "prune")})

\* With one deploy at a time, a VM that has code is emptied only when there are
\* files below the build directory: no failed upload, rollback or Git deployment
\* leads there.
NoCodeNoDeploy == [][serial /\ vm # {} /\ vm' = {} => SomeSnapshot]_vars

\* A Git deployment does not stay "building", unless its worker is killed.
BuildingEnds ==
  \A d \in 1 .. MaxRows : (Building(d) /\ kills = 0) ~> (kills > 0 \/ ~ Building(d))

\* AppController.php (API) 319: "Re-deploy a previous build to the app's VM. ...
\* The target deployment must belong to this app and its build directory must
\* still exist": a rollback that succeeds deployed the code of its target.
RollbackRestores ==
  serial =>
    \A d \in 1 .. Len(rows) :
      rows[d].kind = "rollback" /\ rows[d].status = "succeeded" => rows[d].code = rows[rows[d].of].code

\* AppController.php (API) 407: "Update the current build dir to point to the
\* rollback build": after a rollback the build directory holds what it deployed.
BuildFollowsRollback ==
  [][\A p \in Procs : serial /\ Succeeds(p) /\ proc[p].kind = "rollback" => build' = proc[p].code]_vars

\* AppController.php (web) 642: "Copy the current build into a versioned snapshot
\* directory": a deployment's snapshot holds what it put on the VM, as long as
\* nobody changes it by hand.
SnapshotPerDeployment ==
  serial /\ byHand = 0 =>
    \A d \in 1 .. Len(rows) :
      LET s == rows[d].path IN
      rows[d].status = "succeeded" /\ s \in DOMAIN versions => versions[s] = rows[d].code
=============================================================================

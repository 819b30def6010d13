------------------------- MODULE VmLifecycleProofs -------------------------
(***************************************************************************)
(* Proofs about VmLifecycle for any number of ids, handlers, objects,      *)
(* addresses and daemon runs: what holds however requests overlap, then    *)
(* what the overlaps of one id leave to the others.                        *)
(***************************************************************************)
EXTENDS VmLifecycle, TLAPS

\* What the map holds are objects that exist.
RegistryOK == \A i \in Ids : vms[i] # NoVm => vms[i] \in Created

\* A thread inside Stop holds an object, and past cancel a cancelled one.
ThreadsOK ==
  \A r \in Threads :
    /\ \A pc \in {"mark", "cancel", "tap", "release"} : At(r, pc) => req[r].v \in Created
    /\ \A pc \in {"tap", "release"} : At(r, pc) => vm[req[r].v].cancelled

\* Every address given out is behind the counter, and given out once.
AddressesOK ==
  /\ \A o \in Created : vm[o].ip < counter
  /\ \A o, p \in Created : o # p => vm[o].ip # vm[p].ip

\* A dead daemon runs nothing.
DeadOK == manager = "down" => todo = {} /\ \A r \in Threads : ~ Busy(r)

IInv ==
  /\ TypeOK
  /\ RegistryOK
  /\ ThreadsOK
  /\ AddressesOK
  /\ ReleasedOnlyAfterCancel

USE PoolSizeAssumption, SlugAssumption, ObjsAssumption, MainAssumption, RunsAssumption,
    NilAssumption

LEMMA InitIInv == Init => IInv
<1> SUFFICES ASSUME Init PROVE IInv
  OBVIOUS
<1>1. Created = {}
  BY DEF Init, Created
<1>2. TypeOK
  BY DEF Init, PoolInit, TypeOK
<1>3. RegistryOK /\ AddressesOK /\ ReleasedOnlyAfterCancel
  BY <1>1 DEF Init, RegistryOK, AddressesOK, ReleasedOnlyAfterCancel
<1>4. ThreadsOK
  BY DEF Init, ThreadsOK, At, Busy
<1> QED
  BY <1>2, <1>3, <1>4 DEF IInv

LEMMA BeginIInv ==
  ASSUME IInv, NEW r \in Threads, NEW i \in Ids,
         \/ BeginCreate(r, i)
         \/ BeginRedeploy(r, i)
         \/ BeginDestroy(r, i)
         \/ r = Main /\ StopAllNext(i)
  PROVE  IInv'
<1> USE DEF IInv
<1>1. PICK op \in {"create", "redeploy", "destroy", "stopall"},
           pc \in {"create", "lookup"} : Begin(r, op, i, pc)
  BY DEF BeginCreate, BeginRedeploy, BeginDestroy, Arrive, StopAllNext
<1>2. TypeOK'
  BY <1>1 DEF TypeOK, Begin, BeginCreate, BeginRedeploy, BeginDestroy, Arrive, StopAllNext, Request,
     StopSteps, poolVars, files
<1>3. Created' = Created
  BY <1>1 DEF Begin, Created
<1>4. RegistryOK' /\ AddressesOK' /\ ReleasedOnlyAfterCancel'
  BY <1>1, <1>3 DEF RegistryOK, AddressesOK, ReleasedOnlyAfterCancel, Begin, poolVars
<1>5. ThreadsOK'
  BY <1>1, <1>3 DEF ThreadsOK, Begin, At, Busy, TypeOK
<1> QED
  BY <1>2, <1>4, <1>5

LEMMA CreateIInv ==
  ASSUME IInv, NEW r \in Threads, Create(r)
  PROVE  IInv'
<1> USE DEF IInv
<1> DEFINE i == req[r].id
<1>0. req[r] \in Request /\ i \in Ids /\ Reply(r) /\ UNCHANGED <<hostMount, daemon>>
  BY DEF Create, At, Busy, TypeOK, Request
<1>1. CASE CreateExists(r)
  <2>1. TypeOK'
    BY <1>0, <1>1 DEF TypeOK, CreateExists, Reply, poolVars, daemon
  <2>2. Created' = Created
    BY <1>1 DEF Created, CreateExists
  <2> QED
    BY <1>0, <1>1, <2>1, <2>2 DEF RegistryOK, ThreadsOK, AddressesOK, ReleasedOnlyAfterCancel,
       At, Busy, CreateExists, Reply, poolVars, TypeOK
<1>2. CASE CreateNoAddress(r)
  <2>1. TypeOK'
    BY <1>0, <1>2 DEF TypeOK, CreateNoAddress, Exhaust, Reply, daemon
  <2>2. Created' = Created
    BY <1>2 DEF Created, CreateNoAddress
  <2>3. \A o \in Created : vm[o].ip \in Address
    BY DEF TypeOK, VmRecord, Created
  <2>3a. AddressesOK'
    BY <1>2, <2>2, <2>3 DEF AddressesOK, CreateNoAddress, Exhaust, Address
  <2> QED
    BY <1>0, <1>2, <2>1, <2>2, <2>3a DEF RegistryOK, ThreadsOK, ReleasedOnlyAfterCancel,
       At, Busy, CreateNoAddress, Exhaust, Reply, TypeOK
<1>3. CASE CreateFails(r)
  <2>1. PICK a \in Address : Allocate(a)
    BY <1>3 DEF CreateFails
  <2>2. TypeOK'
    BY <1>0, <1>3, <2>1 DEF TypeOK, CreateFails, Allocate, Reply, daemon, Address
  <2>3. Created' = Created
    BY <1>3 DEF Created, CreateFails
  <2>4. AddressesOK'
    BY <1>3, <2>1, <2>3 DEF AddressesOK, CreateFails, Allocate, Address, TypeOK, VmRecord, Created
  <2> QED
    BY <1>0, <1>3, <2>1, <2>2, <2>3, <2>4 DEF RegistryOK, ThreadsOK, ReleasedOnlyAfterCancel,
       At, Busy, CreateFails, Allocate, Reply, TypeOK
<1>4. ASSUME NEW o \in Objs, CreateSucceeds(r, o)
      PROVE  IInv'
  <2>1. PICK a \in Address, new \in VmRecord :
          /\ Allocate(a)
          /\ vm' = [vm EXCEPT ![o] = new]
          /\ new.ip = a /\ new.cancelled = FALSE
    <3>1. PICK a \in Address :
            /\ Allocate(a)
            /\ vm' = [vm EXCEPT ![o] = NewVm(req[r], a)]
      BY <1>4 DEF CreateSucceeds
    <3> DEFINE new == NewVm(req[r], a)
    <3>2. new \in VmRecord /\ new.ip = a /\ new.cancelled = FALSE
      BY <1>0 DEF NewVm, VmRecord, VmState
    <3> QED
      BY <3>1, <3>2
  <2>2. /\ o \notin Created
        /\ vms' = [vms EXCEPT ![i] = o]
        /\ tap' = [tap EXCEPT ![i] = o]
        /\ rootfs' = rootfs \cup {i}
    BY <1>4 DEF CreateSucceeds
  <2>3. TypeOK'
    BY <1>0, <2>1, <2>2 DEF TypeOK, Allocate, Reply, daemon, Address
  <2>4. Created' = Created \cup {o}
    BY <2>1, <2>2 DEF Created, TypeOK
  <2>5. \A p \in Created : vm'[p] = vm[p]
    BY <2>1, <2>2 DEF TypeOK, Created
  <2>6. vm'[o].ip = a /\ vm'[o].cancelled = FALSE
    BY <2>1 DEF TypeOK
  <2>7. RegistryOK'
    BY <1>0, <2>2, <2>4 DEF RegistryOK, TypeOK
  <2>8. ThreadsOK'
    BY <1>0, <2>4, <2>5 DEF ThreadsOK, At, Busy, Reply, TypeOK
  <2>9. AddressesOK'
    <3>1. a \in Nat /\ counter \in Nat /\ counter <= a /\ counter' = a + 1
      BY <2>1 DEF Allocate, Address, TypeOK
    <3>2. \A p \in Created : vm[p].ip \in Nat /\ vm[p].ip < counter
      <4>1. \A p \in Created : vm[p] \in VmRecord
        BY DEF TypeOK, Created
      <4> QED
        BY <4>1 DEF AddressesOK, VmRecord, Address
    <3>3. \A p \in Created' : vm'[p].ip < counter'
      BY <2>4, <2>5, <2>6, <3>1, <3>2
    <3>4. \A p, q \in Created' : p # q => vm'[p].ip # vm'[q].ip
      BY <2>4, <2>5, <2>6, <3>1, <3>2 DEF AddressesOK
    <3> QED
      BY <3>3, <3>4 DEF AddressesOK
  <2>10. ReleasedOnlyAfterCancel'
    BY <2>1, <2>4, <2>5, <2>6 DEF ReleasedOnlyAfterCancel, Allocate
  <2> QED
    BY <2>3, <2>7, <2>8, <2>9, <2>10
<1> QED
  BY <1>1, <1>2, <1>3, <1>4 DEF Create

\* A step that changes one existing object, and not its address, keeps the
\* invariants of the objects.
LEMMA ObjectStep ==
  ASSUME IInv, NEW o \in Created, NEW new \in VmRecord,
         vm' = [vm EXCEPT ![o] = new], new.ip = vm[o].ip,
         vm[o].cancelled => new.cancelled,
         UNCHANGED <<counter, used, vms>>
  PROVE  /\ vm' \in [Objs -> VmRecord \cup {NoVm}]
         /\ Created' = Created
         /\ RegistryOK' /\ AddressesOK' /\ ReleasedOnlyAfterCancel'
         /\ \A p \in Created : vm[p].cancelled => vm'[p].cancelled
<1> USE DEF IInv
<1>1. o \in Objs /\ new # NoVm
  BY DEF Created
<1>2. vm' \in [Objs -> VmRecord \cup {NoVm}]
  BY DEF TypeOK
<1>3. Created' = Created
  BY <1>1 DEF Created, TypeOK
<1>4. \A p \in Created : vm'[p].ip = vm[p].ip /\ (vm[p].cancelled => vm'[p].cancelled)
  BY <1>1 DEF Created, TypeOK
<1>5. RegistryOK' /\ AddressesOK' /\ ReleasedOnlyAfterCancel'
  BY <1>3, <1>4 DEF RegistryOK, AddressesOK, ReleasedOnlyAfterCancel
<1> QED
  BY <1>2, <1>3, <1>4, <1>5

\* A thread that answers, or goes on to a step outside Stop, keeps the
\* invariants of the threads as long as no cancelled object is revived.
LEMMA MovesOn ==
  ASSUME IInv, NEW r \in Threads, Busy(r),
         Reply(r) \/ AfterUnmap(r) \/ \E pc \in {"unmap", "mount", "write", "create"} : Goto(r, pc),
         Created \subseteq Created',
         \A o \in Created : vm[o].cancelled => vm'[o].cancelled
  PROVE  req' \in [Threads -> Request \cup {NoRequest}] /\ ThreadsOK'
<1> USE DEF IInv
<1>1. req[r] \in Request
  BY DEF Busy, TypeOK
<1>2. Reply(r) \/ \E new \in Request : /\ req' = [req EXCEPT ![r] = new]
                                        /\ new.pc \notin {"mark", "cancel", "tap", "release"}
  <2>1. CASE AfterUnmap(r)
    <3>1. PICK pc \in {"mount", "create"} : req' = [req EXCEPT ![r] = [@ EXCEPT !.pc = pc, !.v = NoVm]]
      BY <2>1 DEF AfterUnmap
    <3> DEFINE new == [req[r] EXCEPT !.pc = pc, !.v = NoVm]
    <3>2. new \in Request /\ new.pc = pc
      BY <1>1 DEF Request
    <3> QED
      BY <3>1, <3>2
  <2>2. ASSUME NEW pc \in {"unmap", "mount", "write", "create"}, Goto(r, pc)
        PROVE  \E new \in Request : /\ req' = [req EXCEPT ![r] = new]
                                    /\ new.pc \notin {"mark", "cancel", "tap", "release"}
    <3> DEFINE new == [req[r] EXCEPT !.pc = pc]
    <3>1. new \in Request /\ new.pc = pc
      BY <1>1 DEF Request
    <3> QED
      BY <2>2, <3>1 DEF Goto
  <2> QED
    BY <2>1, <2>2
<1>2a. req' \in [Threads -> Request \cup {NoRequest}]
  BY <1>2 DEF TypeOK, Reply
<1>3. \A q \in Threads, pc \in {"mark", "cancel", "tap", "release"} :
        At(q, pc)' => At(q, pc) /\ req'[q] = req[q]
  BY <1>2 DEF TypeOK, Reply, At, Busy
<1>4. ThreadsOK'
  BY <1>3 DEF ThreadsOK
<1> QED
  BY <1>2a, <1>4

\* A step that leaves the objects and the pool alone, and takes ids out of the
\* map at most, keeps their invariants.
LEMMA ObjectsKept ==
  ASSUME IInv, UNCHANGED <<counter, used, vm>>,
         vms' = vms \/ \E i \in Ids : vms' = [vms EXCEPT ![i] = NoVm]
  PROVE  /\ Created' = Created
         /\ vms' \in [Ids -> Objs \cup {NoVm}]
         /\ RegistryOK' /\ AddressesOK' /\ ReleasedOnlyAfterCancel'
<1> USE DEF IInv
<1>1. Created' = Created
  BY DEF Created
<1>2. vms' \in [Ids -> Objs \cup {NoVm}] /\ \A i \in Ids : vms'[i] \in {vms[i], NoVm}
  BY DEF TypeOK
<1>3. RegistryOK' /\ AddressesOK' /\ ReleasedOnlyAfterCancel'
  BY <1>1, <1>2 DEF RegistryOK, AddressesOK, ReleasedOnlyAfterCancel
<1> QED
  BY <1>1, <1>2, <1>3

LEMMA StopLookupIInv ==
  ASSUME IInv, NEW r \in Threads, StopLookup(r)
  PROVE  IInv'
<1> USE DEF IInv
<1> DEFINE o == vms[req[r].id]
<1>1. req[r] \in Request /\ Busy(r)
  BY DEF StopLookup, At, Busy, TypeOK
<1>2. UNCHANGED <<counter, used, vms, vm, tap, rootfs, hostMount, todo, manager, runs, overlapped>>
  BY DEF StopLookup, poolVars, files, daemon
<1>3. Created' = Created /\ RegistryOK' /\ AddressesOK' /\ ReleasedOnlyAfterCancel'
  BY <1>2, ObjectsKept
<1>4. req' \in [Threads -> Request \cup {NoRequest}] /\ ThreadsOK'
  <2>1. CASE o = NoVm
    <3>1. Reply(r) \/ Goto(r, "unmap")
      BY <2>1 DEF StopLookup, StopReturns
    <3> QED
      BY <1>1, <1>2, <1>3, <3>1, MovesOn
  <2>2. CASE o # NoVm
    <3>1. o \in Created
      BY <1>1, <2>2 DEF RegistryOK, Request
    <3>2. req' = [req EXCEPT ![r] = [@ EXCEPT !.v = o, !.pc = "mark"]]
      BY <2>2 DEF StopLookup
    <3>3. req' \in [Threads -> Request \cup {NoRequest}]
      BY <1>1, <3>1, <3>2 DEF TypeOK, Request, StopSteps, Created
    <3>4. ThreadsOK'
      BY <1>1, <1>2, <1>3, <3>1, <3>2 DEF TypeOK, ThreadsOK, At, Busy, Request
    <3> QED
      BY <3>3, <3>4
  <2> QED
    BY <2>1, <2>2
<1>5. TypeOK'
  BY <1>2, <1>4 DEF TypeOK
<1> QED
  BY <1>3, <1>4, <1>5

LEMMA StopIInv ==
  ASSUME IInv, NEW r \in Threads, Stop(r)
  PROVE  IInv'
<1> USE DEF IInv
<1> DEFINE v == req[r].v
<1>1. req[r] \in Request /\ Busy(r)
  BY DEF Stop, StopLookup, StopMark, StopCancel, StopTap, StopRelease, At, Busy, TypeOK
<1>2. CASE StopLookup(r)
  BY <1>2, StopLookupIInv
<1>3. CASE StopMark(r)
  <2> DEFINE new == [vm[v] EXCEPT !.state = "stopping"]
  <2>1. v \in Created /\ vm[v] \in VmRecord
    BY <1>3 DEF StopMark, ThreadsOK, TypeOK, Created
  <2>2. /\ vm' = [vm EXCEPT ![v] = new]
        /\ new \in VmRecord /\ new.ip = vm[v].ip /\ new.cancelled = vm[v].cancelled
    BY <1>3, <2>1 DEF StopMark, VmRecord, VmState
  <2>3. UNCHANGED <<counter, used, vms, tap, rootfs, hostMount, todo, manager, runs, overlapped>>
    BY <1>3 DEF StopMark, poolVars, files, daemon
  <2> HIDE DEF new
  <2>4. /\ vm' \in [Objs -> VmRecord \cup {NoVm}] /\ Created' = Created
        /\ RegistryOK' /\ AddressesOK' /\ ReleasedOnlyAfterCancel'
        /\ \A p \in Created : vm[p].cancelled => vm'[p].cancelled
    BY <2>1, <2>2, <2>3, ObjectStep
  <2>5. req' = [req EXCEPT ![r] = [@ EXCEPT !.pc = "cancel"]]
    BY <1>3 DEF StopMark, Goto
  <2>6. req' \in [Threads -> Request \cup {NoRequest}]
    BY <1>1, <2>5 DEF TypeOK, Request, StopSteps
  <2>7. ThreadsOK'
    BY <1>1, <2>1, <2>4, <2>5 DEF ThreadsOK, TypeOK, At, Busy, Request
  <2>8. TypeOK'
    BY <2>3, <2>4, <2>6 DEF TypeOK
  <2> QED
    BY <2>4, <2>7, <2>8
<1>4. CASE StopCancel(r)
  <2> DEFINE new == [vm[v] EXCEPT !.cancelled = TRUE]
  <2>1. v \in Created /\ vm[v] \in VmRecord
    BY <1>4 DEF StopCancel, ThreadsOK, TypeOK, Created
  <2>2. /\ vm' = [vm EXCEPT ![v] = new]
        /\ new \in VmRecord /\ new.ip = vm[v].ip /\ new.cancelled
    BY <1>4, <2>1 DEF StopCancel, VmRecord
  <2>3. UNCHANGED <<counter, used, vms, tap, rootfs, hostMount, todo, manager, runs, overlapped>>
    BY <1>4 DEF StopCancel, poolVars, files, daemon
  <2> HIDE DEF new
  <2>4. /\ vm' \in [Objs -> VmRecord \cup {NoVm}] /\ Created' = Created
        /\ RegistryOK' /\ AddressesOK' /\ ReleasedOnlyAfterCancel'
        /\ \A p \in Created : vm[p].cancelled => vm'[p].cancelled
    BY <2>1, <2>2, <2>3, ObjectStep
  <2>5. req' = [req EXCEPT ![r] = [@ EXCEPT !.pc = "tap"]]
    BY <1>4 DEF StopCancel, Goto
  <2>6. req' \in [Threads -> Request \cup {NoRequest}]
    BY <1>1, <2>5 DEF TypeOK, Request, StopSteps
  <2>7. vm'[v].cancelled
    BY <2>1, <2>2 DEF TypeOK, Created
  <2>8. ThreadsOK'
    BY <1>1, <2>1, <2>4, <2>5, <2>7 DEF ThreadsOK, TypeOK, At, Busy, Request
  <2>9. TypeOK'
    BY <2>3, <2>4, <2>6 DEF TypeOK
  <2> QED
    BY <2>4, <2>8, <2>9
<1>5. CASE StopTap(r)
  <2>1. v \in Created /\ vm[v].cancelled
    BY <1>5 DEF StopTap, ThreadsOK
  <2>2. UNCHANGED <<counter, used, vms, vm, rootfs, hostMount, todo, manager, runs, overlapped>>
    BY <1>5 DEF StopTap, poolVars, files, daemon
  <2>3. Created' = Created /\ RegistryOK' /\ AddressesOK' /\ ReleasedOnlyAfterCancel'
    BY <2>2, ObjectsKept
  <2>4. req' = [req EXCEPT ![r] = [@ EXCEPT !.pc = "release"]]
    BY <1>5 DEF StopTap, Goto
  <2>5. TypeOK'
    BY <1>1, <1>5, <2>2, <2>4 DEF TypeOK, StopTap, Request, StopSteps
  <2>6. ThreadsOK'
    BY <1>1, <2>1, <2>2, <2>3, <2>4 DEF ThreadsOK, TypeOK, At, Busy, Request
  <2> QED
    BY <2>3, <2>5, <2>6
<1>6. CASE StopRelease(r)
  <2>1. v \in Created /\ vm[v].cancelled
    BY <1>6 DEF StopRelease, ThreadsOK
  <2>2. /\ used' = used \ {vm[v].ip}
        /\ UNCHANGED <<counter, vms, vm, tap, rootfs, hostMount, todo, manager, runs, overlapped>>
    BY <1>6 DEF StopRelease, Release, files, daemon
  <2>3. Created' = Created
    BY <2>2 DEF Created
  <2>4. RegistryOK' /\ AddressesOK'
    BY <2>2, <2>3 DEF RegistryOK, AddressesOK
  <2>5. ReleasedOnlyAfterCancel'
    BY <2>1, <2>2, <2>3 DEF ReleasedOnlyAfterCancel, AddressesOK
  <2>6. Reply(r) \/ Goto(r, "unmap")
    BY <1>6 DEF StopRelease, StopReturns
  <2>7. req' \in [Threads -> Request \cup {NoRequest}] /\ ThreadsOK'
    BY <1>1, <2>2, <2>3, <2>6, MovesOn
  <2>8. TypeOK'
    BY <2>2, <2>7 DEF TypeOK
  <2> QED
    BY <2>4, <2>5, <2>7, <2>8
<1> QED
  BY <1>2, <1>3, <1>4, <1>5, <1>6 DEF Stop

LEMMA DestroyIInv ==
  ASSUME IInv, NEW r \in Threads, Destroy(r)
  PROVE  IInv'
<1> USE DEF IInv
<1>1. req[r] \in Request /\ req[r].id \in Ids /\ Busy(r)
  BY DEF Destroy, DestroyUnmap, DestroyFiles, At, Busy, TypeOK, Request
<1>2. CASE DestroyUnmap(r)
  <2> DEFINE o == vms[req[r].id]
  <2>1. /\ vms' = [vms EXCEPT ![req[r].id] = NoVm]
        /\ UNCHANGED <<counter, used, vm, tap, rootfs, hostMount, todo, manager, runs, overlapped>>
    BY <1>2 DEF DestroyUnmap, poolVars, files, daemon
  <2>2. /\ vms' \in [Ids -> Objs \cup {NoVm}] /\ Created' = Created
        /\ RegistryOK' /\ AddressesOK' /\ ReleasedOnlyAfterCancel'
    BY <1>1, <2>1, ObjectsKept
  <2>3. req' \in [Threads -> Request \cup {NoRequest}] /\ ThreadsOK'
    <3>1. CASE o = NoVm
      <4>1. Reply(r)
        BY <1>2, <3>1 DEF DestroyUnmap
      <4> QED
        BY <1>1, <2>1, <2>2, <4>1, MovesOn
    <3>2. CASE o # NoVm
      <4>1. req' = [req EXCEPT ![r] = [@ EXCEPT !.v = o, !.pc = "files"]]
        BY <1>2, <3>2 DEF DestroyUnmap
      <4>2. req' \in [Threads -> Request \cup {NoRequest}]
        BY <1>1, <3>2, <4>1 DEF TypeOK, Request
      <4>3. ThreadsOK'
        BY <1>1, <2>1, <2>2, <4>1 DEF ThreadsOK, TypeOK, At, Busy, Request
      <4> QED
        BY <4>2, <4>3
    <3> QED
      BY <3>1, <3>2
  <2> QED
    BY <2>1, <2>2, <2>3 DEF TypeOK
<1>3. CASE DestroyFiles(r)
  <2>1. /\ Reply(r)
        /\ rootfs' = rootfs \ {req[r].id}
        /\ UNCHANGED <<counter, used, vms, vm, tap, hostMount, todo, manager, runs, overlapped>>
    BY <1>3 DEF DestroyFiles, poolVars, daemon
  <2>2. Created' = Created /\ RegistryOK' /\ AddressesOK' /\ ReleasedOnlyAfterCancel'
    BY <2>1, ObjectsKept
  <2>3. req' \in [Threads -> Request \cup {NoRequest}] /\ ThreadsOK'
    BY <1>1, <2>1, <2>2, MovesOn
  <2> QED
    BY <2>1, <2>2, <2>3 DEF TypeOK
<1> QED
  BY <1>2, <1>3 DEF Destroy

LEMMA RedeployIInv ==
  ASSUME IInv, NEW r \in Threads, Redeploy(r)
  PROVE  IInv'
<1> USE DEF IInv
<1>1. req[r] \in Request /\ req[r].id \in Ids /\ Busy(r)
  BY DEF Redeploy, RedeployUnmap, DeployMount, DeployWritten, At, Busy, TypeOK, Request
<1>2. /\ Reply(r) \/ AfterUnmap(r) \/ \E pc \in {"mount", "write", "create"} : Goto(r, pc)
      /\ vms' = vms \/ vms' = [vms EXCEPT ![req[r].id] = NoVm]
      /\ UNCHANGED <<counter, used, vm, tap, rootfs, hostMount, todo, manager, runs, overlapped>>
  <2>1. CASE RedeployUnmap(r)
    BY <2>1 DEF RedeployUnmap, poolVars, files, daemon
  <2>2. CASE DeployMount(r)
    BY <2>2 DEF DeployMount, poolVars, files, daemon
  <2>3. CASE DeployWritten(r)
    BY <2>3 DEF DeployWritten, poolVars, files, daemon
  <2> QED
    BY <2>1, <2>2, <2>3 DEF Redeploy
<1>3. /\ vms' \in [Ids -> Objs \cup {NoVm}] /\ Created' = Created
      /\ RegistryOK' /\ AddressesOK' /\ ReleasedOnlyAfterCancel'
  BY <1>1, <1>2, ObjectsKept
<1>4. req' \in [Threads -> Request \cup {NoRequest}] /\ ThreadsOK'
  BY <1>1, <1>2, <1>3, MovesOn
<1> QED
  BY <1>2, <1>3, <1>4 DEF TypeOK

\* Steps of the startVM goroutine and of the process change one object.
LEMMA VmIInv ==
  ASSUME IInv, NEW o \in Objs, StartVM(o) \/ GuestExits(o)
  PROVE  IInv'
<1> USE DEF IInv
<1>1. o \in Created /\ vm[o] \in VmRecord
  BY DEF StartVM, GuestExits, Launch, Booted, StartFails, Waited, Kill, GuestExit, Up, Created, TypeOK
<1>2. UNCHANGED <<counter, used, vms, tap, rootfs, hostMount, req, todo, manager, runs, overlapped>>
  BY DEF StartVM, GuestExits, poolVars, files, daemon
<1>3. PICK new \in VmRecord :
        vm' = [vm EXCEPT ![o] = new] /\ new.ip = vm[o].ip /\ new.cancelled = vm[o].cancelled
  <2>1. CASE Launch(o)
    <3> DEFINE new == [vm[o] EXCEPT !.task = "boot", !.process = "up"]
    <3>1. new \in VmRecord /\ new.ip = vm[o].ip /\ new.cancelled = vm[o].cancelled
      BY <1>1 DEF VmRecord
    <3> QED
      BY <2>1, <3>1 DEF Launch
  <2>2. CASE Booted(o)
    <3> DEFINE new == [vm[o] EXCEPT !.task = "wait", !.state = "running"]
    <3>1. new \in VmRecord /\ new.ip = vm[o].ip /\ new.cancelled = vm[o].cancelled
      BY <1>1 DEF VmRecord, VmState
    <3> QED
      BY <2>2, <3>1 DEF Booted
  <2>3. CASE StartFails(o)
    <3>0. PICK p \in {"gone", vm[o].process} :
            vm' = [vm EXCEPT ![o] = [@ EXCEPT !.task = "done", !.state = "error", !.process = p]]
      BY <2>3 DEF StartFails
    <3> DEFINE new == [vm[o] EXCEPT !.task = "done", !.state = "error", !.process = p]
    <3>1. new \in VmRecord /\ new.ip = vm[o].ip /\ new.cancelled = vm[o].cancelled
      BY <1>1 DEF VmRecord, VmState
    <3> QED
      BY <3>0, <3>1
  <2>4. CASE Waited(o)
    <3> DEFINE new == [vm[o] EXCEPT !.task = "done", !.state = "stopped"]
    <3>1. new \in VmRecord /\ new.ip = vm[o].ip /\ new.cancelled = vm[o].cancelled
      BY <1>1 DEF VmRecord, VmState
    <3> QED
      BY <2>4, <3>1 DEF Waited
  <2>5. CASE Kill(o) \/ GuestExit(o)
    <3> DEFINE new == [vm[o] EXCEPT !.process = "gone"]
    <3>1. new \in VmRecord /\ new.ip = vm[o].ip /\ new.cancelled = vm[o].cancelled
      BY <1>1 DEF VmRecord
    <3> QED
      BY <2>5, <3>1 DEF Kill, GuestExit
  <2> QED
    BY <2>1, <2>2, <2>3, <2>4, <2>5 DEF StartVM, GuestExits
<1>4. /\ vm' \in [Objs -> VmRecord \cup {NoVm}] /\ Created' = Created
      /\ RegistryOK' /\ AddressesOK' /\ ReleasedOnlyAfterCancel'
      /\ \A p \in Created : vm[p].cancelled => vm'[p].cancelled
  BY <1>1, <1>2, <1>3, ObjectStep
<1>5. ThreadsOK'
  BY <1>2, <1>4 DEF ThreadsOK, At, Busy
<1> QED
  BY <1>2, <1>4, <1>5 DEF TypeOK

LEMMA DaemonIInv ==
  ASSUME IInv, DeadOK, Shutdown \/ StopAllDone \/ Crash \/ Restart
  PROVE  IInv'
<1> USE DEF IInv
<1>1. CASE Shutdown
  <2>1. /\ manager' = "closing" /\ todo' \subseteq Ids
        /\ UNCHANGED <<counter, used, vms, vm, tap, rootfs, hostMount, req, runs, overlapped>>
    BY <1>1 DEF Shutdown, poolVars, files
  <2>2. Created' = Created /\ RegistryOK' /\ AddressesOK' /\ ReleasedOnlyAfterCancel'
    BY <2>1, ObjectsKept
  <2>3. ThreadsOK'
    BY <2>1, <2>2 DEF ThreadsOK, At, Busy
  <2> QED
    BY <2>1, <2>2, <2>3 DEF TypeOK
<1>2. CASE StopAllDone \/ Crash
  <2>1. /\ manager' = "down" /\ todo' = {}
        /\ req' = [q \in Threads |-> NoRequest]
        /\ hostMount' = hostMount \cup {i \in Ids : \E q \in Handlers : At(q, "write") /\ req[q].id = i}
        /\ UNCHANGED <<counter, used, vms, vm, tap, rootfs, runs, overlapped>>
    BY <1>2 DEF StopAllDone, Crash, Exit, poolVars
  <2>2. Created' = Created /\ RegistryOK' /\ AddressesOK' /\ ReleasedOnlyAfterCancel'
    BY <2>1, ObjectsKept
  <2>3. ThreadsOK'
    BY <2>1 DEF ThreadsOK, At, Busy
  <2>4. TypeOK'
    BY <2>1 DEF TypeOK
  <2> QED
    BY <2>2, <2>3, <2>4
<1>3. CASE Restart
  <2>1. /\ manager' = "up" /\ runs' = runs + 1
        /\ counter' = 0 /\ used' = {}
        /\ vms' = [i \in Ids |-> NoVm]
        /\ vm' = [o \in Objs |-> NoVm]
        /\ tap' = [i \in Ids |-> NoVm]
        /\ overlapped' = {}
        /\ UNCHANGED <<rootfs, hostMount, req, todo>>
    BY <1>3 DEF Restart, files
  <2>2. Created' = {}
    BY <2>1 DEF Created
  <2>3. RegistryOK' /\ AddressesOK' /\ ReleasedOnlyAfterCancel'
    BY <2>1, <2>2 DEF RegistryOK, AddressesOK, ReleasedOnlyAfterCancel
  <2>4. ThreadsOK'
    BY <1>3, <2>1 DEF Restart, DeadOK, ThreadsOK, At, Busy
  <2>5. TypeOK'
    BY <2>1 DEF TypeOK
  <2> QED
    BY <2>3, <2>4, <2>5
<1> QED
  BY <1>1, <1>2, <1>3

LEMMA StepDead ==
  ASSUME IInv, DeadOK, [Next]_vars
  PROVE  DeadOK'
<1> SUFFICES ASSUME manager' = "down"
             PROVE  todo' = {} /\ \A r \in Threads : ~ Busy(r)'
  BY DEF DeadOK
<1>1. CASE UNCHANGED vars
  BY <1>1 DEF vars, DeadOK, Busy
<1>2. ASSUME NEW r \in Handlers, NEW i \in Ids,
             \/ BeginCreate(r, i)
             \/ BeginRedeploy(r, i)
             \/ BeginDestroy(r, i)
      PROVE  FALSE
  BY <1>2 DEF BeginCreate, BeginRedeploy, BeginDestroy, Arrive, MayBegin, Begin
<1>3. ASSUME NEW r \in Threads, HandlerStep(r)
      PROVE  FALSE
  <2>1. Busy(r)
    BY <1>3 DEF HandlerStep, Create, Stop, StopLookup, StopMark, StopCancel, StopTap, StopRelease,
       Destroy, DestroyUnmap, DestroyFiles, Redeploy, RedeployUnmap, DeployMount, DeployWritten, At
  <2>2. manager' = manager
    BY <1>3 DEF HandlerStep, Create, Stop, StopLookup, StopMark, StopCancel, StopTap, StopRelease,
       Destroy, DestroyUnmap, DestroyFiles, Redeploy, RedeployUnmap, DeployMount, DeployWritten, daemon
  <2> QED
    BY <2>1, <2>2 DEF DeadOK
<1>4. ASSUME NEW o \in Objs, StartVM(o) \/ GuestExits(o)
      PROVE  todo' = {} /\ \A r \in Threads : ~ Busy(r)'
  BY <1>4 DEF StartVM, GuestExits, daemon, DeadOK, Busy
<1>5. ASSUME NEW i \in Ids, StopAllNext(i)
      PROVE  FALSE
  BY <1>5 DEF StopAllNext, Begin, DeadOK
<1>6. CASE Shutdown \/ Restart
  BY <1>6 DEF Shutdown, Restart
<1>7. CASE StopAllDone \/ Crash
  BY <1>7 DEF StopAllDone, Crash, Exit, Busy
<1> QED
  BY <1>1, <1>2, <1>3, <1>4, <1>5, <1>6, <1>7 DEF Next

LEMMA StepIInv ==
  ASSUME IInv, DeadOK, [Next]_vars
  PROVE  IInv'
<1>1. CASE UNCHANGED vars
  BY <1>1 DEF vars, poolVars, IInv, TypeOK, RegistryOK, ThreadsOK, AddressesOK, ReleasedOnlyAfterCancel,
     Created, At, Busy
<1>2. ASSUME NEW r \in Handlers, NEW i \in Ids,
             \/ BeginCreate(r, i)
             \/ BeginRedeploy(r, i)
             \/ BeginDestroy(r, i)
      PROVE  IInv'
  BY <1>2, BeginIInv DEF Threads
<1>3. ASSUME NEW r \in Threads, HandlerStep(r)
      PROVE  IInv'
  BY <1>3, CreateIInv, StopIInv, DestroyIInv, RedeployIInv DEF HandlerStep
<1>4. ASSUME NEW o \in Objs, StartVM(o) \/ GuestExits(o)
      PROVE  IInv'
  BY <1>4, VmIInv
<1>5. ASSUME NEW i \in Ids, StopAllNext(i)
      PROVE  IInv'
  BY <1>5, BeginIInv DEF Threads
<1>6. CASE Shutdown \/ StopAllDone \/ Crash \/ Restart
  BY <1>6, DaemonIInv
<1> QED
  BY <1>1, <1>2, <1>3, <1>4, <1>5, <1>6 DEF Next

THEOREM Invariance == Spec => [](IInv /\ DeadOK)
<1>1. Init => IInv /\ DeadOK
  BY InitIInv DEF Init, DeadOK
<1>2. IInv /\ DeadOK /\ [Next]_vars => (IInv /\ DeadOK)'
  BY StepIInv, StepDead
<1> QED
  BY <1>1, <1>2, PTL DEF Spec

\* Every variable keeps its type, through overlapping requests and crashes.
THEOREM TypeCorrect == Spec => []TypeOK
<1>1. IInv => TypeOK
  BY DEF IInv
<1> QED
  BY <1>1, Invariance, PTL

\* No two live VMs of a daemon run have one address.
THEOREM AddressesUnique == Spec => []UniqueAddress
<1>1. IInv => UniqueAddress
  BY DEF IInv, AddressesOK, UniqueAddress, Live
<1> QED
  BY <1>1, Invariance, PTL

\* Stop frees an address after the cancel, however many Stops there are.
THEOREM ReleaseSafe == Spec => []ReleasedOnlyAfterCancel
<1>1. IInv => ReleasedOnlyAfterCancel
  BY DEF IInv
<1> QED
  BY <1>1, Invariance, PTL

\* A step that makes no VM live, and moves no address, grants none.
LEMMA NoGrant ==
  ASSUME \A o \in Objs : Live(o)' => Live(o) /\ vm'[o].ip = vm[o].ip
  PROVE  Leases!Next
<1> DEFINE dead == {o \in Objs : ~ Live(o)'}
<1>1. leased' = [o \in Objs |-> IF o \in dead THEN NoVm ELSE leased[o]]
  BY DEF leased
<1>2. dead \in SUBSET Objs
  OBVIOUS
<1> HIDE DEF dead
<1> QED
  BY <1>1, <1>2 DEF Leases!Next, Leases!Drop

\* Create grants an address that no object of this run was given before.
LEMMA CreateGrants ==
  ASSUME IInv, NEW r \in Threads, Create(r), NEW o \in Objs, CreateSucceeds(r, o)
  PROVE  Leases!Next
<1> USE DEF IInv
<1>1. PICK a \in Address, new \in VmRecord :
        /\ Allocate(a)
        /\ vm' = [vm EXCEPT ![o] = new]
        /\ new.ip = a /\ new.task = "launch"
  <2>1. PICK a \in Address :
          /\ Allocate(a)
          /\ vm' = [vm EXCEPT ![o] = NewVm(req[r], a)]
    BY DEF CreateSucceeds
  <2> DEFINE new == NewVm(req[r], a)
  <2>2. req[r].id \in Ids
    BY DEF Create, At, Busy, TypeOK, Request
  <2>3. new \in VmRecord /\ new.ip = a /\ new.task = "launch"
    BY <2>2 DEF NewVm, VmRecord, VmState
  <2> QED
    BY <2>1, <2>3
<1>2. ~ Live(o)
  BY DEF CreateSucceeds, Live
<1>3. vm'[o] = new /\ \A p \in Objs \ {o} : vm'[p] = vm[p]
  BY <1>1 DEF TypeOK
<1>4. Live(o)' /\ \A p \in Objs \ {o} : Live(p)' <=> Live(p)
  BY <1>1, <1>3 DEF Live, Created
<1>5. leased' = [leased EXCEPT ![o] = a]
  <2>1. leased'[o] = a
    BY <1>1, <1>3, <1>4 DEF leased
  <2>2. \A p \in Objs \ {o} : leased'[p] = leased[p]
    BY <1>3, <1>4 DEF leased
  <2> QED
    BY <2>1, <2>2 DEF leased
<1>6. \A p \in Objs : leased[p] # a
  <2>1. a \in Nat /\ counter <= a
    BY <1>1 DEF Allocate, Address, TypeOK
  <2>2. \A p \in Created : vm[p].ip < counter /\ vm[p].ip \in Nat
    <3>1. \A p \in Created : vm[p] \in VmRecord
      BY DEF TypeOK, Created
    <3> QED
      BY <3>1 DEF AddressesOK, VmRecord, Address
  <2>3. \A p \in Objs : leased[p] = NoVm \/ (p \in Created /\ leased[p] = vm[p].ip)
    BY DEF leased, Live
  <2> QED
    BY <2>1, <2>2, <2>3 DEF TypeOK
<1>7. leased[o] = NoVm
  BY <1>2 DEF leased
<1>8. Leases!Grant(o, a)
  BY <1>5, <1>6, <1>7 DEF Leases!Grant
<1> QED
  BY <1>8 DEF Leases!Next

\* Every other step kills VMs or leaves them be.
LEMMA StepLeases ==
  ASSUME IInv, [Next]_vars
  PROVE  [Leases!Next]_leased
<1> USE DEF IInv
<1>1. ASSUME vm' = vm
      PROVE  [Leases!Next]_leased
  <2>1. leased' = leased
    BY <1>1 DEF leased, Live, Created
  <2> QED
    BY <2>1
<1>2. ASSUME NEW r \in Threads, Create(r)
      PROVE  [Leases!Next]_leased
  <2>1. CASE \E o \in Objs : CreateSucceeds(r, o)
    BY <1>2, <2>1, CreateGrants
  <2>2. CASE CreateExists(r) \/ CreateNoAddress(r) \/ CreateFails(r)
    BY <1>1, <2>2 DEF CreateExists, CreateNoAddress, CreateFails
  <2> QED
    BY <1>2, <2>1, <2>2 DEF Create
<1>3. ASSUME NEW o \in Created, NEW new, vm' = [vm EXCEPT ![o] = new], new.ip = vm[o].ip,
             new.process = "up" \/ new.task \in {"launch", "boot"} => Live(o)
      PROVE  Leases!Next
  <2>1. o \in Objs
    BY DEF Created
  <2>2. vm'[o] = new /\ \A p \in Objs \ {o} : vm'[p] = vm[p]
    BY <1>3, <2>1 DEF TypeOK
  <2>3. \A p \in Objs : Live(p)' => Live(p) /\ vm'[p].ip = vm[p].ip
    BY <1>3, <2>2 DEF Live, Created
  <2> QED
    BY <2>3, NoGrant
<1>4. ASSUME NEW r \in Threads, Stop(r)
      PROVE  [Leases!Next]_leased
  <2> DEFINE v == req[r].v
  <2>1. CASE StopMark(r)
    <3> DEFINE new == [vm[v] EXCEPT !.state = "stopping"]
    <3>1. v \in Created /\ vm[v] \in VmRecord
      BY <2>1 DEF StopMark, ThreadsOK, TypeOK, Created
    <3>2. /\ vm' = [vm EXCEPT ![v] = new] /\ new.ip = vm[v].ip
          /\ new.process = "up" \/ new.task \in {"launch", "boot"} => Live(v)
      BY <2>1, <3>1 DEF StopMark, VmRecord, Live
    <3> QED
      BY <1>3, <3>1, <3>2
  <2>2. CASE StopCancel(r)
    <3> DEFINE new == [vm[v] EXCEPT !.cancelled = TRUE]
    <3>1. v \in Created /\ vm[v] \in VmRecord
      BY <2>2 DEF StopCancel, ThreadsOK, TypeOK, Created
    <3>2. /\ vm' = [vm EXCEPT ![v] = new] /\ new.ip = vm[v].ip
          /\ new.process = "up" \/ new.task \in {"launch", "boot"} => Live(v)
      BY <2>2, <3>1 DEF StopCancel, VmRecord, Live
    <3> QED
      BY <1>3, <3>1, <3>2
  <2>3. CASE StopLookup(r) \/ StopTap(r) \/ StopRelease(r)
    BY <1>1, <2>3 DEF StopLookup, StopTap, StopRelease
  <2> QED
    BY <1>4, <2>1, <2>2, <2>3 DEF Stop
<1>5. ASSUME NEW o \in Objs, StartVM(o) \/ GuestExits(o)
      PROVE  [Leases!Next]_leased
  <2>1. o \in Created /\ vm[o] \in VmRecord
    BY <1>5 DEF StartVM, GuestExits, Launch, Booted, StartFails, Waited, Kill, GuestExit, Up, Created,
       TypeOK
  <2>2. PICK new : /\ vm' = [vm EXCEPT ![o] = new] /\ new.ip = vm[o].ip
                   /\ new.process = "up" \/ new.task \in {"launch", "boot"} => Live(o)
    <3>1. CASE Launch(o)
      <4> DEFINE new == [vm[o] EXCEPT !.task = "boot", !.process = "up"]
      <4>1. /\ new.ip = vm[o].ip
            /\ new.process = "up" \/ new.task \in {"launch", "boot"} => Live(o)
        BY <2>1, <3>1 DEF Launch, VmRecord, Live
      <4>2. vm' = [vm EXCEPT ![o] = new]
        BY <3>1 DEF Launch
      <4> QED
        BY <4>1, <4>2
    <3>2. CASE Booted(o)
      <4> DEFINE new == [vm[o] EXCEPT !.task = "wait", !.state = "running"]
      <4>1. /\ new.ip = vm[o].ip
            /\ new.process = "up" \/ new.task \in {"launch", "boot"} => Live(o)
        BY <2>1, <3>2 DEF Booted, VmRecord, Live
      <4>2. vm' = [vm EXCEPT ![o] = new]
        BY <3>2 DEF Booted
      <4> QED
        BY <4>1, <4>2
    <3>3. CASE StartFails(o)
      <4>0. PICK p \in {"gone", vm[o].process} :
              vm' = [vm EXCEPT ![o] = [@ EXCEPT !.task = "done", !.state = "error", !.process = p]]
        BY <3>3 DEF StartFails
      <4> DEFINE new == [vm[o] EXCEPT !.task = "done", !.state = "error", !.process = p]
      <4>1. /\ new.ip = vm[o].ip
            /\ new.process = "up" \/ new.task \in {"launch", "boot"} => Live(o)
        BY <2>1, <3>3, <4>0 DEF StartFails, VmRecord, Live
      <4>2. vm' = [vm EXCEPT ![o] = new]
        BY <4>0
      <4> QED
        BY <4>1, <4>2
    <3>4. CASE Waited(o)
      <4> DEFINE new == [vm[o] EXCEPT !.task = "done", !.state = "stopped"]
      <4>1. /\ new.ip = vm[o].ip
            /\ new.process = "up" \/ new.task \in {"launch", "boot"} => Live(o)
        BY <2>1, <3>4 DEF Waited, VmRecord, Live
      <4>2. vm' = [vm EXCEPT ![o] = new]
        BY <3>4 DEF Waited
      <4> QED
        BY <4>1, <4>2
    <3>5. CASE Kill(o) \/ GuestExit(o)
      <4> DEFINE new == [vm[o] EXCEPT !.process = "gone"]
      <4>1. /\ new.ip = vm[o].ip
            /\ new.process = "up" \/ new.task \in {"launch", "boot"} => Live(o)
        BY <2>1, <3>5 DEF Kill, GuestExit, VmRecord, Live
      <4>2. vm' = [vm EXCEPT ![o] = new]
        BY <3>5 DEF Kill, GuestExit
      <4> QED
        BY <4>1, <4>2
    <3> QED
      BY <1>5, <3>1, <3>2, <3>3, <3>4, <3>5 DEF StartVM, GuestExits
  <2> QED
    BY <1>3, <2>1, <2>2
<1>6. CASE Restart
  <2>1. \A o \in Objs : ~ Live(o)'
    BY <1>6 DEF Restart, Live, Created
  <2> QED
    BY <2>1, NoGrant
<1>7. CASE UNCHANGED vars
  BY <1>1, <1>7 DEF vars
<1>8. ASSUME NEW r \in Threads, Destroy(r) \/ Redeploy(r)
      PROVE  [Leases!Next]_leased
  BY <1>1, <1>8 DEF Destroy, DestroyUnmap, DestroyFiles, Redeploy, RedeployUnmap, DeployMount, DeployWritten
<1>9. ASSUME NEW r \in Handlers, NEW i \in Ids,
             \/ BeginCreate(r, i)
             \/ BeginRedeploy(r, i)
             \/ BeginDestroy(r, i)
      PROVE  [Leases!Next]_leased
  BY <1>1, <1>9 DEF BeginCreate, BeginRedeploy, BeginDestroy, Arrive, Begin
<1>10. CASE Shutdown \/ StopAllDone \/ Crash \/ \E i \in Ids : StopAllNext(i)
  BY <1>1, <1>10 DEF Shutdown, StopAllDone, Crash, Exit, StopAllNext, Begin
<1> QED
  BY <1>2, <1>4, <1>5, <1>6, <1>7, <1>8, <1>9, <1>10 DEF Next, HandlerStep

\* The manager implements AddressLease, with Live VMs as the holders.
THEOREM LeaseRefinement == Spec => LeaseSpec
<1>1. Init => Leases!Init
  <2> SUFFICES ASSUME Init PROVE Leases!Init
    OBVIOUS
  <2>1. \A o \in Objs : ~ Live(o)
    BY DEF Init, Live, Created
  <2> QED
    BY <2>1 DEF Leases!Init, leased
<1>2. IInv /\ [Next]_vars => [Leases!Next]_leased
  BY StepLeases
<1> QED
  BY <1>1, <1>2, Invariance, PTL DEF Spec, LeaseSpec, Leases!Spec

-----------------------------------------------------------------------------
(***************************************************************************)
(* Isolation: what holds of the ids whose own requests did not overlap.    *)
(***************************************************************************)
\* StopAll works for the main goroutine alone, and only in a shutdown.
MainOK ==
  /\ manager # "closing" => todo = {}
  /\ Busy(Main) => manager = "closing" /\ req[Main].op = "stopall" /\ req[Main].pc \in StopSteps

\* Two handlers that work for one id have been noticed.
OneByOne ==
  \A g, h \in Handlers :
    g # h /\ Busy(g) /\ Busy(h) /\ req[g].id = req[h].id => req[g].id \in overlapped

\* What a handler may rely on where it is: the object it stops is of its id and,
\* when its id is its own, registered until it is unmapped; nothing is
\* registered for the id while it deploys or deletes files.
Place(h) ==
  LET i == req[h].id IN
  /\ req[h].op # "stopall"
  /\ req[h].pc \in {"create", "mount", "write"} => req[h].op # "destroy"
  /\ req[h].pc \in StopSteps \ {"lookup"} => vm[req[h].v].id = i
  /\ \/ i \in overlapped
     \/ /\ req[h].pc \in StopSteps \ {"lookup"} => vms[i] = req[h].v
        /\ req[h].pc = "unmap" /\ vms[i] # NoVm => vm[vms[i]].cancelled
        /\ req[h].pc \in {"mount", "write", "files"} => vms[i] = NoVm

PlacesOK == \A h \in Handlers : Busy(h) => Place(h)

\* The map and the objects agree: on ids, and on all VMs not told to die.
MapOK ==
  /\ \A i \in Ids : vms[i] # NoVm => vm[vms[i]].id = i
  /\ \A o \in Created : ~ vm[o].cancelled => vms[vm[o].id] = o \/ vm[o].id \in overlapped

IsolationInv ==
  /\ MainOK
  /\ OneByOne
  /\ PlacesOK
  /\ MapOK
  /\ KeepsItsDevices

LEMMA InitIsolated == Init => IsolationInv
<1> SUFFICES ASSUME Init PROVE IsolationInv
  OBVIOUS
<1>1. Created = {} /\ \A r \in Threads : ~ Busy(r)
  BY DEF Init, Created, Busy
<1>2. MainOK /\ OneByOne /\ PlacesOK
  BY <1>1 DEF MainOK, OneByOne, PlacesOK, Init, Threads
<1>3. MapOK /\ KeepsItsDevices
  BY <1>1 DEF MapOK, KeepsItsDevices, Init
<1> QED
  BY <1>2, <1>3 DEF IsolationInv

\* A busy thread that goes on, or answers, keeps its id and its operation.
LEMMA Bookkeeping ==
  ASSUME IInv, IsolationInv, NEW r \in Threads, Busy(r),
         Reply(r) \/ \E new \in Request :
                       /\ req' = [req EXCEPT ![r] = new]
                       /\ new.id = req[r].id /\ new.op = req[r].op
                       /\ r = Main => new.pc \in StopSteps,
         UNCHANGED <<manager, todo, overlapped>>
  PROVE  /\ MainOK' /\ OneByOne'
         /\ \A h \in Handlers \ {r} : req'[h] = req[h]
<1>1. req \in [Threads -> Request \cup {NoRequest}] /\ Handlers \subseteq Threads /\ Main \in Threads
  BY DEF IInv, TypeOK, Threads
<1>2. \A q \in Threads \ {r} : req'[q] = req[q]
  BY <1>1 DEF Reply
<1>3. Busy(r)' => /\ req'[r].id = req[r].id /\ req'[r].op = req[r].op
                  /\ r = Main => req'[r].pc \in StopSteps
  BY <1>1 DEF Reply, Busy
<1>4. \A q \in Threads : Busy(q)' => Busy(q) /\ req'[q].id = req[q].id
  BY <1>2, <1>3 DEF Busy
<1>5. MainOK'
  BY <1>1, <1>2, <1>3, <1>4 DEF IsolationInv, MainOK, Busy
<1>6. OneByOne'
  BY <1>1, <1>4 DEF IsolationInv, OneByOne
<1> QED
  BY <1>1, <1>2, <1>5, <1>6

\* What a handler relies on is not disturbed by what leaves its app alone.
LEMMA OtherPlaces ==
  ASSUME IInv, NEW h \in Handlers, Busy(h), Place(h), req'[h] = req[h],
         req[h].id \in overlapped \/ vms'[req[h].id] = vms[req[h].id],
         overlapped \subseteq overlapped',
         \A o \in Created : vm'[o].id = vm[o].id /\ (vm[o].cancelled => vm'[o].cancelled)
  PROVE  Place(h)'
<1> DEFINE i == req[h].id
<1>1. i \in Ids
  BY DEF IInv, TypeOK, Busy, Request, Threads
<1>2. vms[i] # NoVm => vms[i] \in Created
  BY <1>1 DEF IInv, RegistryOK
<1>3. req[h].pc \in StopSteps \ {"lookup"} => req[h].v \in Created
  BY DEF StopSteps, IInv, ThreadsOK, At, Threads
<1> QED
  BY <1>1, <1>2, <1>3 DEF Place

\* A step that moves only threads and lets VMs die keeps map and devices.
LEMMA MapKept ==
  ASSUME IInv, IsolationInv, UNCHANGED <<vms, tap, rootfs, manager>>, Created' = Created,
         overlapped \subseteq overlapped',
         \A o \in Created : vm'[o].id = vm[o].id /\ (vm[o].cancelled => vm'[o].cancelled)
  PROVE  /\ MapOK' /\ KeepsItsDevices'
         /\ \A h \in Handlers : Busy(h) /\ req'[h] = req[h] => Place(h)'
<1>1. \A i \in Ids : vms[i] # NoVm => vms[i] \in Created
  BY DEF IInv, RegistryOK
<1>2. MapOK'
  BY <1>1 DEF IsolationInv, MapOK
<1>3. KeepsItsDevices'
  BY <1>1 DEF IsolationInv, KeepsItsDevices
<1>4. \A h \in Handlers : Busy(h) /\ req'[h] = req[h] => Place(h)'
  BY OtherPlaces DEF IsolationInv, PlacesOK
<1> QED
  BY <1>2, <1>3, <1>4

LEMMA BeginIsolated ==
  ASSUME IInv, IsolationInv, NEW r \in Handlers, NEW i \in Ids,
         \/ BeginCreate(r, i)
         \/ BeginRedeploy(r, i)
         \/ BeginDestroy(r, i)
  PROVE  IsolationInv'
<1>1. PICK op \in {"create", "redeploy", "destroy"}, pc \in {"create", "lookup"} :
        /\ Arrive(r, op, i, pc)
        /\ pc = "create" => op = "create"
  BY DEF BeginCreate, BeginRedeploy, BeginDestroy
<1>2. /\ ~ Busy(r) /\ manager = "up" /\ UNCHANGED todo
      /\ overlapped \subseteq overlapped'
      /\ (\E h \in Handlers : Busy(h) /\ req[h].id = i) => i \in overlapped'
  BY <1>1 DEF Arrive, MayBegin, Overlaps
<1>3. /\ req' = [req EXCEPT ![r] = [op |-> op, id |-> i, pc |-> pc, v |-> NoVm]]
      /\ UNCHANGED <<vms, vm, tap, rootfs, manager>>
  BY <1>1 DEF Arrive, Begin, files
<1>4. req'[r] = [op |-> op, id |-> i, pc |-> pc, v |-> NoVm] /\ r # Main
  BY <1>3 DEF IInv, TypeOK, Threads
<1>5. \A q \in Threads \ {r} : req'[q] = req[q]
  BY <1>3 DEF IInv, TypeOK
<1>6. MainOK'
  BY <1>2, <1>3, <1>4, <1>5 DEF IsolationInv, MainOK, Busy, Threads
<1>7. OneByOne'
  BY <1>2, <1>4, <1>5 DEF IsolationInv, OneByOne, Busy, Threads
<1>8. Created' = Created
  BY <1>3 DEF Created
<1>9. /\ MapOK' /\ KeepsItsDevices'
      /\ \A h \in Handlers : Busy(h) /\ req'[h] = req[h] => Place(h)'
  BY <1>2, <1>3, <1>8, MapKept
<1>10. Place(r)'
  BY <1>1, <1>3, <1>4 DEF Place, StopSteps
<1>11. PlacesOK'
  BY <1>5, <1>9, <1>10 DEF PlacesOK, Busy, Threads
<1> QED
  BY <1>6, <1>7, <1>9, <1>11 DEF IsolationInv

\* Stop: the object it works on stays registered, also while the main goroutine
\* stops VMs next to a handler.
LEMMA StopIsolated ==
  ASSUME IInv, IsolationInv, NEW r \in Threads, Stop(r)
  PROVE  IsolationInv'
<1> DEFINE i == req[r].id
           v == req[r].v
<1>1. req[r] \in Request /\ i \in Ids /\ Busy(r)
  BY DEF Stop, StopLookup, StopMark, StopCancel, StopTap, StopRelease, At, Busy, IInv, TypeOK, Request
<1>2. /\ r = Main => req[r].op = "stopall"
      /\ r \in Handlers => Place(r) /\ req[r].op # "stopall"
  BY <1>1 DEF IsolationInv, MainOK, PlacesOK, Place
<1>3. UNCHANGED <<vms, rootfs, manager, todo, overlapped>>
  BY DEF Stop, StopLookup, StopMark, StopCancel, StopTap, StopRelease, files, daemon
<1>4. ASSUME NEW new \in Request, req' = [req EXCEPT ![r] = new], new.id = i, new.op = req[r].op
      PROVE  req'[r] = new
  BY <1>4 DEF IInv, TypeOK
<1>5. CASE StopLookup(r)
  <2> DEFINE o == vms[i]
             new == [req[r] EXCEPT !.v = o, !.pc = "mark"]
             out == [req[r] EXCEPT !.pc = "unmap"]
  <2>1. UNCHANGED <<tap, vm>> /\ Created' = Created
    BY <1>5 DEF StopLookup, Created
  <2>2. o # NoVm => /\ new \in Request /\ new.id = i /\ new.op = req[r].op /\ new.pc = "mark" /\ new.v = o
                    /\ req' = [req EXCEPT ![r] = new]
    BY <1>1, <1>5 DEF StopLookup, Request, StopSteps, IInv, TypeOK
  <2>3. o = NoVm /\ r # Main => /\ out \in Request /\ out.id = i /\ out.op = req[r].op /\ out.pc = "unmap"
                                /\ req' = [req EXCEPT ![r] = out]
    BY <1>1, <1>2, <1>5 DEF StopLookup, StopReturns, Goto, Request, Threads
  <2>4. o = NoVm /\ r = Main => Reply(r)
    BY <1>2, <1>5 DEF StopLookup, StopReturns
  <2> HIDE DEF new, out
  <2>5. MainOK' /\ OneByOne' /\ \A h \in Handlers \ {r} : req'[h] = req[h]
    BY <1>1, <1>3, <2>2, <2>3, <2>4, Bookkeeping DEF StopSteps
  <2>6. /\ MapOK' /\ KeepsItsDevices'
        /\ \A h \in Handlers : Busy(h) /\ req'[h] = req[h] => Place(h)'
    BY <1>3, <2>1, MapKept
  <2>7. r \in Handlers => Place(r)'
    <3>1. ASSUME r \in Handlers PROVE r # Main
      BY <3>1
    <3>2. o # NoVm => vm[o].id = i
      BY <1>1 DEF IsolationInv, MapOK
    <3>3. o # NoVm /\ r \in Handlers => req'[r] = new
      BY <1>4, <2>2
    <3>4. o = NoVm /\ r \in Handlers => req'[r] = out
      BY <1>4, <2>3, <3>1
    <3>5. vms' = vms /\ vm' = vm /\ overlapped' = overlapped
      BY <1>3, <2>1
    <3>6. CASE o = NoVm
      BY <1>2, <2>3, <3>1, <3>4, <3>5, <3>6 DEF Place, StopSteps
    <3>7. CASE o # NoVm
      BY <1>2, <2>2, <3>2, <3>3, <3>5, <3>7 DEF Place, StopSteps
    <3> QED
      BY <3>6, <3>7
  <2>8. PlacesOK'
    BY <2>5, <2>6, <2>7 DEF PlacesOK, Busy
  <2> QED
    BY <2>5, <2>6, <2>8 DEF IsolationInv
<1>6. ASSUME NEW pc \in {"cancel", "tap"}, StopMark(r) \/ StopCancel(r), Goto(r, pc),
             UNCHANGED tap, v \in Created, Created' = Created, req[r].pc \in {"mark", "cancel"},
             \A o \in Created : vm'[o].id = vm[o].id /\ (vm[o].cancelled => vm'[o].cancelled)
      PROVE  IsolationInv'
  <2> DEFINE new == [req[r] EXCEPT !.pc = pc]
  <2>1. /\ new \in Request /\ new.id = i /\ new.op = req[r].op /\ new.pc = pc /\ new.v = v
        /\ req' = [req EXCEPT ![r] = new]
    BY <1>1, <1>6 DEF Goto, Request, StopSteps
  <2> HIDE DEF new
  <2>2. MainOK' /\ OneByOne' /\ \A h \in Handlers \ {r} : req'[h] = req[h]
    BY <1>1, <1>3, <2>1, Bookkeeping DEF StopSteps
  <2>3. /\ MapOK' /\ KeepsItsDevices'
        /\ \A h \in Handlers : Busy(h) /\ req'[h] = req[h] => Place(h)'
    BY <1>3, <1>6, MapKept
  <2>4. r \in Handlers => Place(r)'
    BY <1>2, <1>3, <1>4, <1>6, <2>1 DEF Place, StopSteps
  <2>5. PlacesOK'
    BY <2>2, <2>3, <2>4 DEF PlacesOK, Busy
  <2> QED
    BY <2>2, <2>3, <2>5 DEF IsolationInv
<1>7. CASE StopMark(r) \/ StopCancel(r)
  <2>1. v \in Created /\ vm[v] \in VmRecord /\ req[r].pc \in {"mark", "cancel"}
    BY <1>7 DEF StopMark, StopCancel, IInv, ThreadsOK, TypeOK, Created, At
  <2>2. PICK new \in VmRecord : /\ vm' = [vm EXCEPT ![v] = new] /\ new.id = vm[v].id
                                /\ vm[v].cancelled => new.cancelled
    <3>1. CASE StopMark(r)
      <4> DEFINE new == [vm[v] EXCEPT !.state = "stopping"]
      <4>1. new \in VmRecord /\ new.id = vm[v].id /\ new.cancelled = vm[v].cancelled
        BY <2>1 DEF VmRecord, VmState
      <4> QED
        BY <3>1, <4>1 DEF StopMark
    <3>2. CASE StopCancel(r)
      <4> DEFINE new == [vm[v] EXCEPT !.cancelled = TRUE]
      <4>1. new \in VmRecord /\ new.id = vm[v].id /\ new.cancelled
        BY <2>1 DEF VmRecord
      <4> QED
        BY <3>2, <4>1 DEF StopCancel
    <3> QED
      BY <1>7, <3>1, <3>2
  <2>3. v \in Objs /\ Created' = Created
    BY <2>1, <2>2 DEF Created, IInv, TypeOK
  <2>4. \A o \in Created : vm'[o].id = vm[o].id /\ (vm[o].cancelled => vm'[o].cancelled)
    BY <2>2, <2>3 DEF Created, IInv, TypeOK
  <2>5. UNCHANGED tap /\ (Goto(r, "cancel") \/ Goto(r, "tap"))
    BY <1>7 DEF StopMark, StopCancel
  <2> QED
    BY <1>6, <1>7, <2>1, <2>3, <2>4, <2>5
<1>8. CASE StopTap(r)
  <2> DEFINE new == [req[r] EXCEPT !.pc = "release"]
  <2>1. UNCHANGED vm /\ Created' = Created /\ tap' = [tap EXCEPT ![vm[v].id] = NoVm] /\ req[r].pc = "tap"
    BY <1>8 DEF StopTap, Created, At
  <2>2. /\ new \in Request /\ new.id = i /\ new.op = req[r].op /\ new.pc = "release" /\ new.v = v
        /\ req' = [req EXCEPT ![r] = new]
    BY <1>1, <1>8 DEF StopTap, Goto, Request, StopSteps
  <2> HIDE DEF new
  <2>3. MainOK' /\ OneByOne' /\ \A h \in Handlers \ {r} : req'[h] = req[h]
    BY <1>1, <1>3, <2>2, Bookkeeping DEF StopSteps
  <2>4. MapOK'
    BY <1>3, <2>1 DEF IsolationInv, MapOK
  <2>5. v \in Created /\ vm[v].cancelled /\ v # NoVm
    BY <1>8, <2>1 DEF StopTap, IInv, ThreadsOK, Created
  <2>6. KeepsItsDevices'
    <3>1. CASE r = Main
      BY <1>1, <1>3, <3>1 DEF IsolationInv, MainOK, KeepsItsDevices
    <3>2. CASE r \in Handlers
      <4>1. (vms[i] = v \/ i \in overlapped) /\ vm[v].id = i
        BY <1>1, <1>2, <2>1, <2>5, <3>2 DEF Place, StopSteps
      <4> QED
        BY <1>3, <2>1, <2>5, <4>1 DEF IsolationInv, KeepsItsDevices, IInv, TypeOK
    <3> QED
      BY <3>1, <3>2 DEF Threads
  <2>7. \A h \in Handlers : Busy(h) /\ req'[h] = req[h] => Place(h)'
    BY <1>3, <2>1, OtherPlaces DEF IsolationInv, PlacesOK
  <2>8. r \in Handlers => Place(r)'
    BY <1>2, <1>3, <1>4, <2>1, <2>2 DEF Place, StopSteps
  <2>9. PlacesOK'
    BY <2>3, <2>7, <2>8 DEF PlacesOK, Busy
  <2> QED
    BY <2>3, <2>4, <2>6, <2>9 DEF IsolationInv
<1>9. CASE StopRelease(r)
  <2> DEFINE out == [req[r] EXCEPT !.pc = "unmap"]
  <2>1. UNCHANGED <<tap, vm>> /\ Created' = Created /\ req[r].pc = "release"
    BY <1>9 DEF StopRelease, Created, At
  <2>2. r # Main => /\ out \in Request /\ out.id = i /\ out.op = req[r].op /\ out.pc = "unmap"
                    /\ req' = [req EXCEPT ![r] = out]
    BY <1>1, <1>2, <1>9 DEF StopRelease, StopReturns, Goto, Request, Threads
  <2>3. r = Main => Reply(r)
    BY <1>2, <1>9 DEF StopRelease, StopReturns
  <2> HIDE DEF out
  <2>4. MainOK' /\ OneByOne' /\ \A h \in Handlers \ {r} : req'[h] = req[h]
    BY <1>1, <1>3, <2>2, <2>3, Bookkeeping
  <2>5. /\ MapOK' /\ KeepsItsDevices'
        /\ \A h \in Handlers : Busy(h) /\ req'[h] = req[h] => Place(h)'
    BY <1>3, <2>1, MapKept
  <2>6. vm[v].cancelled
    BY <1>9 DEF StopRelease, IInv, ThreadsOK
  <2>7. r \in Handlers => Place(r)'
    BY <1>2, <1>3, <1>4, <2>1, <2>2, <2>6 DEF Place, StopSteps
  <2>8. PlacesOK'
    BY <2>4, <2>5, <2>7 DEF PlacesOK, Busy
  <2> QED
    BY <2>4, <2>5, <2>8 DEF IsolationInv
<1> QED
  BY <1>5, <1>7, <1>8, <1>9 DEF Stop

\* Unregistering: the VM of a handler at "unmap" was told to die.
LEMMA UnmapIsolated ==
  ASSUME IInv, IsolationInv, NEW r \in Handlers, Busy(r), req[r].pc = "unmap",
         vms' = [vms EXCEPT ![req[r].id] = NoVm],
         UNCHANGED <<vm, tap, rootfs, manager, overlapped>>
  PROVE  /\ MapOK' /\ KeepsItsDevices'
         /\ vms'[req[r].id] = NoVm
         /\ \A j \in Ids : vms[j] = NoVm => vms'[j] = NoVm
         /\ \A h \in Handlers \ {r} : Busy(h) /\ req'[h] = req[h] => Place(h)'
<1> DEFINE i == req[r].id
<1>1. i \in Ids /\ vms \in [Ids -> Objs \cup {NoVm}]
  BY DEF IInv, TypeOK, Busy, Request, Threads
<1>2. vms'[i] = NoVm /\ \A j \in Ids \ {i} : vms'[j] = vms[j]
  BY <1>1
<1>3. Created' = Created /\ NoVm \notin Created
  BY DEF Created
<1>4. vms[i] # NoVm => vm[vms[i]].cancelled \/ i \in overlapped
  BY DEF IsolationInv, PlacesOK, Place
<1>5. MapOK'
  <2>1. \A j \in Ids : vms'[j] # NoVm => vm'[vms'[j]].id = j
    BY <1>2 DEF IsolationInv, MapOK
  <2>2. ASSUME NEW o \in Created, ~ vm[o].cancelled
        PROVE  vms'[vm[o].id] = o \/ vm[o].id \in overlapped
    <3>1. (vms[vm[o].id] = o \/ vm[o].id \in overlapped) /\ vm[o].id \in Ids
      BY <2>2 DEF IsolationInv, MapOK, IInv, TypeOK, Created, VmRecord
    <3>2. vm[o].id # i \/ vm[o].id \in overlapped
      BY <1>3, <1>4, <2>2, <3>1
    <3> QED
      BY <1>2, <3>1, <3>2
  <2> QED
    BY <1>3, <2>1, <2>2 DEF MapOK
<1>6. KeepsItsDevices'
  BY <1>2 DEF IsolationInv, KeepsItsDevices
<1>7. ASSUME NEW h \in Handlers \ {r}, Busy(h), req'[h] = req[h]
      PROVE  Place(h)'
  <2>1. (req[h].id = i => i \in overlapped) /\ Place(h) /\ req[h].id \in Ids
    BY <1>7 DEF IsolationInv, OneByOne, PlacesOK, IInv, TypeOK, Busy, Request, Threads
  <2>2. req[h].id \in overlapped \/ vms'[req[h].id] = vms[req[h].id]
    BY <1>2, <2>1
  <2> QED
    BY <1>7, <2>1, <2>2, OtherPlaces
<1> QED
  BY <1>2, <1>5, <1>6, <1>7

LEMMA DestroyIsolated ==
  ASSUME IInv, IsolationInv, NEW r \in Threads, Destroy(r)
  PROVE  IsolationInv'
<1> DEFINE i == req[r].id
           new == [req[r] EXCEPT !.v = vms[i], !.pc = "files"]
<1>1. req[r] \in Request /\ i \in Ids /\ Busy(r) /\ req[r].pc \in {"unmap", "files"}
  BY DEF Destroy, DestroyUnmap, DestroyFiles, At, Busy, IInv, TypeOK, Request
<1>2. r \in Handlers /\ Place(r) /\ UNCHANGED <<vm, tap, manager, todo, overlapped>>
  BY <1>1 DEF IsolationInv, MainOK, PlacesOK, StopSteps, Threads, Destroy, DestroyUnmap, DestroyFiles,
     files, daemon
<1>3. r # Main
  BY <1>2
<1>4. CASE DestroyUnmap(r)
  <2>1. vms[i] # NoVm => /\ new \in Request /\ new.id = i /\ new.op = req[r].op /\ new.pc = "files"
                         /\ req' = [req EXCEPT ![r] = new]
    BY <1>1, <1>4 DEF DestroyUnmap, Request, StopSteps, IInv, TypeOK
  <2>2. vms[i] = NoVm => Reply(r)
    BY <1>4 DEF DestroyUnmap
  <2> HIDE DEF new
  <2>3. MainOK' /\ OneByOne' /\ \A h \in Handlers \ {r} : req'[h] = req[h]
    BY <1>1, <1>2, <1>3, <2>1, <2>2, Bookkeeping
  <2>4. req[r].pc = "unmap" /\ vms' = [vms EXCEPT ![i] = NoVm] /\ UNCHANGED rootfs
    BY <1>4 DEF DestroyUnmap, At, files
  <2>5. /\ MapOK' /\ KeepsItsDevices' /\ (vms'[i] = NoVm \/ i \in overlapped)
        /\ \A j \in Ids : vms[j] = NoVm => vms'[j] = NoVm
        /\ \A h \in Handlers \ {r} : Busy(h) /\ req'[h] = req[h] => Place(h)'
    BY <1>1, <1>2, <2>4, UnmapIsolated
  <2>6. Busy(r)' => req'[r] = new /\ vms[i] # NoVm
    BY <2>1, <2>2 DEF Reply, Busy, IInv, TypeOK
  <2>7. Busy(r)' => Place(r)'
    BY <1>2, <2>1, <2>5, <2>6 DEF Place, StopSteps
  <2>8. PlacesOK'
    BY <2>3, <2>5, <2>7 DEF PlacesOK, Busy
  <2> QED
    BY <2>3, <2>5, <2>8 DEF IsolationInv
<1>5. CASE DestroyFiles(r)
  <2>1. Reply(r) /\ UNCHANGED vms /\ rootfs' = rootfs \ {i} /\ (vms[i] = NoVm \/ i \in overlapped)
    BY <1>2, <1>5 DEF DestroyFiles, Place, At
  <2>2. MainOK' /\ OneByOne' /\ \A h \in Handlers \ {r} : req'[h] = req[h]
    BY <1>1, <1>2, <2>1, Bookkeeping
  <2>3. MapOK' /\ KeepsItsDevices'
    BY <1>2, <2>1 DEF IsolationInv, MapOK, KeepsItsDevices, Created
  <2>4. PlacesOK'
    <3>1. ~ Busy(r)'
      BY <1>2, <2>1 DEF Reply, Busy, IInv, TypeOK
    <3>2. \A h \in Handlers : Busy(h) /\ req'[h] = req[h] => Place(h)'
      BY <1>2, <2>1, OtherPlaces DEF IsolationInv, PlacesOK
    <3> QED
      BY <2>2, <3>1, <3>2 DEF PlacesOK, Busy
  <2> QED
    BY <2>2, <2>3, <2>4 DEF IsolationInv
<1> QED
  BY <1>4, <1>5 DEF Destroy

LEMMA RedeployIsolated ==
  ASSUME IInv, IsolationInv, NEW r \in Threads, Redeploy(r)
  PROVE  IsolationInv'
<1> DEFINE i == req[r].id
<1>1. req[r] \in Request /\ i \in Ids /\ Busy(r) /\ req[r].pc \in {"unmap", "mount", "write"}
  BY DEF Redeploy, RedeployUnmap, DeployMount, DeployWritten, At, Busy, IInv, TypeOK, Request
<1>2. r \in Handlers /\ Place(r) /\ UNCHANGED <<vm, tap, rootfs, manager, todo, overlapped>>
  BY <1>1 DEF IsolationInv, MainOK, PlacesOK, StopSteps, Threads, Redeploy, RedeployUnmap, DeployMount,
     DeployWritten, files, daemon
<1>3. r # Main /\ req[r].op # "destroy"
  BY <1>1, <1>2 DEF Redeploy, RedeployUnmap, DeployMount, DeployWritten, At, Place
<1>4. PICK pc \in {"mount", "write", "create"}, v \in {req[r].v, NoVm} :
        Reply(r) \/ req' = [req EXCEPT ![r] = [@ EXCEPT !.pc = pc, !.v = v]]
  <2>1. CASE RedeployUnmap(r)
    BY <2>1 DEF RedeployUnmap, AfterUnmap
  <2>2. ASSUME NEW pc \in {"mount", "write", "create"}, Goto(r, pc)
        PROVE  req' = [req EXCEPT ![r] = [@ EXCEPT !.pc = pc, !.v = req[r].v]]
    <3>1. [req[r] EXCEPT !.pc = pc] = [req[r] EXCEPT !.pc = pc, !.v = req[r].v]
      BY <1>1 DEF Request
    <3> QED
      BY <2>2, <3>1 DEF Goto
  <2> QED
    BY <2>1, <2>2 DEF Redeploy, DeployMount, DeployWritten
<1> DEFINE new == [req[r] EXCEPT !.pc = pc, !.v = v]
<1>5. /\ new \in Request /\ new.id = i /\ new.op = req[r].op /\ new.pc = pc
      /\ Reply(r) \/ req' = [req EXCEPT ![r] = new]
  BY <1>1, <1>4 DEF Request, StopSteps
<1> HIDE DEF new
<1>6. MainOK' /\ OneByOne' /\ \A h \in Handlers \ {r} : req'[h] = req[h]
  BY <1>1, <1>2, <1>3, <1>5, Bookkeeping
<1>7. /\ MapOK' /\ KeepsItsDevices' /\ (vms'[i] = NoVm \/ i \in overlapped)
      /\ \A j \in Ids : vms[j] = NoVm => vms'[j] = NoVm
      /\ \A h \in Handlers \ {r} : Busy(h) /\ req'[h] = req[h] => Place(h)'
  <2>1. CASE RedeployUnmap(r)
    <3>1. vms' = [vms EXCEPT ![i] = NoVm] /\ req[r].pc = "unmap"
      BY <2>1 DEF RedeployUnmap, At
    <3> QED
      BY <1>1, <1>2, <3>1, UnmapIsolated
  <2>2. CASE DeployMount(r) \/ DeployWritten(r)
    <3>1. UNCHANGED vms /\ Created' = Created /\ (vms[i] = NoVm \/ i \in overlapped)
      BY <1>2, <2>2 DEF DeployMount, DeployWritten, Created, At, Place
    <3> QED
      BY <1>2, <3>1, MapKept
  <2> QED
    BY <2>1, <2>2 DEF Redeploy
<1>8. Busy(r)' => Place(r)'
  <2>1. Busy(r)' => req'[r] = new
    BY <1>5 DEF Reply, Busy, IInv, TypeOK
  <2> QED
    BY <1>2, <1>3, <1>5, <1>7, <2>1 DEF Place, StopSteps
<1>9. PlacesOK'
  BY <1>6, <1>7, <1>8 DEF PlacesOK, Busy
<1> QED
  BY <1>6, <1>7, <1>9 DEF IsolationInv

LEMMA CreateIsolated ==
  ASSUME IInv, IsolationInv, NEW r \in Threads, Create(r)
  PROVE  IsolationInv'
<1> DEFINE i == req[r].id
<1>1. req[r] \in Request /\ i \in Ids /\ Busy(r) /\ req[r].pc = "create"
  BY DEF Create, At, Busy, IInv, TypeOK, Request
<1>2. r \in Handlers /\ Place(r) /\ Reply(r) /\ UNCHANGED <<manager, todo, overlapped>>
  BY <1>1 DEF IsolationInv, MainOK, PlacesOK, StopSteps, Threads, Create, daemon
<1>3. MainOK' /\ OneByOne' /\ \A h \in Handlers \ {r} : req'[h] = req[h]
  BY <1>1, <1>2, Bookkeeping
<1>4. ~ Busy(r)'
  BY <1>2 DEF Reply, Busy, IInv, TypeOK, Threads
<1>5. CASE CreateExists(r) \/ CreateNoAddress(r)
  <2>1. UNCHANGED <<vms, vm, tap, rootfs>> /\ Created' = Created
    BY <1>5 DEF CreateExists, CreateNoAddress, Created
  <2>2. /\ MapOK' /\ KeepsItsDevices'
        /\ \A h \in Handlers : Busy(h) /\ req'[h] = req[h] => Place(h)'
    BY <1>2, <2>1, MapKept
  <2> QED
    BY <1>3, <1>4, <2>2 DEF IsolationInv, PlacesOK, Busy
<1>6. CASE CreateFails(r)
  <2>1. /\ vms[i] = NoVm /\ UNCHANGED <<vms, vm>>
        /\ tap' = [tap EXCEPT ![i] = NoVm]
        /\ rootfs \subseteq rootfs'
    BY <1>6 DEF CreateFails
  <2>2. MapOK' /\ KeepsItsDevices'
    BY <1>2, <2>1 DEF IsolationInv, MapOK, KeepsItsDevices, Created, IInv, TypeOK
  <2>3. \A h \in Handlers : Busy(h) /\ req'[h] = req[h] => Place(h)'
    BY <1>2, <2>1, OtherPlaces DEF IsolationInv, PlacesOK
  <2> QED
    BY <1>3, <1>4, <2>2, <2>3 DEF IsolationInv, PlacesOK, Busy
<1>7. ASSUME NEW o \in Objs, CreateSucceeds(r, o)
      PROVE  IsolationInv'
  <2>1. /\ vms[i] = NoVm /\ o \notin Created
        /\ vms' = [vms EXCEPT ![i] = o]
        /\ tap' = [tap EXCEPT ![i] = o]
        /\ rootfs' = rootfs \cup {i}
    BY <1>7 DEF CreateSucceeds
  <2>2. PICK a \in Address :
          vm' = [vm EXCEPT ![o] = NewVm(req[r], a)]
    BY <1>7 DEF CreateSucceeds
  <2>3. vm'[o].id = i /\ vm'[o].cancelled = FALSE /\ \A p \in Objs \ {o} : vm'[p] = vm[p]
    BY <1>7, <2>2 DEF CreateSucceeds, NewVm, IInv, TypeOK
  <2>4. Created' \subseteq Created \cup {o}
    BY <2>3 DEF Created
  <2>5. vms'[i] = o /\ \A j \in Ids \ {i} : vms'[j] = vms[j]
    BY <1>1, <2>1 DEF IInv, TypeOK
  <2>6. \A j \in Ids : vms[j] # NoVm => vms[j] \in Created
    BY DEF IInv, RegistryOK
  <2>7. \A p \in Created : p \in Objs /\ p # o /\ vm'[p] = vm[p] /\ vm[p].id \in Ids
    BY <2>1, <2>3 DEF Created, IInv, TypeOK, VmRecord
  <2>8. MapOK'
    <3>1. \A j \in Ids : vms'[j] # NoVm => vm'[vms'[j]].id = j
      BY <2>3, <2>5, <2>6, <2>7 DEF IsolationInv, MapOK
    <3>2. ASSUME NEW p \in Created, ~ vm'[p].cancelled
          PROVE  vms'[vm'[p].id] = p \/ vm'[p].id \in overlapped'
      <4>1. (vms[vm[p].id] = p \/ vm[p].id \in overlapped) /\ p # NoVm
        BY <2>7, <3>2 DEF IsolationInv, MapOK, Created
      <4> QED
        BY <1>2, <2>1, <2>5, <2>7, <4>1
    <3> QED
      BY <2>3, <2>4, <2>5, <3>1, <3>2 DEF MapOK
  <2>11. KeepsItsDevices'
    <3>1. \A j \in Ids \ {i} : tap'[j] = tap[j] /\ (j \in rootfs => j \in rootfs')
      BY <2>1 DEF IInv, TypeOK
    <3>2. tap'[i] = o /\ i \in rootfs'
      BY <1>1, <2>1 DEF IInv, TypeOK
    <3> QED
      BY <1>2, <2>5, <2>6, <2>7, <3>1, <3>2 DEF IsolationInv, KeepsItsDevices
  <2>12. ASSUME NEW h \in Handlers \ {r}, Busy(h), req'[h] = req[h]
         PROVE  Place(h)'
    <3>1. (req[h].id = i => i \in overlapped) /\ Place(h) /\ req[h].id \in Ids
      BY <1>1, <1>2, <2>12 DEF IsolationInv, OneByOne, PlacesOK, IInv, TypeOK, Busy, Request, Threads
    <3>2. req[h].id \in overlapped \/ vms'[req[h].id] = vms[req[h].id]
      BY <2>5, <3>1
    <3>3. \A p \in Created : vm'[p].id = vm[p].id /\ (vm[p].cancelled => vm'[p].cancelled)
      BY <2>7
    <3> QED
      BY <1>2, <2>12, <3>1, <3>2, <3>3, OtherPlaces
  <2> QED
    BY <1>3, <1>4, <2>8, <2>11, <2>12 DEF IsolationInv, PlacesOK, Busy
<1> QED
  BY <1>5, <1>6, <1>7 DEF Create

LEMMA VmIsolated ==
  ASSUME IInv, IsolationInv, NEW o \in Objs, StartVM(o) \/ GuestExits(o)
  PROVE  IsolationInv'
<1>1. o \in Created /\ vm[o] \in VmRecord
  BY DEF StartVM, GuestExits, Launch, Booted, StartFails, Waited, Kill, GuestExit, Up, Created,
     IInv, TypeOK
<1>2. UNCHANGED <<vms, tap, rootfs, req, todo, manager, overlapped>>
  BY DEF StartVM, GuestExits, files, daemon
<1>3. \E new \in VmRecord :
        vm' = [vm EXCEPT ![o] = new] /\ new.id = vm[o].id /\ new.cancelled = vm[o].cancelled
  <2>1. CASE Launch(o)
    <3> DEFINE new == [vm[o] EXCEPT !.task = "boot", !.process = "up"]
    <3>1. new \in VmRecord /\ new.id = vm[o].id /\ new.cancelled = vm[o].cancelled
      BY <1>1 DEF VmRecord
    <3> QED
      BY <2>1, <3>1 DEF Launch
  <2>2. CASE Booted(o)
    <3> DEFINE new == [vm[o] EXCEPT !.task = "wait", !.state = "running"]
    <3>1. new \in VmRecord /\ new.id = vm[o].id /\ new.cancelled = vm[o].cancelled
      BY <1>1 DEF VmRecord, VmState
    <3> QED
      BY <2>2, <3>1 DEF Booted
  <2>3. CASE StartFails(o)
    <3>1. PICK p \in {"gone", vm[o].process} :
            vm' = [vm EXCEPT ![o] = [@ EXCEPT !.task = "done", !.state = "error", !.process = p]]
      BY <2>3 DEF StartFails
    <3> DEFINE new == [vm[o] EXCEPT !.task = "done", !.state = "error", !.process = p]
    <3>2. new \in VmRecord /\ new.id = vm[o].id /\ new.cancelled = vm[o].cancelled
      BY <1>1 DEF VmRecord, VmState
    <3> QED
      BY <3>1, <3>2
  <2>4. CASE Waited(o)
    <3> DEFINE new == [vm[o] EXCEPT !.task = "done", !.state = "stopped"]
    <3>1. new \in VmRecord /\ new.id = vm[o].id /\ new.cancelled = vm[o].cancelled
      BY <1>1 DEF VmRecord, VmState
    <3> QED
      BY <2>4, <3>1 DEF Waited
  <2>5. CASE Kill(o) \/ GuestExit(o)
    <3> DEFINE new == [vm[o] EXCEPT !.process = "gone"]
    <3>1. new \in VmRecord /\ new.id = vm[o].id /\ new.cancelled = vm[o].cancelled
      BY <1>1 DEF VmRecord
    <3> QED
      BY <2>5, <3>1 DEF Kill, GuestExit
  <2> QED
    BY <2>1, <2>2, <2>3, <2>4, <2>5 DEF StartVM, GuestExits
<1>4. Created' = Created /\ \A p \in Created : vm'[p].id = vm[p].id /\ vm'[p].cancelled = vm[p].cancelled
  BY <1>1, <1>3 DEF Created, IInv, TypeOK
<1>5. /\ MapOK' /\ KeepsItsDevices'
      /\ \A h \in Handlers : Busy(h) /\ req'[h] = req[h] => Place(h)'
  BY <1>2, <1>4, MapKept
<1>6. MainOK' /\ OneByOne' /\ PlacesOK'
  BY <1>2, <1>5 DEF IsolationInv, MainOK, OneByOne, PlacesOK, Busy
<1> QED
  BY <1>5, <1>6 DEF IsolationInv

LEMMA DaemonIsolated ==
  ASSUME IInv, DeadOK, IsolationInv,
         Shutdown \/ StopAllDone \/ Crash \/ Restart \/ \E i \in Ids : StopAllNext(i)
  PROVE  IsolationInv'
<1>1. CASE Shutdown
  <2>1. /\ manager = "up" /\ manager' = "closing"
        /\ UNCHANGED <<vms, vm, tap, rootfs, req, overlapped>>
    BY <1>1 DEF Shutdown, files
  <2>2. MainOK' /\ KeepsItsDevices'
    BY <2>1 DEF IsolationInv, MainOK, KeepsItsDevices, Busy
  <2>3. OneByOne' /\ PlacesOK' /\ MapOK'
    BY <2>1 DEF IsolationInv, OneByOne, PlacesOK, Place, MapOK, Busy, Created
  <2> QED
    BY <2>2, <2>3 DEF IsolationInv
<1>2. CASE StopAllDone \/ Crash
  <2>1. /\ manager' = "down" /\ todo' = {} /\ \A r \in Threads : ~ Busy(r)'
        /\ UNCHANGED <<vms, vm, tap, rootfs, overlapped>>
    BY <1>2 DEF StopAllDone, Crash, Exit, Busy
  <2>2. MainOK' /\ OneByOne' /\ PlacesOK' /\ KeepsItsDevices'
    BY <2>1 DEF MainOK, OneByOne, PlacesOK, KeepsItsDevices, Threads
  <2>3. MapOK'
    BY <2>1 DEF IsolationInv, MapOK, Created
  <2> QED
    BY <2>2, <2>3 DEF IsolationInv
<1>3. CASE Restart
  <2>1. /\ todo' = {} /\ \A r \in Threads : ~ Busy(r)'
        /\ vms' = [i \in Ids |-> NoVm] /\ vm' = [o \in Objs |-> NoVm]
    BY <1>3 DEF Restart, DeadOK, Busy
  <2>2. Created' = {} /\ \A i \in Ids : vms'[i] = NoVm
    BY <2>1 DEF Created
  <2> QED
    BY <2>1, <2>2 DEF IsolationInv, MainOK, OneByOne, PlacesOK, MapOK, KeepsItsDevices,
       Threads
<1>4. ASSUME NEW i \in Ids, StopAllNext(i)
      PROVE  IsolationInv'
  <2>1. /\ i \in todo /\ todo' \subseteq todo
        /\ req' = [req EXCEPT ![Main] = [op |-> "stopall", id |-> i, pc |-> "lookup", v |-> NoVm]]
        /\ UNCHANGED <<vms, vm, tap, rootfs, manager, overlapped>>
    BY <1>4 DEF StopAllNext, Begin, files
  <2>2. /\ req'[Main].op = "stopall" /\ req'[Main].pc = "lookup"
        /\ \A h \in Handlers : req'[h] = req[h]
    BY <2>1 DEF IInv, TypeOK, Threads
  <2>3. Created' = Created
    BY <2>1 DEF Created
  <2>4. /\ MapOK' /\ KeepsItsDevices'
        /\ \A h \in Handlers : Busy(h) /\ req'[h] = req[h] => Place(h)'
    BY <2>1, <2>3, MapKept
  <2>5. MainOK' /\ OneByOne' /\ PlacesOK'
    BY <2>1, <2>2, <2>4 DEF IsolationInv, MainOK, OneByOne, PlacesOK, Busy, StopSteps
  <2> QED
    BY <2>4, <2>5 DEF IsolationInv
<1> QED
  BY <1>1, <1>2, <1>3, <1>4

LEMMA StepIsolated ==
  ASSUME IInv, DeadOK, IsolationInv, [Next]_vars
  PROVE  IsolationInv'
<1>1. CASE UNCHANGED vars
  BY <1>1 DEF vars, IsolationInv, MainOK, OneByOne, PlacesOK, Place, MapOK,
     KeepsItsDevices, Busy, Created
<1>2. ASSUME NEW r \in Handlers, NEW i \in Ids,
             \/ BeginCreate(r, i)
             \/ BeginRedeploy(r, i)
             \/ BeginDestroy(r, i)
      PROVE  IsolationInv'
  BY <1>2, BeginIsolated
<1>3. ASSUME NEW r \in Threads, HandlerStep(r)
      PROVE  IsolationInv'
  BY <1>3, CreateIsolated, StopIsolated, DestroyIsolated, RedeployIsolated DEF HandlerStep
<1>4. ASSUME NEW o \in Objs, StartVM(o) \/ GuestExits(o)
      PROVE  IsolationInv'
  BY <1>4, VmIsolated
<1>5. CASE Shutdown \/ StopAllDone \/ Crash \/ Restart \/ \E i \in Ids : StopAllNext(i)
  BY <1>5, DaemonIsolated
<1> QED
  BY <1>1, <1>2, <1>3, <1>4, <1>5 DEF Next

\* The isolation of ids holds in every reachable state.
THEOREM Isolation == Spec => []IsolationInv
<1>1. IInv /\ DeadOK /\ IsolationInv /\ [Next]_vars => IsolationInv'
  BY StepIsolated
<1> QED
  BY <1>1, InitIsolated, Invariance, PTL DEF Spec

\* No VM of an id whose requests did not overlap runs on where no request can
\* reach it, whatever the requests of other ids do.
THEOREM NoneStrays == Spec => []NoStrays
<1>1. IsolationInv => NoStrays
  BY DEF IsolationInv, MapOK, NoStrays
<1> QED
  BY <1>1, Isolation, PTL

\* A deploy that has an image for itself has it from VMs that were told to die,
\* also while the daemon shuts down.
THEOREM ImagesAreLeft == Spec => []ImageIsLeft
<1>1. IInv /\ IsolationInv => ImageIsLeft
  <2> SUFFICES ASSUME IInv, IsolationInv, NEW r \in Handlers, At(r, "mount") \/ At(r, "write"),
                      req[r].id \notin overlapped, NEW o \in Created, vm[o].id = req[r].id
               PROVE  vm[o].cancelled
    BY DEF ImageIsLeft
  <2>1. vms[vm[o].id] = NoVm /\ o # NoVm
    BY DEF IsolationInv, PlacesOK, Place, At, Created
  <2> QED
    BY <2>1 DEF IsolationInv, MapOK, IInv, TypeOK, Created, VmRecord
<1> QED
  BY <1>1, Isolation, Invariance, PTL

\* A registered VM keeps the device and the image it was made with.
THEOREM DevicesAreKept == Spec => []KeepsItsDevices
<1>1. IsolationInv => KeepsItsDevices
  BY DEF IsolationInv
<1> QED
  BY <1>1, Isolation, PTL
=============================================================================

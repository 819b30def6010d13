---------------------------- MODULE VmLifecycle ----------------------------
(***************************************************************************)
(* The VM registry of phpless-manager (internal/vm/lifecycle.go) with the  *)
(* HTTP handlers that drive it, the per-VM startVM goroutine, the bridge's *)
(* address pool, TAP devices, root images and the daemon's own shutdown,   *)
(* crash and restart (cmd/manager/main.go).                                *)
(*                                                                         *)
(* A handler is a thread: it takes one action per step that other threads  *)
(* can observe.  Create runs under Manager.mu from start to end and is one *)
(* action; Stop, Destroy and Redeploy hold mu only for a lookup or a       *)
(* delete and are split there.                                             *)
(***************************************************************************)
EXTENDS AddressPool

CONSTANTS
  Ids,                             \* VM ids
  Slugs,                           \* app slugs
  SlugOf,                          \* the app an id is created for
  Objs,                            \* numbers of the *VM objects of a daemon run
  Handlers,                        \* HTTP handler goroutines
  Main,                            \* the main goroutine, which runs StopAll
  NoVm,                            \* nil
  NoRequest,                       \* an idle thread
  MaxRuns                          \* bound: runs of the daemon, the last one endless

ASSUME SlugAssumption == SlugOf \in [Ids -> Slugs]
ASSUME ObjsAssumption == Objs \subseteq Nat
ASSUME MainAssumption == Main \notin Handlers
ASSUME RunsAssumption == MaxRuns \in Nat

Threads == Handlers \cup {Main}

VARIABLES
  vms,                             \* Manager.vms: id -> object or NoVm
  vm,                              \* the objects created in this run
  tap,                             \* TAP device of an id: object it was made for
  rootfs,                          \* ids whose root image file exists
  hostMount,                       \* ids whose image a dead run left mounted
  req,                             \* what each thread is doing
  todo,                            \* StopAll: ids not stopped yet
  manager,                         \* the daemon
  runs,                            \* runs of the daemon so far
  overlapped                       \* history, read by properties alone: ids two
                                   \* handlers worked for at once in this run

vars == <<counter, used, vms, vm, tap, rootfs, hostMount, req, todo, manager, runs, overlapped>>
files == <<rootfs, hostMount>>
daemon == <<todo, manager, runs, overlapped>>

VmState == {"starting", "running", "stopping", "stopped", "error"}

\* task is where the startVM goroutine is, process the firecracker process;
\* redeployed is history: was the object made by a redeploy?
VmRecord ==
  [id : Ids, ip : Address, state : VmState, cancelled : BOOLEAN,
   task : {"launch", "boot", "wait", "done"}, process : {"none", "up", "gone"},
   redeployed : BOOLEAN]

ASSUME NilAssumption == NoVm \notin Objs \cup VmRecord \cup Address

StopSteps == {"lookup", "mark", "cancel", "tap", "release"}

Request ==
  [op : {"create", "redeploy", "destroy", "stopall"}, id : Ids,
   pc : StopSteps \cup {"create", "unmap", "mount", "write", "files"},
   v : Objs \cup {NoVm}]

TypeOK ==
  /\ counter \in 0 .. PoolSize
  /\ used \subseteq Address
  /\ vms \in [Ids -> Objs \cup {NoVm}]
  /\ vm \in [Objs -> VmRecord \cup {NoVm}]
  /\ tap \in [Ids -> Objs \cup {NoVm}]
  /\ rootfs \subseteq Ids
  /\ hostMount \subseteq Ids
  /\ req \in [Threads -> Request \cup {NoRequest}]
  /\ todo \subseteq Ids
  /\ manager \in {"up", "closing", "down"}
  /\ runs \in Nat
  /\ overlapped \subseteq Ids

Init ==
  /\ PoolInit
  /\ vms = [i \in Ids |-> NoVm]
  /\ vm = [o \in Objs |-> NoVm]
  /\ tap = [i \in Ids |-> NoVm]
  /\ rootfs = {}
  /\ hostMount = {}
  /\ req = [r \in Threads |-> NoRequest]
  /\ todo = {}
  /\ manager = "up"
  /\ runs = 1
  /\ overlapped = {}

Created == {o \in Objs : vm[o] # NoVm}
Busy(r) == req[r] # NoRequest
At(r, pc) == Busy(r) /\ req[r].pc = pc

Up(o) == o \in Created /\ vm[o].process = "up"
\* The VM has, or may still get, a firecracker process.
Live(o) == o \in Created /\ (vm[o].process = "up" \/ vm[o].task \in {"launch", "boot"})

Goto(r, pc) == req' = [req EXCEPT ![r] = [@ EXCEPT !.pc = pc]]
Reply(r) == req' = [req EXCEPT ![r] = NoRequest]

(***************************************************************************)
(* Arrival of requests.  Nothing in the daemon keeps two handlers from     *)
(* working for one id, or for one app, at the same time.                   *)
(***************************************************************************)
MayBegin(r) == manager = "up" /\ ~ Busy(r)

Begin(r, op, i, pc) ==
  /\ req' = [req EXCEPT ![r] = [op |-> op, id |-> i, pc |-> pc, v |-> NoVm]]
  /\ UNCHANGED <<poolVars, vms, vm, tap, files, manager, runs>>

Overlaps(i) == \E h \in Handlers : Busy(h) /\ req[h].id = i

Arrive(r, op, i, pc) ==
  /\ MayBegin(r)
  /\ Begin(r, op, i, pc)
  /\ overlapped' = IF Overlaps(i) THEN overlapped \cup {i} ELSE overlapped
  /\ UNCHANGED todo

\* server.go createVM: the slug check; Create follows under another lock.
BeginCreate(r, i) ==
  /\ \A j \in Ids : vms[j] # NoVm => SlugOf[j] # SlugOf[i]
  /\ Arrive(r, "create", i, "create")

\* Mutant: unregister without stopping.
BeginRedeployUnstopped(r, i) ==
  /\ vms[i] # NoVm
  /\ Arrive(r, "redeploy", i, "unmap")

\* server.go deployCode, then the read of the old config by Redeploy.
BeginRedeploy(r, i) ==
  /\ vms[i] # NoVm
  /\ Arrive(r, "redeploy", i, "lookup")

\* server.go destroyVM: no check of its own.
BeginDestroy(r, i) == Arrive(r, "destroy", i, "lookup")

(***************************************************************************)
(* Create, under Manager.mu.                                               *)
(***************************************************************************)
\* The object a request makes: its goroutine is about to start the machine.
NewVm(q, a) ==
  [id |-> q.id, ip |-> a, state |-> "starting", cancelled |-> FALSE,
   task |-> "launch", process |-> "none", redeployed |-> q.op = "redeploy"]

CreateExists(r) ==
  /\ vms[req[r].id] # NoVm
  /\ UNCHANGED <<poolVars, vms, vm, tap, rootfs>>

CreateNoAddress(r) ==
  /\ vms[req[r].id] = NoVm
  /\ Exhaust
  /\ UNCHANGED <<vms, vm, tap, rootfs>>

\* CreateTAP, prepareRootfs or NewMachine fails: the TAP is gone, the address
\* is not released, and the image file may have been made, in whole or in part.
CreateFails(r) ==
  LET i == req[r].id IN
  /\ vms[i] = NoVm
  /\ \E a \in Address : Allocate(a)
  /\ tap' = [tap EXCEPT ![i] = NoVm]
  /\ rootfs' \in {rootfs, rootfs \cup {i}}
  /\ UNCHANGED <<vms, vm>>

\* Mutant: prepareRootfs is left out.
CreateWithoutImage(r, o) ==
  LET i == req[r].id IN
  /\ vms[i] = NoVm
  /\ o \notin Created /\ \A p \in Objs \ Created : o <= p
  /\ \E a \in Address : Allocate(a) /\ vm' = [vm EXCEPT ![o] = NewVm(req[r], a)]
  /\ vms' = [vms EXCEPT ![i] = o]
  /\ tap' = [tap EXCEPT ![i] = o]
  /\ UNCHANGED rootfs

\* Objects are numbered as they are created; prepareRootfs keeps an image
\* file that exists.
CreateSucceeds(r, o) ==
  LET i == req[r].id IN
  /\ vms[i] = NoVm
  /\ o \notin Created /\ \A p \in Objs \ Created : o <= p
  /\ \E a \in Address : Allocate(a) /\ vm' = [vm EXCEPT ![o] = NewVm(req[r], a)]
  /\ vms' = [vms EXCEPT ![i] = o]
  /\ tap' = [tap EXCEPT ![i] = o]
  /\ rootfs' = rootfs \cup {i}

Create(r) ==
  /\ At(r, "create")
  /\ \/ CreateExists(r)
     \/ CreateNoAddress(r)
     \/ CreateFails(r)
     \/ \E o \in Objs : CreateSucceeds(r, o)
  /\ Reply(r)
  /\ UNCHANGED <<hostMount, daemon>>

(***************************************************************************)
(* Stop, called by Destroy, Redeploy and StopAll.                          *)
(***************************************************************************)
StopReturns(r) == IF req[r].op = "stopall" THEN Reply(r) ELSE Goto(r, "unmap")

\* mu is held for the lookup only; "not found" is no reason for a caller to stop.
StopLookup(r) ==
  /\ At(r, "lookup")
  /\ LET o == vms[req[r].id] IN
       IF o = NoVm
         THEN StopReturns(r)
         ELSE req' = [req EXCEPT ![r] = [@ EXCEPT !.v = o, !.pc = "mark"]]
  /\ UNCHANGED <<poolVars, vms, vm, tap, files, daemon>>

\* Mutant: v.cancel() is forgotten.
StopMarkOnly(r) ==
  /\ At(r, "mark")
  /\ vm' = [vm EXCEPT ![req[r].v] = [@ EXCEPT !.state = "stopping"]]
  /\ Goto(r, "tap")
  /\ UNCHANGED <<poolVars, vms, tap, files, daemon>>

\* v.State = StateStopping, without the lock.
StopMark(r) ==
  /\ At(r, "mark")
  /\ vm' = [vm EXCEPT ![req[r].v] = [@ EXCEPT !.state = "stopping"]]
  /\ Goto(r, "cancel")
  /\ UNCHANGED <<poolVars, vms, tap, files, daemon>>

\* Shutdown asks the guest and does not wait for it; v.cancel() makes the
\* context's watcher kill the process, later and in another goroutine.
StopCancel(r) ==
  /\ At(r, "cancel")
  /\ vm' = [vm EXCEPT ![req[r].v] = [@ EXCEPT !.cancelled = TRUE]]
  /\ Goto(r, "tap")
  /\ UNCHANGED <<poolVars, vms, tap, files, daemon>>

\* The device is deleted by name, whichever object it now serves.
StopTap(r) ==
  /\ At(r, "tap")
  /\ tap' = [tap EXCEPT ![vm[req[r].v].id] = NoVm]
  /\ Goto(r, "release")
  /\ UNCHANGED <<poolVars, vms, vm, files, daemon>>

StopRelease(r) ==
  /\ At(r, "release")
  /\ Release(vm[req[r].v].ip)
  /\ StopReturns(r)
  /\ UNCHANGED <<vms, vm, tap, files, daemon>>

Stop(r) ==
  \/ StopLookup(r)
  \/ StopMark(r)
  \/ StopCancel(r)
  \/ StopTap(r)
  \/ StopRelease(r)

(***************************************************************************)
(* Destroy: whatever is registered after Stop is removed, then its files.  *)
(***************************************************************************)
DestroyUnmap(r) ==
  /\ At(r, "unmap")
  /\ req[r].op = "destroy"
  /\ LET o == vms[req[r].id] IN
       IF o = NoVm
         THEN Reply(r)
         ELSE req' = [req EXCEPT ![r] = [@ EXCEPT !.v = o, !.pc = "files"]]
  /\ vms' = [vms EXCEPT ![req[r].id] = NoVm]
  /\ UNCHANGED <<poolVars, vm, tap, files, daemon>>

DestroyFiles(r) ==
  /\ At(r, "files")
  /\ rootfs' = rootfs \ {req[r].id}
  /\ Reply(r)
  /\ UNCHANGED <<poolVars, vms, vm, tap, hostMount, daemon>>

(***************************************************************************)
(* Redeploy after its Stop: unregister, write the image, create anew.      *)
(***************************************************************************)
\* A resize has no deploy function and goes on to Create at once.
AfterUnmap(r) ==
  \E pc \in {"mount", "create"} :
    req' = [req EXCEPT ![r] = [@ EXCEPT !.pc = pc, !.v = NoVm]]

\* Mutant: the old object stays in the map.
RedeployKeep(r) ==
  /\ At(r, "unmap")
  /\ req[r].op = "redeploy"
  /\ AfterUnmap(r)
  /\ UNCHANGED <<poolVars, vms, vm, tap, files, daemon>>

RedeployUnmap(r) ==
  /\ At(r, "unmap")
  /\ req[r].op = "redeploy"
  /\ vms' = [vms EXCEPT ![req[r].id] = NoVm]
  /\ AfterUnmap(r)
  /\ UNCHANGED <<poolVars, vm, tap, files, daemon>>

\* deployFn: fails when the image is missing or cannot be mounted; the
\* request then ends with the VM stopped, unregistered and not recreated.
DeployMount(r) ==
  /\ At(r, "mount")
  /\ \/ Reply(r)
     \/ req[r].id \in rootfs /\ Goto(r, "write")
  /\ UNCHANGED <<poolVars, vms, vm, tap, files, daemon>>

\* rsync and the config files, then umount, on success and on failure.
DeployWritten(r) ==
  /\ At(r, "write")
  /\ Reply(r) \/ Goto(r, "create")
  /\ UNCHANGED <<poolVars, vms, vm, tap, files, daemon>>

Redeploy(r) == RedeployUnmap(r) \/ DeployMount(r) \/ DeployWritten(r)
Destroy(r) == DestroyUnmap(r) \/ DestroyFiles(r)

(***************************************************************************)
(* startVM, one goroutine per object, and the firecracker process.         *)
(***************************************************************************)
\* machine.Start spawns firecracker, which opens the TAP and the image by name.
Launch(o) ==
  /\ o \in Created
  /\ vm[o].task = "launch"
  /\ ~ vm[o].cancelled
  /\ tap[vm[o].id] # NoVm
  /\ vm[o].id \in rootfs
  /\ vm' = [vm EXCEPT ![o] = [@ EXCEPT !.task = "boot", !.process = "up"]]

\* machine.Start has returned nil; a cancel may have come in between.
Booted(o) ==
  /\ o \in Created
  /\ vm[o].task = "boot"
  /\ vm' = [vm EXCEPT ![o] = [@ EXCEPT !.task = "wait", !.state = "running"]]

\* machine.Start has failed, before or after it spawned the process, which may
\* then live on until the context is cancelled.
StartFails(o) ==
  /\ o \in Created
  /\ vm[o].task \in {"launch", "boot"}
  /\ \E p \in {"gone", vm[o].process} :
       vm' = [vm EXCEPT ![o] = [@ EXCEPT !.task = "done", !.state = "error", !.process = p]]

\* Mutant: the state is not written when the machine is gone.
WaitedSilently(o) ==
  /\ o \in Created
  /\ vm[o].task = "wait"
  /\ vm[o].cancelled \/ vm[o].process = "gone"
  /\ vm' = [vm EXCEPT ![o] = [@ EXCEPT !.task = "done"]]

\* machine.Wait returns when the process is gone or the context cancelled.
Waited(o) ==
  /\ o \in Created
  /\ vm[o].task = "wait"
  /\ vm[o].cancelled \/ vm[o].process = "gone"
  /\ vm' = [vm EXCEPT ![o] = [@ EXCEPT !.task = "done", !.state = "stopped"]]

\* The context's watcher kills the process of a cancelled VM.
Kill(o) ==
  /\ Up(o)
  /\ vm[o].cancelled
  /\ vm' = [vm EXCEPT ![o] = [@ EXCEPT !.process = "gone"]]

\* The guest powers off or firecracker dies; needs no daemon.
GuestExit(o) ==
  /\ Up(o)
  /\ vm' = [vm EXCEPT ![o] = [@ EXCEPT !.process = "gone"]]

StartVM(o) ==
  /\ manager # "down"
  /\ Launch(o) \/ Booted(o) \/ StartFails(o) \/ Waited(o) \/ Kill(o)
  /\ UNCHANGED <<poolVars, vms, tap, files, req, daemon>>

GuestExits(o) == GuestExit(o) /\ UNCHANGED <<poolVars, vms, tap, files, req, daemon>>

(***************************************************************************)
(* The daemon: shutdown on a signal, crash at any step, restart by systemd *)
(***************************************************************************)
\* httpServer.Close refuses new requests; handlers that run keep running.
Shutdown ==
  /\ manager = "up"
  /\ runs < MaxRuns
  /\ manager' = "closing"
  /\ todo' = {i \in Ids : vms[i] # NoVm}
  /\ UNCHANGED <<poolVars, vms, vm, tap, files, req, runs, overlapped>>

StopAllNext(i) ==
  /\ ~ Busy(Main)
  /\ i \in todo
  /\ todo' = todo \ {i}
  /\ Begin(Main, "stopall", i, "lookup")
  /\ UNCHANGED overlapped

\* Every goroutine is gone; processes, devices, files and mounts stay.
Exit ==
  /\ manager' = "down"
  /\ req' = [r \in Threads |-> NoRequest]
  /\ todo' = {}
  /\ hostMount' = hostMount \cup {i \in Ids : \E r \in Handlers : At(r, "write") /\ req[r].id = i}
  /\ UNCHANGED <<poolVars, vms, vm, tap, rootfs, runs, overlapped>>

StopAllDone == manager = "closing" /\ ~ Busy(Main) /\ todo = {} /\ Exit
Crash == manager # "down" /\ runs < MaxRuns /\ Exit

\* main: firecracker processes are killed, TAPs deleted, registry and pool new.
Restart ==
  /\ manager = "down"
  /\ manager' = "up"
  /\ runs' = runs + 1
  /\ counter' = 0
  /\ used' = {}
  /\ vms' = [i \in Ids |-> NoVm]
  /\ vm' = [o \in Objs |-> NoVm]
  /\ tap' = [i \in Ids |-> NoVm]
  /\ overlapped' = {}
  /\ UNCHANGED <<files, req, todo>>

HandlerStep(r) == Create(r) \/ Stop(r) \/ Destroy(r) \/ Redeploy(r)

Next ==
  \/ \E r \in Threads : HandlerStep(r)
  \/ \E r \in Handlers, i \in Ids :
       \/ BeginCreate(r, i)
       \/ BeginRedeploy(r, i)
       \/ BeginDestroy(r, i)
  \/ \E o \in Objs : StartVM(o) \/ GuestExits(o)
  \/ Shutdown
  \/ \E i \in Ids : StopAllNext(i)
  \/ StopAllDone
  \/ Crash
  \/ Restart

Spec == Init /\ [][Next]_vars

(***************************************************************************)
(* Fairness: goroutines that can run do run, commands and Shutdown's wait  *)
(* are bounded, and Restart=always brings the daemon back.                 *)
(***************************************************************************)
Fairness ==
  /\ \A r \in Threads : WF_vars(HandlerStep(r))
  /\ \A o \in Objs : WF_vars(StartVM(o))
  /\ \A i \in Ids : WF_vars(StopAllNext(i))
  /\ WF_vars(StopAllDone)
  /\ WF_vars(Restart)

FairSpec == Spec /\ Fairness

-----------------------------------------------------------------------------
(***************************************************************************)
(* Properties of every behaviour, however requests overlap.                *)
(***************************************************************************)
\* No two VMs that have or may get a process carry the same address, although
\* Stop gives an address back before the process is dead, and may do it twice.
UniqueAddress ==
  \A o, p \in Objs : o # p /\ Live(o) /\ Live(p) => vm[o].ip # vm[p].ip

\* An address goes back to the pool only once its VM was told to die.
ReleasedOnlyAfterCancel ==
  \A o \in Created : ~ vm[o].cancelled => vm[o].ip \in used

\* The addresses of the live VMs are leased as AddressLease promises: each is
\* granted while no other live VM has it and kept until the VM has died.
leased == [o \in Objs |-> IF Live(o) THEN vm[o].ip ELSE NoVm]
Leases == INSTANCE AddressLease WITH
  Holder <- Objs, NoAddress <- NoVm, lease <- leased
LeaseSpec == Leases!Spec

\* A VM marked as stopping leaves the registry, however the stop went.
StoppingLeaves ==
  \A i \in Ids, o \in Objs :
    (manager = "up" /\ vms[i] = o /\ vm[o].state = "stopping")
      ~> (manager # "up" \/ vms[i] # o)

\* A VM whose process is gone is not reported as running for ever.
DeathIsNoticed ==
  \A o \in Objs :
    (o \in Created /\ vm[o].state = "running" /\ vm[o].process = "gone")
      ~> (o \notin Created \/ vm[o].state # "running")

(***************************************************************************)
(* Isolation: what an id may rely on while its own requests do not overlap,*)
(* whatever other ids, of its app too, StopAll and a crash do meanwhile.   *)
(***************************************************************************)
\* A VM that nobody told to die is the registered VM of its id: none runs on
\* where no request can reach it.
NoStrays ==
  manager = "up" =>
    \A o \in Created : Live(o) /\ ~ vm[o].cancelled =>
      vms[vm[o].id] = o \/ vm[o].id \in overlapped

\* While a deploy has an image for itself, every VM of that image was told to die.
ImageIsLeft ==
  \A r \in Handlers : At(r, "mount") \/ At(r, "write") =>
    \/ req[r].id \in overlapped
    \/ \A o \in Created : vm[o].id = req[r].id => vm[o].cancelled

\* A registered VM that nobody told to die has its own TAP device and an image.
KeepsItsDevices ==
  manager = "up" =>
    \A i \in Ids \ overlapped : vms[i] # NoVm /\ ~ vm[vms[i]].cancelled =>
      tap[i] = vms[i] /\ i \in rootfs

\* A VM that left the registry does not keep its process.
DiscardedVmDies ==
  \A o \in Objs :
    (manager = "up" /\ o \in Created /\ vms[vm[o].id] # o)
      ~> (manager # "up" \/ ~ Live(o) \/ vm[o].id \in overlapped)

(***************************************************************************)
(* Claims of the repository that the code does not keep.                   *)
(***************************************************************************)
Mounted(i) == i \in hostMount \/ \E r \in Handlers : At(r, "write") /\ req[r].id = i

\* GUIDE.md: an ext4 image is never mounted by the host and used by a VM at once.
NoDualMount == \A o \in Created : Up(o) => ~ Mounted(vm[o].id)

\* lifecycle.go:301 "Destroy stops and removes a VM completely": a destroy that
\* stopped a VM does not remove, unstopped, the one a redeploy made since.
DestroyStops ==
  [][\A r \in Handlers :
       LET o == vms[req[r].id] IN
       (At(r, "unmap") /\ DestroyUnmap(r) /\ req[r].v # NoVm /\ o # NoVm /\ vm[o].redeployed)
         => vm[o].cancelled]_vars
=============================================================================

# PHPless in TLA+

PHPless hosts PHP applications, each in a Firecracker microVM. This directory
holds TLA+ modules that model its control plane, TLC configurations that
model-check them on small instances, and theorems checked by TLAPS.

    tlc -workers 2 -config vm_isolation.cfg MCVmLifecycle.tla   # a model-checking run
    tlapm VmLifecycleProofs.tla                                 # a module's proofs

`PROJECT.json` lists the runs, the mutants that show every property can fail,
the source lines of every definition, the hazards and the theorems.

## 1. The system

| Component | Code | State | Operations | Interaction |
|---|---|---|---|---|
| VM lifecycle | `phpless-manager/internal/vm` | map id → VM object; per VM: state, context, process, TAP, IP; root images on disk | Create, startVM, Stop, Destroy, Redeploy, StopAll | called by HTTP handlers and by `main`; calls the address pool, TAP, deploy |
| Address pool | `internal/network/bridge.go` | `counter`, `used` | AllocateAddress, ReleaseAddress | called by the lifecycle under its own mutex |
| TAP devices | `internal/network/tap.go` | kernel devices by name | CreateTAP, Destroy, CleanupStaleTAPs | lifecycle, daemon start |
| Daemon | `cmd/manager/main.go`, systemd unit | process up or down | start-up sweep, signal, StopAll, restart | systemd restarts it always and then runs RestoreVms |
| HTTP API | `internal/api/server.go` | none of its own | VM, deploy, health, port, exec, terminal and log endpoints | one goroutine per request; calls every other package |
| Deploy | `internal/deploy` | files of the mounted image | DeployToRootfs | runs inside Redeploy, between Stop and Create |
| Port forwarding | `internal/network/portforward.go` | iptables rules | Apply, RemoveAll | API; shutdown |
| Health checker | `internal/health` | timers, status, ring of results per VM | Register, Unregister, doCheck, webhook | API; panel webhook |
| Logs, terminal, SSH | `internal/logs`, `terminal`, `sshproxy` | one-use sessions, open connections | create/take session, tail, copy | browser, panel |
| Worker supervisor | `rootfs/worker-manager` | child processes of a guest | start, restart with back-off, stop | guest init |
| App lifecycle | panel `AppLifecycleService`, `VMManagerClient`, `RestoreVms` | `apps` rows: vm_id, vm_state, vm_ip | create, delete, deploy, sync, restore | HTTP to the manager, Caddy reload |
| Deployments | panel controllers, `GitDeployJob` | `deployments` rows, build directories, snapshots | deploy, git deploy, rollback, prune | app lifecycle, queue |
| Previews | `PreviewDeployJob`, `CleanupExpiredPreviewsJob`, `WebhookController` | `preview_environments` rows | deploy, close, expire | GitHub webhooks, queue, scheduler |
| Caddy config | `CaddyConfigManager` | the Caddyfile | regenerateAndReload | after every change of an app |
| Metering | `AggregateAppMetrics`, `IngestLogsJob`, `CleanupLogsJob`, `ReportUsage` | cursors, hourly rows, `reported` flag | scheduled jobs | Caddy's access logs, billing service |
| Teams, plans | panel controllers and models | teams, invitations, plan | invite, accept, subscribe | limits checked at app creation |
| Front end, page of an app | `panel/resources/js/pages/apps` | React state of the page and of the tab shown, browser history, `localStorage`, WebSockets | tabs, back and forward, lists, dialogs, forms, polls, streams | `fetch` and Inertia visits to the panel's controllers; WebSockets to the manager |
| Front end, settings | `pages/settings/team-*.tsx`, `api-tokens.tsx` | lists, one dialog form each | add, edit, delete, test, invite, revoke | panel controllers |
| Other pages, CLI, scripts | `panel/resources/js`, `cli`, `scripts` | – | – | clients of the above |

What is hard in it:

* **Interleaving.** Every request is a goroutine. `Manager.mu` covers all of
  Create, but only a lookup of Stop and a `delete` of Destroy and Redeploy.
  Nothing keeps a client from sending a second request for a VM, and one
  arises by itself: the panel gives up on a deploy after 60 seconds and its
  queue retries it (`queue:work --tries=3`) while the handler of the first
  goes on.
* **Asynchronous death.** Stop cancels a context; the process is killed by
  another goroutine, at some time, while the address is already released and
  the image already mounted.
* **Crash and restart.** The registry and the pool live in memory; processes,
  devices, mounts, images and iptables rules do not.
* **Stale state in the panel.** It uses no locks, transactions or unique jobs;
  it reads rows, calls out over HTTP, and writes rows back.
* **Answers that come late.** A page sends a request and goes on: answers overtake
  each other, are lost, or arrive after the tab was left, the dialog closed or the
  VM stopped. Nothing orders, aborts or repeats a request. A WebSocket's close
  event comes some time after its cause, when the page may hold the next one.
* **Time.** Timers against in-flight checks, scheduled jobs against a log that
  grows and rotates, one-use sessions.

What makes each component correct, in one line each: VMs that run have their own
address, device and image and can be reached by a request, as long as nobody sends two
requests for one of them at once; a stopped VM dies;
the pool never gives one address to two live VMs; iptables holds the rules
of the configured mappings; a health result is never recorded for a VM that
was unregistered; a session opens once; the number of
requests billed is the number of requests logged; a rollback restores what was
deployed; the panel's rows, the manager's registry and Caddy's routes agree
again after any failure; a page shows what the panel has once its requests are
answered, acts on what its dialog named, and closes what it opened.

## 2. Modules

| Module | Kind | Models |
|---|---|---|
| `AddressPool` | component | `Bridge.AllocateAddress`, `ReleaseAddress` |
| `AddressLease` | abstract | what a manager promises of addresses |
| `VmLifecycle` | component, composes `AddressPool`, implements `AddressLease` | VM registry, handlers, startVM goroutines, processes, TAPs, images, daemon |
| `MCVmLifecycle` | TLC instance | the assignments of ids to apps, the symmetry of handlers |
| `VmLifecycleProofs` | proofs | safety and refinement of `VmLifecycle` |
| `UsageMetering` | component | access log, both cursor jobs, clean-up, hourly report to the billing service |
| `UsageMeteringProofs` | proofs | safety of `UsageMetering` |
| `Deployments` | component | build directory, snapshots, `deployments` rows; deploy, upload, edit, rollback, `GitDeployJob` |
| `DeploymentsProofs` | proofs | safety of `Deployments`, with and without overlap |
| `Pages` | shared | constants, bounds and requests of the front end |
| `FileBrowser` | component | `show.tsx`, `files-tab.tsx`: tabs, directories, history, files |
| `LogSearch`, `LogStream` | components | `logs-tab.tsx`: searching; live list and its WebSocket |
| `TerminalTab` | component | `terminal-tab.tsx` |
| `EnvironmentTab` | component | `environment-tab.tsx` and `EnvironmentVariableController` |
| `AppForms` | component | the forms of `show.tsx`, `settings-tab.tsx`, `workers-tab.tsx` |
| `DatabaseTab` | component | `database-tab.tsx` and the scan, save and restore of `AppController` |
| `WorkersTab`, `DeploymentsTab`, `OverviewTab`, `DomainsTab`, `PreviewsTab`, `AnalyticsTab` | components | the tabs of those names |
| `TeamEnv`, `TeamStorage`, `TeamMembers`, `ApiTokens` | components | the settings pages and their controllers |
| `FrontEnd` | composes the components above | the pages together; the run's properties |
| `ListingProofs` | proofs | pages that fetch their list again after a change: `DomainsTab`, `TeamEnv`, `ApiTokens`, `PreviewsTab`, `DeploymentsTab`, `TeamMembers`; the lemmas about requests |
| `FilesProofs` | proofs | `FileBrowser` |
| `ConsoleProofs` | proofs | `LogStream`, `LogSearch`, `TerminalTab`, `WorkersTab`, `OverviewTab`, `AnalyticsTab` |
| `StoredDataProofs` | proofs | `EnvironmentTab`, `DatabaseTab`, `TeamStorage`, `AppForms` |
| `FrontEndProofs` | proofs | the properties of `FrontEnd`, from those of its pages |

### VmLifecycle and the code

| Variable | In the code |
|---|---|
| `counter`, `used` | the fields of `Bridge` |
| `vms` | `Manager.vms` |
| `vm[o]` | the o-th `*VM` made in this run of the daemon: its id, address, `State`, whether `cancel` was called, where its startVM goroutine is (`task`), and its firecracker process; `redeployed` is history: did a redeploy make it? |
| `tap[i]` | the TAP device named after id i, and the object it was made for |
| `rootfs` | ids whose image file exists |
| `hostMount` | ids whose image a dead run of the daemon left loop-mounted |
| `req[r]` | where the handler (or `Main`, in StopAll) is; `v` is its local `*VM` |
| `todo` | StopAll's list |
| `manager`, `runs` | the daemon process; how often it was started |
| `overlapped` | history: the ids two handlers have worked for at once in this run |

A handler takes one action per step that another thread can observe.

* **Create is one action.** It holds `Manager.mu` from start to end. Its inner
  steps touch the pool, a TAP name and an image file. Another thread's
  unlocked steps on those (Stop's TAP deletion and release, Destroy's file
  removal) either commute with what Create still has to do or give the same
  result as the same step before or after it: the pool's counter only grows, so
  a release does not change which address Create gets; the device and the file
  are replaced or kept as a whole.
* **Stop is five**: lookup under the lock, the unlocked write of `State`, the
  cancel, the deletion of the TAP by name, the release. The graceful shutdown
  Stop asks for is the process's own exit, which may come at any time
  (`GuestExits`); the cancel lets `Kill` happen, whenever.
* **Destroy** adds the deletion from the map and that of the files; **Redeploy**
  the deletion from the map, the mount, the write and Create.
* **startVM** is `Launch` (machine.Start spawns the process), `Booted`,
  `StartFails`, `Waited`. The SDK and the process are external: a failed Start
  may leave a process that lives until the cancel.
* **Shutdown, Crash, Restart.** `httpServer.Close` refuses new requests and
  leaves handlers running, so handlers go on during StopAll. A crash, or the exit
  after StopAll, ends every goroutine; Restart empties the registry, kills every
  process and deletes every TAP. Restart is one action because the socket is
  opened after all of it.

`Live(o)` says that a VM has, or may still get, a process.

Requests may overlap in any way, also two for one id and two for one app: the
code keeps nothing apart, and no behaviour is assumed away. Two handlers that work
for one id at once do break the registry (`vm_destroy_stops` is one such behaviour), so
the properties of isolation speak of the other ids: `overlapped` grows when a handler
begins with an id another handler works for, and no action reads it. They
still face two creations of one app, StopAll stopping the VM a handler works for, an
asynchronous Kill, guest exits, failures of every step, shutdown with handlers
running, crash and restart.

### UsageMetering and the code

One app of one team; neither the jobs nor the report relates two apps.

| Variable | In the code |
|---|---|
| `served`, `hour` | the requests Caddy has logged, numbered as they came, and the hour of each |
| `base`, `rotations` | the lines up to `base` are in rotated files; the current file holds the rest |
| `cursor[j]` | `Cache::get` of each job's position; lines instead of bytes |
| `worker` | the queue worker: the job it runs, the lines read and not yet written, the `ftell` to store |
| `counted[n]` | how often request n went into its `request_metrics` row |
| `logged[n]` | rows of request n in `app_logs` |
| `reported` | hours whose row has `stripe_reported_at` |
| `report` | `billing:report-usage`: the hours it selected and the counts it read |
| `billed[n]` | how often request n was told to Stripe |

A row of the database is a sum, so the model keeps what the sum is made of: a
request counted twice makes a row too large by one, and a request in no row
makes it too small. `BeginPass` reads the file to its end; `UpsertHour` and
`InsertBatch` write, one statement each; `PutCursor` comes last. A pass that
fails between two of them (`PassFails`: database error or end of the worker)
leaves what was written and the old cursor. The report reads rows (`BeginReport`),
calls Stripe (`ReportUsage`, `ReportRefused`, `AnswerLost`) and marks the
rows (`MarkReported`, `MarkFails`) in separate actions: the worker may add to a
row between any two of them. `BeginReport` compares with a full time of day: in the
first second of an hour the hour just over is not selected yet.

### Deployments and the code

One app. Code is made of numbered pieces: an upload, an edit and a push make a
new one. The content of a directory is the set of pieces that went into it, so
that a directory which two deploys filled differs from what either of them sent.

| Variable | In the code |
|---|---|
| `present`, `build` | `builds/<slug>` exists; what it holds beside `versions/` |
| `versions` | the snapshots `builds/<slug>/versions/<second>`; they lie inside the build directory, and `DeleteBuild` deletes both |
| `vm` | `/app` of the app's VM |
| `writers[s]` | history: how often something was written into the snapshot of second s, 2 for more than once |
| `rows` | the `deployments` table; `code` is a history variable, what the deployment put on the VM, and `of` the target of a rollback |
| `now` | the clock, in the whole seconds that name snapshots (`Ymd_His`) |
| `head` | the head of the Git branch |
| `proc[p]` | where a PHP worker (a web or API request) or the queue worker is |
| `serial` | chosen once: do clients wait for each other? |
| `byHand` | how often somebody deleted files or changed a snapshot in the file browser |

The web and API controllers share the steps and the model; where they differ
both are possible (`Check`: the web counts files below the directory, snapshots
included, the API only its own). `Send` is the call of the manager and what waits for the
VM, whose first poll may already find it running. Time passes between any two steps
(`Tick`) or between none: two deploys may end within one second, and then `CopyOf` adds the
second build to the first one's snapshot, as rsync without `--delete` does. A
copy with rsync or `copyDirectory` is one step that reads its source once; a failure
may leave a part of it (`Broken`). `EditFile`, `EditSnapshot` and `FilesDelete` are the file
browser of the panel: it shows the snapshots too, and can delete every file of the app
beside them.

### The front end and the code

Each module is one tab or page. Its variables have the names of the React state
they stand for (`items`, `loading`, `editingVar`, `rollingBack`, …); `rows`,
`stored` or `disk` is what the panel keeps; `requests` are those in flight.
A handler up to its `await` is one action, and what follows the `await` is another,
so anything may happen between them. In between the panel serves the request
in a step of its own (`Serve`, or one action per controller where it changes more
than a row). A request ends as

* `ok`, carried out and answered;
* `refused`, not carried out, by validation, a plan's limit or the panel's
  protection against forged requests (419);
* `lost`, carried out with an answer that never arrives, or with no effect, for a
  request that only reads.

Where the page takes the answer without looking at its status, so does the model.
`heard` says whether the tab that sent a request is still mounted: React drops
what the others bring.

| Module | Worth knowing |
|---|---|
| `FileBrowser` | `entries`, `entry` are `window.history`; a directory holds at most one file, named by the directory, and sub-directories lie under the root only. `Show` is what React does on a change of tab or directory: unmount, mount, the effect that lists. `InertiaWrites` is a reload or a post, which writes an entry without a tab (`NoTab`); `HandlePopState` does nothing on one |
| `LogSearch` | status, method and time range are one filter; a result carries what was searched for, so that it can be compared with what is shown above it, and its own number of pages, since logs are deleted and the time range moves on. One visit |
| `LogStream`, `TerminalTab` | one id is a click, its session and its WebSocket; `stream` and `link` are their `readyState`, split where an event is on its way. `TailEnds` is the manager's `bufio.Scanner` (streamer.go), which finds nothing after the end of the log until a rotation |
| `EnvironmentTab` | `before` is what the variables were when the visit began or, if that was later, when the VM last got them; `Leave` and `Enter` unmount and mount the tab, which then knows of no change; the two dialogs share `formValue`, and `formFor` remembers whose dialog it was entered in |
| `AppForms` | forms differ in how they know they are changed and whether a save reloads the page: `Fields`, `Compared`, `Flagged` |
| `DatabaseTab` | one visit. A save, a scan and a deploy load the row (`Load`, `DeployBegins`), and write the list (`WriteRows`) and the paths (`WritePaths`) in a statement each, a column that is as it was loaded not at all; a WordPress app gets its own paths in between (`PinsDirectories`). `PinBegins` and `PinEnds` are the Files tab in another window |
| `WorkersTab` | `polls[TRUE]` belong to the effect that is current, `polls[FALSE]` to those cleaned up |
| `DeploymentsTab` | the page's side of a rollback and of connecting a repository; `Leave` and `Enter` unmount and mount the tab, which forgets what it waits for; what a deploy does is in `Deployments` |
| `OverviewTab` | five cards and their keys in `localStorage`, which may throw |
| `TeamStorage` | create, update and setDefault are two statements, in the order of the controller, and the second may fail (`SecondFails`) |
| `TeamMembers` | an Inertia visit replaces the page, and a new one interrupts the one before |
| `PreviewsTab` | `Job` is what pushes and the expiry do to the rows |
| `AnalyticsTab` | `Labels` is the choice of the bars that get a date |

`FrontEnd` gives every component its own variables and looks at one of them in a
behaviour (`focus`): the tabs share nothing but the panel, and what another part
may do to the panel is an action of the component itself (`PinBegins`, `DeployBegins`, `Job`,
`DeployDone`, `Accept`). An interleaving of two tabs therefore has no step that
the behaviours of each alone do not have. What really crosses tabs, the history and
the directory, is in `FileBrowser`, and the page's copy of the app is in each
component that reads it.

History variables (`astray`, `doubtful`, `overlapped`, `confused`, `unseen`, `adrift`, …) record
the cases in which the code does not keep what a property says. The comment
above each property names them, and section 3 lists them: they are where the
front end is wrong or at the mercy of the network.

## 3. Runs

| Run | Instance | Checks |
|---|---|---|
| `vm_isolation` | 2 ids of one app, 2 handlers, 2 addresses, 1 run of the daemon; symmetric in handlers | `TypeOK`, `ReleasedOnlyAfterCancel`, `UniqueAddress`, `NoStrays`, `KeepsItsDevices` |
| `vm_restart` | 1 id, 1 handler, 2 addresses, 2 runs, fair | `NoStrays`, `ImageIsLeft`, `LeaseSpec`, `StoppingLeaves`, `DeathIsNoticed`, `DiscardedVmDies` |
| `vm_dual_mount` | 1 id, 1 handler | `NoDualMount` is violated |
| `vm_destroy_stops` | 1 id, 2 handlers | `DestroyStops` is violated |
| `metering` | 2 requests, 3 hours, 1 rotation, 1 failed pass, 1 failed report, fair | `TypeOK`, `CountedOnce`, `NothingSkipped`, `BilledAsCounted`, `BilledAfterItsHour`, `RowsAreReported`, `LinesAreCounted` |
| `metering_partial` | the same without failures | `ReportedIsComplete` is violated |
| `deployments` | 1 web process and the queue worker, 1 snapshot kept, 2 pieces of code, 2 seconds, 3 rows, 1 failure, 1 change by hand | `TypeOK`, `SnapshotAsDeployed`, `VmRunsLastRow`, `FewSnapshots`, `NoCodeNoDeploy` |
| `deployments_live` | the same with 1 piece of code, 1 second, 2 rows and 2 failures, fair | `BuildingEnds` |
| `snapshot_merge` | 5 snapshots kept, no failure, nothing by hand | `SnapshotPerDeployment` is violated |
| `rollback_restores` | the same | `RollbackRestores` is violated |
| `rollback_build` | the same | `BuildFollowsRollback` is violated |
| `front_end` | one page per behaviour, 3 to 6 requests a visit, 2 log streams, 3 terminal connections, 2 history entries, 2 keys and values, 2 names; fair | `TypeOK`, `ViewIsTheEntry`, `NamedRightly`, `ListsAreCurrent`, `NoStrayStream`, `ConnectedMeansOpen`, `TypesIntoOneShell`, `ChangesAreAnnounced`, `SendsItsOwnText`, `BackupNeedsPersistent`, `CleanMeansStored`, `DismissedStays`, `AtMostOneDefault`, `DeletesWhatWasConfirmed`, `NoLateStatus`, `WaitingEnds` |

**What they show.** However requests overlap, addresses are safe: an address is
never shared by two live VMs, is not released before its VM was told to die,
and the manager implements `AddressLease`. The reason is not ReleaseAddress,
which runs while the process lives and may run twice, but the counter of the pool,
which never goes back; the mutant of `Release` that hands a released
address out again breaks both properties. An id that no two handlers worked for at
once is isolated from all else: its VMs never run outside the registry, a deploy finds every
VM of its image told to die, a discarded VM dies, and the registered VM has its device and
its image, whatever requests for other ids, StopAll or a crash do. For an id with
overlapping requests these fail: `vm_destroy_stops` is one such behaviour. That an
app has one VM is not among the properties: createVM looks for the slug before it takes the
lock, so two creations of one app both pass, as they do in the model.

Metering never bills a request more often than it was counted, or before its hour is
over, and while no pass fails no request is counted twice. A failed pass repeats
lines and loses none. Every row of a past hour is reported or discarded. A report
whose answer or mark was lost is sent again and billed again; `BilledAsCounted` excepts
those faults.

With one deploy at a time, a snapshot that was written to once is what its deployment put
on the VM, and the table's last row that reached the VM says what it runs, even after a
failed build command; a VM with code is emptied only if files are left below the build
directory. These may be old snapshots alone, which the web's check (`AppController.php:394`)
takes for code: after all files of the app were deleted by hand the next deploy empties
the VM, which is why `NoCodeNoDeploy` does not say more. However deploys overlap, snapshots
are pruned and no Git deployment stays "building" unless the worker was killed.
`SnapshotAsDeployed` and `VmRunsLastRow` are stated for one deploy at a time because they
fail without that: an upload clears the directory another deploy reads.

On the pages, a deletion hits what its dialog named, a form shared by two dialogs sends no
text entered in the other, a poll is not heard after its VM stopped, and no skeleton or
"Connecting..." stays for ever. The other properties hold up to named cases, which the
model contains:

* `ViewIsTheEntry`: Inertia's reloads and posts write history entries without a tab, on
  which back and forward leave the tab as it is (`show.tsx:86`).
* `NamedRightly`, `ListsAreCurrent`: listings are neither ordered nor aborted, so one that
  was overtaken, or that failed, leaves rows of another directory, filter, worker or time
  (`files-tab.tsx:75-83`); a user who moves on while a change is being saved is shown the
  old directory's files under the new one's name. The secret of the webhook that is shown
  is the panel's unless the tab was left while a connection was being made.
* `NoStrayStream`: a session granted after the tab was left, or to a second click,
  opens a WebSocket nobody closes (`logs-tab.tsx:222`); `TerminalTab` does not
  close its WebSocket at all when it is left (`terminal-tab.tsx:24-45`).
* `TypesIntoOneShell`: a late close event of one connection sets the state of the
  next to "disconnected", and both then get every key.
* `ChangesAreAnnounced`: the banner is the tab's own state and lost when the tab is left, so
  the property speaks of what was changed in this visit. A deploy's answer removes it, also
  for a change saved while the deploy ran; a lost answer announces nothing.
* `BackupNeedsPersistent`: a save, a scan and a deploy write the list and the paths in two
  statements, of a row they loaded before (ten seconds before, for a scan). Between the
  two, and after two of them have written over each other, a persistent database may be
  missing from the paths a deploy keeps; so may one that the Files tab has taken out.
* `CleanMeansStored`: an edit made during a save loses its mark; allowlist, ports
  and workers start from a copy their own saves do not renew; worker definitions
  take a refusal for success (`workers-tab.tsx:57-71`); a save and a scan that overlap
  overwrite each other's list, and a deploy adds to it or puts back an older one.
* `AtMostOneDefault`: two racing requests leave two default endpoints, or none; so does one
  that fails between its statements. `setDefault` on an endpoint deleted meanwhile leaves
  none.
* `WaitingEnds`: "Searching..." stands for the absence of a result (`logs-tab.tsx:381-392`), so
  after a first search that failed it stays, with nothing under way.

The rollback buttons have no property: one mark serves all rows, so a rollback of
a second row, or leaving the tab, frees the button of the first, and a row can be rolled back
twice at once. Domains and tokens have the same single mark.

**Disagreements with the documents.** `vm_dual_mount`: GUIDE.md says an image
is never mounted by the host and in use by a VM at once, and Redeploy calls its
deploy function "safe: VM is stopped"; Stop does not wait for the process.
`vm_destroy_stops`: Destroy "stops and removes a VM completely", but it
removes whatever is registered after its Stop: a destroy and a redeploy stop the same VM,
the redeploy registers a new one, and the destroy removes that without
stopping it. `metering_partial`: ReportUsage reports completed hours "to avoid
partial counts", but a line logged in an hour may be counted after that hour's row was
billed and marked, and what the row gains then is never billed. `snapshot_merge`: deploys
copy the build "into a versioned snapshot directory", but its name is a second;
waitForRunning may return on its first poll, so that two deploys end in one second, and rsync
without `--delete` merges the second build into the first one's snapshot. `rollback_restores`: a
rollback whose snapshot went with a deleted build directory deploys whatever the
build directory now holds and is recorded as successful. `rollback_build`: a
rollback means to make its snapshot the build directory, but deletes
that directory, the snapshot in it, before copying.

**Bounds.** `PoolSize` is the pool's real limit (254 · 253 in the code), and since
the counter never goes back an object per address is enough: `Objs` restricts
nothing. Two objects of one id give an old VM beside its successor; two handlers
give every pair of requests, for one id or for two; two ids of one app give the two
creations of one slug. `MaxRuns` bounds the restarts of the daemon; its last run neither shuts
down nor crashes, so that it may be looked at for ever. Two runs give the state
a restart finds; with them one id and one handler are left, beside StopAll.

In `metering` two requests are the least that share an hour or not, a pass or
not, and a file or not; with three hours one is over, one has just ended and one runs.
`Retention` 1 lets clean-up meet rows still being written. In `deployments` one web
process and the worker give every pair of overlapping deploys; one snapshot kept
makes the second deployment prune; three rows are two deployments and a
rollback; two seconds let two snapshots have one name or two. `BuildingEnds` is
checked apart, since the liveness of one Git job needs fewer rows and more failures: one to
fail it and one of what overlaps it. The violation runs keep the code's five snapshots. The
bounds count what work in progress still needs (`RoomForRow`, `RoomForCode`), so that no
process stops in the middle for lack of room. `CHECK_DEADLOCK FALSE` in these runs
and in `front_end` only: when rows, seconds and code, or the requests of a visit,
are used up, nobody is left to act. All other models always have a next step.

In `front_end` a request sent by a user reserves room for the listing or reload that
follows it, so that no handler is cut off by a bound. `MaxRequests` 4 lets
two changes and their listings overlap, or one change and two listings; pages whose steps are few
(`DomainsTab`, `PreviewsTab`, `ApiTokens`) are given more, those with many fewer
(`WorkersTab`, `TeamEnv`, `TeamMembers`, the last with one other member), as
`FrontEnd` says. Two streams and three connections are what a late event, the next
attempt and the one after it need. Two history entries allow a step back
followed by a new entry, which cuts the other off. Two keys are the least of which a
dialog can take the wrong one, two names likewise; one SQLite file is enough, since its
switches do not concern another; `Keep` 2 and `Fetched` 1 stand for 500 and 200
lines. `Hours` 0, 1 and 7 give a chart without bars, with one, and with more than it labels.

**Fairness.** Weak fairness of each handler's and each startVM goroutine's next
step (the Go scheduler, and commands and waits with an end), of StopAll's steps, and
of Restart (`Restart=always`). Nothing is assumed of clients, of the guest, of
a signal or a crash. `StartVM` fairness includes the SDK's goroutine that kills a
cancelled process.

Metering: the scheduler queues both jobs every few minutes for ever, and the queue is
first in, first out, so a pass that can begin again and again begins in the end
(strong fairness, as the other job may keep the worker busy at times); a pass's
steps, the start of the hourly report and its mark happen in the end (weak). Strong fairness of `Discard \/ ReportUsage`
says that Stripe does not refuse a team for ever. Nothing is assumed of
traffic, rotation, subscriptions or failures. Deployments: weak fairness of each
process's next step, as commands and HTTP calls have time-outs. Front end: weak
fairness of `Waiting /\ Served`: while a page waits, the panel, the network and the
event loop go on with the requests and WebSockets that are there. A request is answered
or fails (the browser gives up in the end) and an event that is due arrives. Users,
timers and other windows owe nothing.

## 4. Proofs

`VmLifecycleProofs` proves for any finite or infinite sets of ids, handlers and
objects, any pool size and any number of daemon runs, however requests overlap:

* `TypeCorrect`: `Spec => []TypeOK`;
* `AddressesUnique`: `Spec => []UniqueAddress`;
* `ReleaseSafe`: `Spec => []ReleasedOnlyAfterCancel`;
* `LeaseRefinement`: `Spec => LeaseSpec`;
* `NoneStrays`: `Spec => []NoStrays`;
* `ImagesAreLeft`: `Spec => []ImageIsLeft`;
* `DevicesAreKept`: `Spec => []KeepsItsDevices`.

Assumed are only the named assumptions on constants (`PoolSizeAssumption`, …,
`NilAssumption`: nil is not an object, a VM or an address).

The inductive invariant `IInv /\ DeadOK` is:

* `TypeOK`;
* `RegistryOK`: the map holds existing objects;
* `ThreadsOK`: a thread inside Stop holds an existing object, and past the
  cancel a cancelled one – without it, `ReleasedOnlyAfterCancel` is not
  inductive, since the release uses a pointer taken several steps before;
* `AddressesOK`: every address given out is below `counter`, and no two objects,
  dead ones included, share one. `UniqueAddress` speaks of live VMs only and is
  not inductive; this is the fact the code really relies on;
* `DeadOK`: a dead daemon has no threads, which Restart needs.

`StepIInv` has one case per action and rests on one lemma per handler
(`CreateIInv`, `StopIInv`, …), which share `ObjectStep` (a step that changes
one object), `ObjectsKept` (one that changes none) and `MovesOn` (a thread
that answers or leaves Stop). The refinement maps a holder to the address of its
object while that is `Live`; `CreateGrants` shows that Create is a Grant, and
`NoGrant` that every other step is a Drop, of no VM, one, or all at a restart.

The last three rest on `Isolation`, the theorem that `IsolationInv` is invariant. It says
what the code relies on between two steps and nowhere states: `OneByOne`, two
handlers that work for one id have been noticed in `overlapped`; `Place`, what a handler
knows where it is, unless its id is there (the object it stops stays registered until the unmap,
which finds it cancelled; nothing of the id is registered while it deploys, deletes files
or creates); `MapOK`, the map and the objects agree on ids and on every VM not told to
die; `MainOK`, StopAll runs only in a shutdown; and `KeepsItsDevices`. The main goroutine
may stop a VM a handler works for, but it never takes an id out of the map, so that no
handler's `Place` is disturbed; it may delete a device a handler has just made, which
is why `KeepsItsDevices` speaks of a daemon that is up. `OtherPlaces` and `MapKept`
are the lemmas shared by the actions.

`UsageMeteringProofs` proves for any number of requests, hours, rotations and
failures, any batch size and any retention:

* `MeteringTypeCorrect`: `Spec => []TypeOK`;
* `CountedAtMostOnce`: `Spec => []CountedOnce`;
* `NothingIsSkipped`: `Spec => []NothingSkipped`;
* `NothingIsBilledTwice`: `Spec => []BilledAsCounted`;
* `OnlyPastHoursAreBilled`: `Spec => []BilledAfterItsHour`.

Assumed are `BoundsAssumption` and `BatchAssumption`. The inductive invariant
`MInv` is `TypeOK` and

* `OnceInv`, for `CountedOnce`: what a job has not written yet, and every line
  beyond its cursor, is in no row. The cursor is a position in the current file, so
  the fact has to name the file: it survives a rotation, since all that is beyond
  the cursor then is new, and the reset of the cursor, since a file smaller than
  the cursor is a new one;
* `CoverInv`, for `NothingSkipped`: every line before the worker's next position is
  written or among those it still has to write;
* `BillInv`, for the billing properties: hours being reported are past and not
  yet reported, a request outside of them was billed only if its hour is marked,
  and what the report has read is at most what is counted now.

`DeploymentsProofs` proves for any finite set of web processes, any number of pieces
of code, seconds, rows and failures, and any number of snapshots kept, however
deploys overlap:

* `TypeCorrect`: `Spec => []TypeOK`;
* `SnapshotsStayFew`: `Spec => []FewSnapshots`;

and of clients that wait for each other (the properties say `serial =>`):

* `SnapshotsAreAsDeployed`: `Spec => []SnapshotAsDeployed`;
* `TableTellsWhatRuns`: `Spec => []VmRunsLastRow`;
* `VmKeepsCode`: `Spec => NoCodeNoDeploy`.

Assumed are the named assumptions of the module. `WebAssumption` says that a web
server has finitely many workers; without it the number of deploys at work is no
number. The invariant for the first two is `IInv`:

* `JobsOK` (`Fits`): which kind of deploy can be at which step, with which directory and
  row. A Git job's row exists, and a rollback that deletes the build directory has a snapshot
  for its directory;
* `RoomLeft`: rows and code that the deploys at work still need fit into the
  bounds. The model's bounds are checked when a deploy begins, and types hold only
  because of that. It is about the bounds, not the code, and needs counting
  (`CountMore`, `CountLess`, from the library's facts about cardinality);
* `FewSnapshots` itself: a copy makes one snapshot and puts its process among those that
  prune, pruning ends with at most `Keep`, and only a kill takes a process from the
  pruning ones otherwise.

`SerialInv` says what one deploy at a time relies on:

* `AloneInv`: at most one process works;
* `NamedInv`: a snapshot that exists, or that a row or a deploy names, was written to, so that the
  copy into a second that is named already is counted as its second writer;
* `FilledInv`: what is sent exists and has content, unless a snapshot passes for code; from
  there to its row the VM runs what the deploy read, and the build directory holds it until it is
  copied. The code nowhere checks that: `SnapshotAsDeployed` would be lost if the second
  reading of the directory (`Copy`) differed from the first (`Send`);
* `SnapInv`: the snapshot about to be recorded, if nothing else was written to it, holds what was
  sent, and a rollback's own snapshot is gone once it deleted the build directory, which is why
  its row, that names the same second, says nothing false;
* `LastInv`: a Git deployment's row is the last one while its job runs, and the VM runs
  what the last row says that reached it, until the next deploy has sent.

The step lemmas have one case per action of a process (`Acts`), over a description of
what a step does to a job (`Starts`, `Stops`, `Goes`) and to the table (`Outcome`, `GivenUp`).

The front end's pages are proved correct one by one, for any sets of directories, keys,
values, files and endpoints, and for any bounds; requests, connections and
history entries are as many as the bounds allow. `FrontEndProofs` lifts the results: a
step of `FrontEnd` is one of the page looked at (`OnePageSteps`), so that
`Spec => Files!Spec` and likewise for the sixteen other pages, and each of its
properties follows. All invariants and action properties of the run `front_end` are
theorems there:

| Property of `FrontEnd` | Theorem | Rests on |
|---|---|---|
| `TypeOK` | `FrontEndTypeCorrect` | the type of each page |
| `ViewIsTheEntry` | `ViewIsAlwaysTheEntry` | `ViewFollowsHistory` |
| `NamedRightly` | `NamesAreRight` | `ItListsWhereItIs`, `ResultsAreForFilters`, `LogsAreOfWorker`, `UptimesAreOfSlug`, `ABarIsDescribed` |
| `ListsAreCurrent` | `ListsFollowThePanel` | `DomainsAreCurrent`, `PreviewsAreCurrent`, `TeamVarsAreCurrent`, `EndpointsAreCurrent`, `TheMembersAreCurrent`, `TokensAreCurrent`, `SecretsAreCurrent` |
| `NoStrayStream`, `ConnectedMeansOpen` | `StreamsEndWithTheirTab`, `SocketsAreAsShown` | `NoStray`, `StreamsFromASocket`, `ConnectedIsOpen` |
| `TypesIntoOneShell` | `KeysReachOneShell` | `OneShell` |
| `ChangesAreAnnounced` | `BannerAnnounces` | `Announced` |
| `SendsItsOwnText` | `FormsSendTheirOwn` | `SendsOwn`, `TeamSendsOwn` |
| `BackupNeedsPersistent` | `BackedUpSurvives` | `BackupsPersist` |
| `CleanMeansStored` | `CleanIsStored` | `SettingsStored`, `DatabasesStored` |
| `DismissedStays` | `CardsStayDismissed` | `DismissalsStay` |
| `AtMostOneDefault` | `DefaultIsUnique` | `OneDefault` |
| `DeletesWhatWasConfirmed` | `OnlyConfirmedIsDeleted` | `DeletionsConfirmed`, `DestructionsConfirmed` |
| `NoLateStatus` | `NoStatusAfterStop` | `StatusIsNotLate` |

The arguments, page by page:

* Lists (`ListingProofs`). `Numbered` says that requests have ids of their own, in the order
  they were sent. `Fresh` says why a list may be trusted once all is quiet: it is
  current and nothing is asked for, or the list asked for last will bring what the panel
  has, or a change was carried out whose answer will make the page ask. `FreshServed` and
  `FreshAnswered` show what the panel and the page do to it. A page's invariant is its type,
  `Numbered`, and `Fresh` as long as its flag (`doubtful`, `lost`) is down. Pages that ask
  for something else than a list use it through an image of their requests: the connection of the
  repository (`Connection`), the fields of a form (`FormView`), the previews that live.
* `TeamMembers`: at most one visit is heard (`OneHeard`), and the page is the panel's unless
  that visit was carried out and its page is not there (`MembersFollow`).
* `DeploymentsTab`: `OneConnection`, one connection is made at a time, by a tab that still waits for
  it; `ShownOrComing` and `SecretComes` say that the secret shown is the panel's, or that an
  answer which will be heard brings it; `ReloadsGranted`, a reload is granted.
* `FileBrowser`: `FilesProper` says that every deletion in flight is of something a dialog
  named. The history invariant is its own strengthening, but needs that `entry` lies within
  `entries`. `LeadsTo`: all changes in flight are of the directory shown, the listing asked
  for last is of it, and without one the rows are.
* `LogSearch`: `NewestIsForFilter`, the same of searches and the filter. `LogStream` is
  inductive with the types. `TerminalTab`: two open connections are excluded only
  because the tab offers "Connect" in one state; `LastIsKnown` relates every attempt to
  that state, and `TerminalInOrder` says that ids are used in turn.
* `WorkersTab`: `PollsAreCurrent`, only a running VM has polls that will be heard, and
  `LogNamed`. `OverviewTab`: `DismissalsKept`, `UptimeOnItsWay`. `AnalyticsTab`:
  nothing is described while a week is fetched; `LabelsOfHours` computes the dates below
  the chart.
* `EnvironmentTab`: `FormIsOwn`, the shared form holds what was entered in the dialog
  that is open. `ToldOrPending` and `DeployedOrPending` say where the knowledge of a
  change is while it is not in the banner: in an answer on its way, of a change or of a deploy;
  `ChangesAreHeard`: a change whose answer nobody hears is of an earlier visit, and `unseen`.
* `DatabaseTab`: `TablesSound`, in the list a request will write, too, what is backed up is
  persistent; `Halfway` is kept in sight by the requests that stay between their statements
  (`StillHalfway`). `DatabasesCleanIInv`: the list is only added to, but where the page itself
  changes it, so that what a request has loaded, found or written is still there (`Clear`), and
  no save is under way beside a scan (`Clean`).
* `TeamStorage`: `OneAtATime`, while no two requests raced, at most one is between its two
  statements, and a `setDefault` there has left no mark at all.
* `AppForms`: forms without a mark follow the page's copy, which is `Fresh` (`CopyFollows`);
  of those with a mark at most one save in flight may take it off, and what it sent is what
  the panel has (`OneMarking`), and without the mark the text is stored (`UnmarkedAreStored`).

Assumed are the named assumptions of `Pages`, among them that history, requests, searches and
fetches are bounded by at least one: a page begins with one entry and asks for its list.

Only model-checked: liveness – `StoppingLeaves`, `DeathIsNoticed`, `DiscardedVmDies`,
`RowsAreReported`, `LinesAreCounted`, `BuildingEnds` and `WaitingEnds` – since TLAPS does
not reason about fairness with `ENABLED`; and the six runs that show a violation,
whose properties are false. Every other property of a run is a theorem.

## 5. Not modelled, and the plan

VMs: the overlay variant of Create and deploy is dead code (`Overlay` is never set).
The size of a VM, its logs, sockets and boot arguments are left out.
A copy of the base image that fails half-way leaves a file that
a later Create takes for a complete image; the model has the file but not its
being incomplete. TAP names are VM ids; the code truncates them to 15 characters.

Metering: a job that reads half of a line being written, and two
report commands at once (one runs every hour). Lines a rotation hides from a job
are in the model, which is why `NothingSkipped` and `LinesAreCounted` speak of a
file not rotated yet.
Deployments: renaming and resizing an app (`updateSettings` redeploys the resized VM and
writes no row, so `VmRunsLastRow` is about deploys and rollbacks), the `vm_id` and `vm_ip` a deploy writes into the app's row, and the commit a
Git deployment names.

Front end: Mercure keys, the button that redeploys, the deletion of an app,
revealing a secret, CSV export, help texts and layout. The pages not listed in
section 2 are static, show what the panel sends, or have one form whose answer is the
next page. A refused listing breaks two pages (`team-storage.tsx:128`,
`logs-tab.tsx:171`), which is left out. Some requests send no valid token against
forgery (`app.blade.php` has no `csrf-token` meta element, which `api-tokens.tsx` and
`deployments-tab.tsx` read), so that the panel refuses them always; the model also
lets them succeed. Seen and left without a property: an invitation's role change
is answered with JSON to an Inertia visit (`TeamController.updateRole`); the form of an
endpoint stays at "Saving..." after a network error (`team-storage.tsx:167-192`); the
result of a connection test is shown in whatever endpoint's dialog is open; the card
for the first deploy asks for a status the panel never writes
(`overview-tab.tsx`); a token whose creation's answer is lost is live and not shown
until the next reload; the mark of a rollback (see section 3).

Manager and panel: Create does not give an address back when a later step fails
(`CreateFails`; it only exhausts the pool sooner); an upload clears the build directory
while another deploy reads it (in the model with `serial` FALSE, where the properties
of snapshots do not hold); after a rotation a metering pass may start in the middle of the
new file (in the model, see `NothingSkipped`). Without a model: the panel gives up on a deploy after 60 s
while the manager goes on (`VMManagerClient.php:138`; the manager's side is in
`VmLifecycle`); a preview renewed by a push while the expiry loop runs is destroyed
(`CleanupExpiredPreviewsJob.php:22`); the plan's limit is counted before the app is
created (`AppLifecycleService.php:61`).

Components without a module are listed in `PROJECT.json` with the reason; hazards
that no property covers are listed there too. Liveness and everything that needs
induction over data is left to TLC.

Order of work, most important first:

1. `VmLifecycle` with the pool, its abstract lease and proofs (done).
2. `UsageMetering` and its proofs (done).
3. `Deployments` and its proofs (done).
4. The front end: one module per page, `FrontEnd`, five proof modules (done).
5. Open: the panel's app rows against the manager and Caddy, with restore and previews;
   the health checker with the webhook and the alert jobs; port forwarding; the
   guest's worker supervisor; the session store and its time to live; plan limits.

# TLA+ models of pelican-k8s

Models, model-checking runs and machine-checked proofs for the parts of
pelican-k8s in which several processes share state. Each definition is written
from the Go code; `PROJECT.json` maps it to the lines it stands for.

## 1. The system

pelican-k8s runs game servers of a Pelican Panel on Kubernetes. One server is a
GameServer object, an agent pod and a game pod.

| Part | What it holds | What it does |
|---|---|---|
| **gateway** (`internal/gateway`), replicated | nothing of its own; lagging informer caches | takes the Panel's requests and writes `spec` (conditional writes); takes the agent's posts and writes parts of `status`; derives `spec.power.desired` from the process state (the intentional stop, the crash check); carries console sessions, transfers and backups |
| **operator** (`internal/operator`), one leader | the internal CA; nothing between two reconciles | reads a GameServer past its cache, creates, places and scales objects, runs the install Job, calls the agent's HTTP API, and at the end merge-patches the status fields it changed, after an error too; rotates the CA; finalizes a deleted server |
| **agent** (`internal/agent`), one per server | Wings in memory: power lock, install lock, process state | runs Wings with an environment whose "container" is the game pod's shim, and an installer whose script runs in a Job |
| **shim** (`internal/shim`), PID 1 of the game pod | the game process | dials the agent, proves the shared token, starts, reaps and stops the game; stops it by itself on SIGTERM |
| **install Job** (`cmd/shim`) | exit code file on the volume | runs the install script |

What makes it hard:

- The status has several writers. The operator decides from a read that the
  gateway may overtake before the patch; gateway replicas read stale caches and
  write next to each other.
- A power or install request is *accepted* (202) by the agent and runs later,
  under a lock that can refuse it. The operator sees only the acceptance.
- `spec.power.desired` has two writers, the Panel and the gateway's derived
  stop, which must tell a stop the user wants from the stop half of a restart.
- Agent container, game pod, nodes, operator and gateway replicas come and go
  independently; what they held in memory (locks, calls, connections, handlers
  half done) goes with them.
- Answers get lost: between Panel and gateway, gateway and agent, and at every
  write to the API server.
- In the shim the reaper, one `waitLoop` per start, the connection's handler and
  `shutdown` interleave around two mutexes.

The full list of components is in `PROJECT.json` under `components`, with what
is modelled, partly modelled or not, and why. `hazards` lists where this
code can go wrong in ways a test hardly reaches, by line.

## 2. Modules

| Module | Component | Run | Proofs |
|---|---|---|---|
| `Install` | install: operator, installer, gateway handlers, Job | `install_restart`, `install_supersede` | `InstallProofs` |
| `ShimListener` | the agent's listener and the environments that take its connections | `listener` | `ShimListenerProofs` |
| `Shim` | the shim's process supervisor | `shim` | `ShimProofs` |
| `Power` | power actions from Panel to process and back | `power` | - |
| `ProcessRegister` | what `status.process` promises (abstract) | as a property of `process_state` | - |
| `ProcessState` | the gateway's replicas that poll the agent and write `status.process` | `process_state` | `ProcessStateProofs` |
| `Certs` | the internal CA, its rotation, the certificates and who trusts them | `certs` | `CertsProofs` |
| `Placement` | where agent and game pod run, when they are replaced | `placement` | - |
| `Console` | a console session over the life of several agents | `console` | - |
| `Transfer` | a server pushed to the cluster, the Panel's server calls, Resync | `transfer` | - |
| `Volume` | volume, snapshots, finalizer, upgrade from 1.x | `volume` | `VolumeProofs` |
| `Backups` | the records of running backups and restores | `backups` | `BackupsProofs` |

How they meet: `Power` takes a posted state for recorded in one step
(`RecordState`), which `ProcessState` spells out over replicas. `Placement` takes
`spec.power.desired` and the process as inputs and `Power` takes the node of a
pod for granted. `Transfer` has the finalizer as one step that `Volume` spells
out, and `Volume` has the adoption by Resync as one. What `Backups` records is
part of the in-flight work `Placement` waits for.

`MCShimListener` gives the listener its set of connections; the others are
instantiated by their configurations alone. A definition whose comment says
*Mutant* is not part of the specification: it is a plausible wrong version of a
mapped definition, listed under `mutants`, and shows that the property named
there would notice.

### 2.1 Install

`st` is `status.install` plus the agent instance the operator recorded; `op` is
the reconcile in progress with the status it read (`old`) and the one it will
write (`new`). A reconcile is several steps: `OpRead`, `OpFreshAgent`, the
`Install*` actions, one per branch of `reconcileInstall`, and `OpPatch`, whose
`Merge` is the merge patch of `updateStatus`. `InstallAborts`, `OpPatchLost`,
`OpFreshAgentFails`, `AgentPreparedLost` and `RecordResultLost` are the error
paths.

A reconcile reads the GameServer past the cache, but the Job from its manager's
cache: `jobCache` lags behind `job` with `StaleJobs`, as in both runs (`JobView`,
`JobCacheSync`). Creating a Job that is there already is refused and harmless. A
final result next to a Job that the cache does not show finishes the generation
while the Job runs; such a Job is `lost`, a history variable, and the two
properties about Jobs except it. Configuration `InstallJobCache` shows how it
comes about, and `LiveJobReadsLoseNone` proves that nothing else loses one.

The agent's side is Wings' install lock (`run`), `Installer.Run` (`AgentPrepared`,
`AgentReadsExit`, `AgentPolls`) and the filter of a superseded run's report
(`mark`, `queued`, `FilterReport`): Wings releases the lock before it reports,
so a report may be overtaken. The gateway's handlers read `Seen`, the cache or
the API server according to `StaleReads`. The Job's pod writes the exit code;
the pod of a deleted Job lives on (`orphans`) until it exits or is terminated, and
may write to the volume next to the Job that follows. Exit codes are told apart
only with `StrictExitCode`, the one place that looks at them (`Codes`).

Left out: the script's output, the files it copies, logs.

### 2.2 ShimListener

One value of `conn` per connection says where its goroutine is: `handshake`
(holds a slot), `proven`, `replaced` (has become current, has yet to close the
previous one), `offer`, `queued` (in the ready channel), `taken`, `over`. `taker`
is the `connectLoop` of each environment the factory built; `Accept`'s two
checks, the mark and the closed channel, are two steps. An environment built
again runs its loop before the previous one is closed, as in `Factory`.

Left out: the bytes of the handshake (a peer proves the token or does not), and
requests on an established connection.

### 2.3 Shim

Processes are pairs of a start and a kind: the direct child, or a process that
left its process group. `srv` is the place of the connection's handler in
`start` and in the request that sets the state, `wait[n]` that of `waitLoop` of start `n`, `shut` that
of `shutdown`. Sampling readiness and writing the readiness file are two steps,
as are listing `/proc` and killing what was listed, and spawning the child and
recording its pid (under `spawnMu`).

Assumed: pids are not reused; what was listed does not fork before it is killed;
broadcasting an event does not block; stop configuration, signal and stdin data
are left out, a stop being a request the process may ignore.

### 2.4 Power

`spec` is `spec.power` plus the template the game pod is rendered from, `status`
the fields of the status that power reads or writes. The gateway: `PanelPower`,
`RecordState`, `CheckTerminating` and `DeriveStop` (the post handler with
`intentionalStop`), `CrashCheck` and `CrashStop` (the two reads of the crash
watch). Wings: accepted `calls`, the action that holds the power lock (`act`),
whether a call met one that was not finished (`queued`) and the process state; `Stops`, `WingsStopped`, `WingsStarts`, `ShimConnects`
are the environment's `Stop`, `WaitForStop`, `Start`, `onConnected`. The
operator: `OpRead`, `OpPods`, `OpKillScale`/`OpKillPod` (`killPendingGamePod`),
`OpScale` (`gameReplicas`, `ensureGameStatefulSet`), `OpShim`, `OpRecreate`,
then `reconcileProcess` as `OpWaits`, `OpFresh`, `OpPower`, and `OpPatch`. What
the operator asks once per reconcile, it keeps in `op` and uses later.

External, modelled from how the code uses them: Wings itself, the StatefulSet
controller and the kubelet.

Left out: suspension, `restartRequest`, the move of the agent and the change of
the tls setting (module `Placement`), shared addresses, and start failures other
than a missing or terminating shim. Pod UIDs are compared for equality only, so
one nothing refers to is used again. Pods are read as they are, where
`pods.go`:138 and `store.go`:96 read a cache: a pod cache that lags behind the
GameServer is not in this model.

Timing. The code compares clocks; the model has two flags, `recent` (the last
restart or stop is less than `restartWindow` ago) and `settled` (state and last
action are a settle time old), and actions that let time pass. Which races those
actions may win is the constant `Prompt`:

| In `Prompt` | Assumption |
|---|---|
| `posts` | a posted state change is handled before the reconcile it falls into patches the status, and before a crash check |
| `stops` | a process stops within `restartWindow` of the request, and a restart that finds it without a connection is over by then |
| `starts` | Wings has carried out every power call it accepted within the crash check's settle time |
| `console` | nobody types the stop command while a power action is under way |
| `scale` | the StatefulSet controller scales down before the next reconcile |

Always assumed: a crash check takes less than the settle time, and than the
start of an agent or game container; an accepted power call begins before the
next reconcile reads, unless it waits for the power lock. `posts` holds the
status patch of a reconcile back until the gateway has handled what was posted,
which nothing in the code does; without it a late `offline` can stop a newer start.

Two histories name what the crash check may go by. `ended`: the process ended by
itself. `masked`: a reconcile that found no game pod records `offline`
(`settleProcess`), and its merge patch may land on the `running` of a process that
was started since; the check then stops a running server (configuration
`PowerSettleRace`). `CrashCheckSparesStart` says that there is no third way.

### 2.5 ProcessRegister and ProcessState

The n-th state of the process is the number n. `ProcessRegister` is the promise:
an answer of the agent never replaces a newer state (`Confirm`), and only a post
whose poll failed may put an older one back, which marks it as `claimed`.

`ProcessState` has a thread per post and one repoll per replica. `Lock`, `Get`,
`Answer`, `Write`, `Unlock` and `Deregister` are the steps of `recordState`,
`repollState` and `writeState`; the write is conditional on the version read, a
conflict starts over. `PostFails` writes the posted state and starts a repoll
unless one is registered. `gaps` names the ways the last state may go unrecorded:
a repoll ran into its deadline, lost every attempt, met an API error, died with
its replica, or was answered and still registered when the post came (`window`).

Left out: `settleProcess` of the operator, which writes the same field for a
server without a game pod.

### 2.6 Certs

A CA is a number, a certificate the CA that signed it, a bundle a set of CAs. A
pass of the manager is `Sync`, `Rotate`, `SetCA`, `EnsureGateway`, `Renew`; next
to it a reconcile writes an agent's Secret from what it read of the Issuer
(`ReadCA`, `ReadTrust`, `GetLeaf`, `PutLeaf`). Mounts, key pairs and bundles
follow a Secret separately (`Mount`, `ReloadPair`, `ReloadRoots`). Time is in
ticks of ten minutes, which a reconcile and the way of a Secret into a process do
not outlast; a stage lasts at least `Overlap` of them. The game pod's own mount of
the agent CA is taken for the agent's.

### 2.7 Placement

A reconcile reads the pods (`Load`, with the kill of a game pod), asks the agent
for work (`Ask`) and, where `gameReplicas` or `recreate` need it, once for the
process (`serverState`); `Scale`, `ReplaceForTransport`, `Recreate`, `Relocate` act
on what it was told, in the code's order. `BindAgent` and `BindGame` are the
scheduler under the affinities the operator rendered. Work and process begin and
end between any two steps, nodes fill up or are lost, templates change. A pod
starts only once no other pod of the server holds the volume on another node.

What the agent says of the process is what the shim told it (`agent.on`): a new
agent, or one whose container restarted, is ready before the shim attaches to it
(`AttachShim`) and says `offline` until then. A reconcile that asks in between can
take a running game pod away; it is `blind`, and `RunningKept` excepts it
(configuration `PlacementUnattached`).

`fence` does nothing unless the class sets `failover.forceDeleteAfter`, which it
does not by default. `ForceDelete` is that setting and `Age` its passing. With it,
in the run, the pods of a lost node are replaced; without it they stay, and
`Placed` is about servers none of whose pods is stranded on one
(configuration `PlacementUnforced`, which passes).

`MaxWork` bounds pieces of work and restarts of the agent's container together.
In-flight work that begins after the question is not known to the reconcile and
goes with its agent, and `WorkKept` does not speak of it.

Assumed for `Placed`: while a restart request waits for an agent that is not
ready, not every reconcile reads the game pod in the window before its container
starts; each one that does deletes it again, and nothing else in the code ends
that.

### 2.8 Console

One session: `Main` is `session.run` with `reattach` and `askForToken`, `Pump`
the goroutine from the browser. A token is whether it passes the last agent's
boot cutoff. `askForToken` selects between its timer and `clientDone`, and Go
takes either when both are ready: a timer that wins although the browser has left
(`raced`) leaves the session at its agent until the agent ends. `SessionReleased`
and `SessionContinues` except it, and configuration `ConsoleSelect` shows it.

Assumed: the two locks of `attach` are one step, since the agent token is the
server's. A session that was opened with a token older than its first agent is
not asked for another (`late`), and `SessionContinues` excepts it. Left out: power
requests, whose permission check has no state of its own; what they ask for is
`Power`.

### 2.9 Transfer

`th` holds the threads: pushes (`AdoptForTransfer`, `transfers`), reports
(`transferResult`, `FinishTransfer`), `Resync` and the Panel's calls (`Create`,
`RequestInstall`, `Sync`). Each read of the cache, call to the Panel and write is
a step, every call can be lost (`MaxLost`), and a handler can die with its
replica. `mark` is the transfer mark with its age, `alloc` whose allocations a
server carries.

Assumed in the run:

- A push is retried once the Panel, the source and the agent are done with the
  earlier one (`Over`). The gateway may still be giving that one up, caches may
  lag and Resync may be anywhere. But a push takes longer to be received than all
  of these need (`Outlasts`, the guard of `Received` without `Overlap`): no other
  push, and no Resync about to delete the server, is still under way by then, and
  the cache shows the server.
- A push starts and is settled before its mark is a day old (`Timely`). Nothing in
  the code limits a push to a day: `TransferReused` is the run without it.
- No Resync holds a list for a day, and the Panel makes calls only about a server
  it created here.
- The write of the install script and the conditional patch of `RequestInstall`
  are one step.

A transfer can stay open in the Panel for
ever when the agent dies after it has received everything and before it reports;
`Settles` is about the cluster, which follows whatever the Panel decides.

### 2.10 Volume

The reconcile of a living server (`AddFinalizer`, `migrateLegacy`, `ensurePVC`,
`EnsureWorkload`, `reconcileSnapshots`, `UpdateStatus`) and `finalize` in its
steps, each of which may be the last of a reconcile (`CutShort`). `late`, `again`
and `changed` are histories that say which of the known exceptions happened.

The adoption of the power state is two steps, the read (`migrateLegacy`) and the
patch conditional on the version read (`PatchLegacyPower`), and the Panel or the
1.x agent may change the state in between. `MaxTrouble` bounds all disturbances
together: snapshots that fall due, reconciles cut short, evictions, changes of the
class, adoptions.

Pods, claims and Jobs are read as they are, where `finalize.go`:60, 111 and 124
and `migrateLegacy` read a cache: assumed is a cache that shows what the operator
itself did before its next reconcile. A claim that is deleted is gone at once; in
the cluster it is kept, Terminating, while a pod uses it, and the finalizer waits
for the pods first. Left out: the resize of a claim.

### 2.11 Backups

`Request`, `Record`, `Accept`, `Answer`, `Drop` are `backupProxy`; `Post`,
`Forward`, `Clear` are the remote API's `backup`; `Update` is `UpdateBackups`, a
write at the version read with the entries of the instance that the replica's
*pod* cache shows. GameServer cache and pod cache of a replica lag independently.
A record is a pair of backup and instance; the order of the list is not kept.

Assumed: a restarted agent keeps the address of its pod, so a request reaches
whichever instance runs; the Panel asks for a backup again (its restore) only
once nothing is under way as far as it was told; Wings repeats a post after a 5xx
or a broken connection and gives it up on a 404. The agent's GET about a backup
is the check `Allowed` and changes nothing.

`gap` names, per backup, the first thing that broke the tie between a running
backup and its record. Some of them are things the code does against its
own comments; see section 4.

## 3. Runs

All runs are exhaustive and pass. "Fair" runs use `FairSpec`.

| Run | Bounds | Checked |
|---|---|---|
| `install_restart` | 1 generation, 1 agent restart, 1 fault, a shim to wait for, lagging caches of GameServers and Jobs | `JobTracked`: the status names an unfinished Job's generation as requested and not finished, unless the Job is `lost` |
| `install_supersede` (fair) | 2 generations, no faults, a lagging cache of Jobs | `OneInstallJob`: never two unfinished Jobs, unless one is `lost`; `NewerReportKept`: the mark of a superseded run never swallows a later run's report; `InstallFinishes` |
| `listener` (fair) | 2 connections, 1 handshake slot, ready channel of 1, 2 environments | `NewerNeverFollowedByOlder`; `NewestIsUsed`; `ReplacedLetsGo` |
| `shim` (fair) | 2 starts | `OneGame`; `RunningStopped`; `ExitNoticed`; `ShutdownReturns` |
| `power` (fair) | 2 power actions, 1 upset of five, all of `Prompt` | `KillIsFinal`; `RestartKeepsRunning`; `CrashCheckSparesStart`; `GenerationsObserved`; `RunningSettles`; `KillTakesPod` |
| `process_state` (fair) | 2 replicas, 2 changes, 3 failed polls, 1 stale read, 1 foreign write, 1 error, 1 crash | `RegisterSpec`: the replicas implement the register; `ClaimIsOwedPoll`; `LastStateRecorded` |
| `certs` (fair) | 1 agent and the gateway, 1 operator that restarts, 1 rotation, 1 renewal, 1 failed write, 1 crash | `PeersTrust`: each peer trusts every certificate it can be shown; `CertificatesSettle` |
| `placement` (fair) | 2 nodes, 1 piece of work or restart of the agent's container, 1 change of eight kinds, `ForceDelete` | `WorkKept`; `RunningKept`; `Placed`: the two pods end up together and running |
| `console` (fair) | 2 ends of the agent, 2 unasked tokens | `ConnectionsOwned`: no connection to an agent is open that the session does not hold; `SessionReleased`; `SessionContinues` |
| `transfer` (fair) | 2 pushes, 2 calls, 1 Resync at a time, 2 losses | `MovedKept`; `InstallsCounted`; `FreshVolume`; `Settles`: the cluster ends up as the Panel has it |
| `volume` (fair) | 1 scheduled snapshot kept, 2 disturbances | `FinalSnapshot`; `VolumeByPolicy`; `UpgradeKeeps`; `Deleted` |
| `backups` (fair) | 2 replicas, 2 backups, 2 requests, 1 fault | `RunningRecorded`; `ResultForwarded`; `RecordsEnd` |

Why the bounds are enough to be interesting:

- *Install.* Superseding needs two generations and nothing in the code compares
  more than two. An agent restart and a fault are checked with one generation,
  where the state space with a game pod and lagging caches stays small. That a
  Job is tracked, that there are never two and that no report is dropped is
  proved for every number of generations, restarts and faults.
- *ShimListener.* A newer connection racing an older one needs two; a slot and a
  ready channel of one make both fill. The code has 16 and 4; the safety
  properties are proved for any.
- *Shim.* A stale exit or a left-over process concerns the start after it, so
  two starts; proved for any number.
- *Power.* Two actions make every pair (a stop during a restart, a kill during a
  start) with every upset at every moment.
- *ProcessState.* An older answer over a newer one needs two changes and two
  replicas, and three failed polls make a post fail while a repoll fails too. The
  refinement is proved for any.
- *Certs.* A rotation has three stages, and the one agent's certificate, bundle
  and mount each lag. A second operator replica matters only as a standby
  (configuration `CertsFailover`).
- *Placement.* Two nodes make "elsewhere" and "full" possible for both pods; each
  kind of change happens in every state the others' absence allows.
- *Console.* Two ends let the session be on its way to an agent that is gone
  again before it is reached.
- *Transfer.* A retried push needs two, a lost answer whose repetition is lost as
  well two losses, concurrent installs two calls.
- *Volume.* Deletion, adoption and a second deletion take one disturbance and
  leave one for a reconcile cut short in either.
- *Backups.* A backup next to another one, or followed by its own restore, with a
  fault at any moment; the two safety properties are proved for any number.

Deadlock is checked in `power`, `certs`, `placement`, `console` and `transfer`.
The other systems really may stop: an install is finished, no peer connects, the
container has terminated, every bound is used up.

`TypeOK` of the modules without proofs, and two plain invariants
(`NothingExposed`, `NewestKept`), are in configurations of their own next to the
runs, on the same or a larger instance: `PowerTypes`, `CertsTypes`,
`PlacementTypes` (two pieces of work), `ConsoleTypes` (three ends, three tokens),
`TransferTypes`, `VolumeTypes` (three disturbances). They pass, and so does
`PlacementUnforced`, the `placement` run without `forceDeleteAfter`.

### Fairness

Weak fairness only, and only of what the code or Kubernetes keeps doing: the
operator requeues (an error is requeued with backoff, a wait has
`RequeueAfter`), goroutines run, timers and deadlines fire, HTTP posts are sent,
informers catch up, the kubelet starts and ends containers, Resync and the
certificate manager run on their interval. Never of the Panel, a user, a crash,
an eviction, a fault, a reconcile nobody asked for, or a peer that connects,
authenticates or hangs up. In `Shim` the game need not exit and the agent need
not ask; in `Placement` a lost node may stay lost.

Fairness is of a whole process where that process is sequential, such as
`WF_vars(Operator)`. It then does not rule out that the process always takes the
failing one of two alternatives, so failures are bounded and the bounds named. In
`Backups` one condition on `Progress` is enough: no step can be repeated for ever
without another, so every behaviour under it ends with nothing left to do.

`install_supersede` also assumes `PromptPatch`: a run does not end between the
operator's install request and the status write at the end of the same
reconcile. Without it the operator's `Running` may land on top of a result.
`InstallFinishes` is checked without faults, since `installResult` only logs a
failed status write, after which the install stays `Running`, and with a gateway
whose cache of the GameServer is current: where the cache does not show a second
request yet, the run that was asked for it prepares the earlier generation, ends as
superseded, and the requested one is never prepared.

## 4. Where the code differs from its documentation

Each of these has a configuration next to the runs in which TLC violates one
property; most of the properties restate the quoted line.

| Configuration | Property | Shows |
|---|---|---|
| `InstallLatePrepared` | `FinishedStaysFinal` | ARCHITECTURE.md:1185: without `prepared` in time "the operator marks the install failed in the status". A run that prepares later turns the finished install back to `Running` |
| `InstallEarlyJob` | `NoJobBeforePrepared` | ARCHITECTURE.md:1184: "The operator creates no Job before `prepared`". A prepared generation left by a run that ended counts for the next run of the same generation |
| `InstallFreshAgent` | `InstallFinishes` | `process.go`:54: "ask the new agent again and start a clean Job". A fresh agent asked to install before its shim attaches is reset afterwards, while its own run keeps the lock |
| `InstallJobCache` | `ObservedJobsFinal` | ARCHITECTURE.md:1210: `observedGeneration` is recorded "once the agent's result and the Job are final". A reconcile reads `Running`, the gateway records a failure, the Job is created; the next reconcile finds the final result and, in a Job cache that lags, no Job |
| `ShimStartRace` | `NoProcessLeft` | `supervisor.go`:158: "a running process is stopped ... before Run returns". A start that checked `stopping` before SIGTERM spawns the game after `shutdown` found nothing |
| `PowerRestartWindow` | `RestartKeepsRunning` | ARCHITECTURE.md:1277: "The restart's own `stopping` → `offline` leaves `power.desired` at `Running`". A process that ignores the stop is killed as the window ends (without `stops` in `Prompt`) |
| `PowerStopLost` | `StoppedSettles` | ARCHITECTURE.md:160: "`desired` always matches what the Panel shows once the process has settled". A stop refused because a restart holds the power lock is observed all the same |
| `PowerStartLost` | `FreshPodStarted` | docs/operations.md:52: "the new game pod starts the server again if `desired: Running`". The fresh-pod rule records the pod before the start, and a failed call is not repeated |
| `PowerSettleRace` | `OnlyOfflineStopped` | `crashwatch.go`:95 logs "process stayed offline after a crash" of every server it stops. A reconcile that found no game pod patches `offline` over the `running` of a process started since |
| `ProcessStateWindow` | `ClaimConfirmed` | `remoteapi.go`:342: "the agent is polled again in the background until it answers". A post whose poll fails between the answer of a repoll and its deregistration starts none, and the older state it carries stays |
| `CertsFailover` | `PeersTrust` | `certs.go`:269: "at every moment each peer trusts the CA of every certificate it may be shown". The reconciler of a new leader starts together with the manager: a standby that loaded the CA before a rotation uses the old one until its first pass |
| `PlacementOutdated` | `OutdatedAgentWaits` | `pods.go`:681: only "an agent pod that never became ready" is replaced at once. The code looks at the pod's present readiness: one whose container restarts is replaced while the process runs and the status records work |
| `PlacementUnattached` | `NothingRunsInIt` | `pods.go`:359: "a game pod goes only once nothing runs in it". An agent that was just started says `offline` until the shim attaches, and is ready before |
| `ConsoleSelect` | `AlwaysReleased` | `wsproxy.go`:322: `askForToken` "reports whether the browser is still there". With the timer fired and `clientDone` closed Go's select takes either, and the session stays at its agent although the browser has left |
| `TransferReused` | `StaleEnded` | `serversync.go`:566 says of a mark that is a day old: "its push ended without a report". A retried push reuses the server of an earlier attempt with its old mark, and Resync removes the server by the age of that mark while the push is received (without `Timely`) |
| `TransferOverlap` | `MovedKept` | the failure of a first push removes the server a second one was moved with (with `Overlap`) |
| `VolumeAgain` | `SnapshotOfThis` | ARCHITECTURE.md:1597: `SnapshotThenDelete` "takes `gs-<uuid>-final` before deleting the volume". A server deleted, adopted again and deleted a second time finds the snapshot of its first life ready and is deleted without one of its own |
| `VolumePodStarts` | `Released` | `finalize.go`: "Wait for the pods to go so the volume is released before the PVC is handled". A pod created after the pods were read is not waited for |
| `BackupsPodCache` | `EntriesKept` | `store.go`:254: concurrent writers "never drop or bring back each other's entries" (ARCHITECTURE.md:1350 as well). The write is conditional on the GameServer's version only: a writer whose pod cache still shows the earlier agent instance takes the entries of the running one for ended |

Two more gaps of `Backups` meet a sentence of the repository, and are named in the
model rather than shown by a configuration. `panelapi.go`:527 says that an agent
which "cannot be reached, runs nothing"; when only its answer was lost it runs the
backup, and the record is dropped (`answer`). `remoteapi_test.go`:968 says "a
failed forward must keep the record"; a Panel that answers with a 5xx is a forward
that returned, and the record is cleared before the agent repeats the post
(`panel`).

The passing runs stay clear of these cases, and say so: `RunningStopped` is about
the process found at SIGTERM, `CrashCheckSparesStart` and `RestartKeepsRunning`
about runs in which no power call failed in transit, the `power` run assumes
`stops`, `install_supersede` has neither a game pod nor an agent restart, `certs`
has one operator replica, `transfer` has `Timely` and no `Overlap`, and these
properties except a history the module names: `JobTracked` and `OneInstallJob`
(`lost`), `CrashCheckSparesStart` (`masked`), `RunningKept` (`blind`),
`SessionReleased` and `SessionContinues` (`raced`), `FinalSnapshot` (`again`,
`late`), those of `ProcessState` and `Backups` (the gaps). That a stopped server loses its pod is
checked for a kill only (`KillTakesPod`).

## 5. Proofs

`tlapm` checks every leaf. Assumptions are the `ASSUME`s of the component
modules only: the bounds are naturals, positive where the code needs it, and a
marker of absence is none of the objects it stands in for.

**`InstallProofs`** - `TypeCorrect`, `JobAlwaysTracked`, `NeverTwoInstallJobs`,
`LiveJobReadsLoseNone`, `NewerReportNeverDropped`. `JobTracked` is not inductive: a reconcile in progress
holds a status it will write later. `JobInv` adds that only the operator writes
the requested and the finished generation, so what it read is still there when
it patches (`OpView`); that until it asks again it can only forget a request
(`OpForgets`), which it does after deleting the Job; that what it will write
tracks the Job as well (`OpTracksJob`); that a Job was prepared (`JobPrepared`);
and that the gateway never prepares a generation from the future
(`PreparedSeen`). All of it is about a Job that is `Held`, unfinished and not
`lost`. The Job cache may say anything: a Job is created only where there is none
and deleted by name, so the one step at which a lagging read loses a Job is the one
that finishes its generation. `OneInstallJob` follows, since two
unfinished Jobs would both be the requested generation; without the lagging cache
(`~StaleJobs`) none is lost, and a finished generation's Job is over. `RunInv` shows that whoever holds the lock is the
last run accepted, and that no run is accepted while a mark is set.

**`ShimListenerProofs`** - `NeverAnOlderConnection`, `PendingAlwaysBounded`,
`ListenerTypesHold`. `OrderInv` numbers connections as they become current: all
but the last are marked. `HandInv` says that what passed the check of the mark is
newer than what the environment used last, which is the point of marking before
offering. `QueueInv`: the channel holds each connection once.

**`ShimProofs`** - `NeverTwoGames`, `ExitsAreOwn`, `ShimTypesHold`. The core is
`OverInv`: every start before the last is over (nothing of it alive, its
`waitLoop` past clearing the pid), and the last one too while no pid is recorded
and none is about to be. `KillInv` and `HandlerInv` say what the place of
`waitLoop` and of the handler imply; `ExitInv` that the channel holds at most the
exit of the supervised process.

**`ProcessStateProofs`** - `Refines`: the replicas implement `ProcessRegister`,
initial states to initial states and every step to a step or a stutter; `OwedPoll`;
`Types`. That a recorded answer is not older than what it replaces needs `RInv`:
an answer at hand whose write would be applied is at least as new as what is
recorded (`AnswersNewer`), because the poll came after the read and any newer
record would have moved the version on; for this what was read is never ahead of
the GameServer (`SeenPast`), and a repoll writes only answers (`Past`). `OInv`
adds the lock with its one holder and the table of repolls (`OneHolder`,
`Registered`), so that a post which found a repoll registered can rely on it
until it has written (`PostIsOwedPoll`).

**`BackupsProofs`** - `RecordHolds`, `Forwarded`, `Types`. `RunningRecorded` is
not inductive, since a request is recorded before the agent has it: `Held` says
the same of a request on its way to the instance it was recorded for. It is kept
because a cache that is up to date shows what is recorded (`CacheTrue`), a write
is applied at such a cache only, and it then leaves out no entry of the instance
it takes for the running one but its own backup's (`UpdateKeeps`); and because a
handler that has not returned has a replica (`Homes`). `Forwarded` follows: a
call that is refused finds no entry of this instance in the replica's cache, so
either the cache is behind or nothing is recorded.

**`CertsProofs`** - `EveryPeerTrusts`, for `~StaleStandby` and
`MaxErrors + 4 <= Overlap`. The invariant has two halves. Every
signer and bundle that is about is safe in the present stage (`SafeInv`: before
the promotion everything is signed by the CA that all bundles have, after it all
bundles have both). And the stage ends only when each is also safe in the next:
a reconcile that read before the stage began is over two ticks later (`RecInv`),
from then on every pass writes the Secrets that need it, unless a write fails
(`LeafInv`, `Pending`), and what is written is in use two ticks later (`UseInv`,
`ProcInv`); hence `MaxErrors + 4`. `StageInv`, `EmptyInv` and `LeaderInv` say what
the CA Secret and the Issuer of the leader hold. The proof uses the overlap only,
and never what `allCarry` and `allSignedBy` found.

**`VolumeProofs`** - `VolumeGoesByPolicy`, `DeletedWithSnapshot`,
`UpgradeKeepsPower`, `NothingLeftBehind`, `NewestSnapshotKept`. `StepInv`: a
reconcile that finalizes has a deleted server with the finalizer and decides by
the class's policy, a transfer's copy by `Delete`. `ObjectInv` and `PodInv`: when
the finalizer handles the volume, what the operator created is gone, and so are
the pods unless one started behind its back. `SnapInv`: the final snapshot, of a
server that found none at its creation, is of its own volume, and nothing was
written since it was taken. `WipeInv`: the agent wipes only where the policy
deletes. `LegacyInv`: a 1.x server has its StatefulSet or its pod, and a migration
keeps to what the Panel showed or asked for; between the read and the conditional
patch, a patch that can still be applied records what was shown.

**Only model-checked**: liveness and anything under fairness (TLAPS 1.4.5 does
not reason about `ENABLED`), `RunningStopped`, and all of `Power`,
`Placement`, `Console` and `Transfer`.

## 6. What could come next

- `ShimEnv`: the environment's `Start`, `Stop`, `WaitForStop`, `Terminate`,
  `onConnected` and `consume` at the grain of their locks, refining the single
  steps of `Power`, over the requests and replies of `protocol.Client`.
- The shared addresses, with the placement of several servers.
- A proof of `KillIsFinal` for every number of actions.

## 7. Not modelled

- Rendering of objects, settings, names, image lookup, HTTP and JSON encoding, JWT
  re-signing, cgroup sampling, volume preparation, process start-up, the fake Panel
  and generated API types: each is I/O or a stateless conversion. The models take
  from them only what a property tells apart, such as that a template changed.
- The console ring buffer and the SFTP relay: bytes behind one lock, with unit
  tests; no other part depends on what they keep.
- Shared addresses (`sharedip.go`): the node a group of servers gathers on depends
  on all their pods, and `Placement` has the pods of one.
- In `Power` and `Placement`: suspension, in-place resize and the relay of a
  container's termination.

------------------------------- MODULE Power -------------------------------
(***************************************************************************)
(* How a power action of the Panel reaches the game process and how the    *)
(* state of the process comes back: the gateway writes spec.power, the     *)
(* operator scales the game StatefulSet, deletes the game pod and calls    *)
(* the agent's power API, Wings in the agent runs the action under its     *)
(* power lock, and the gateway derives spec.power.desired from the state   *)
(* changes the agent posts (the intentional stop) and from a process that  *)
(* stays offline (the crash check).                                        *)
(*                                                                         *)
(* Left out here: suspension, restartRequest, the move of the agent to the *)
(* game pod's node, shared addresses and the change of the tls setting.    *)
(* Wings, the StatefulSet controller and the kubelet are external.         *)
(***************************************************************************)
EXTENDS Naturals, FiniteSets

CONSTANTS
  MaxGen,   \* bound on the power actions of the Panel
  MaxUpsets,  \* bound on what upsets a run; each of Upsets happens at most once
  Prompt    \* what happens in time, of Promptness

\* The process crashes; the game pod is evicted; the agent's container restarts; a power
\* call of the operator fails in transit; the game pod's template changes.
Upsets == {"crash", "evict", "agent", "call", "template"}

\* A posted state change is handled before the reconcile it falls into ends and before a
\* crash check; a process stops, and a restart that finds it without a connection is over,
\* within restartWindow; Wings starts the process within the crash check's settle time; no
\* stop command is typed while a power action is under way; the StatefulSet controller
\* scales down before the next reconcile.
Promptness == {"posts", "stops", "starts", "console", "scale"}

ASSUME PowerAssumption ==
  /\ MaxGen \in Nat /\ MaxUpsets \in Nat
  /\ Prompt \subseteq Promptness

\* Pod UIDs.  Only their equality matters, so one that nothing refers to is used again.
UIDs == 1..6
Actions == {"start", "stop", "restart", "kill"}
States == {"offline", "running", "stopping"}

VARIABLES
  spec,     \* spec.power and the template rendered from the spec
  status,   \* status.power, status.game, status.agent, status.process, templateHash
  settled,  \* process.since and lastAction.at are a settle time ago
  recent,   \* lastAction is a restart or stop of less than restartWindow ago
  sts,      \* the game StatefulSet
  pod,      \* the game pod
  game,     \* the game process runs
  shim,     \* UID of the pod whose shim is attached to the agent
  wings,    \* Wings in the agent, and whether a call met one that it had not finished
  posts,    \* steps of the gateway's handlers of a stopping -> offline post
  watch,    \* the pods the crash check saw driven
  op,       \* the operator's reconcile
  upsets,   \* what has upset the run
  ended,    \* the process ended, and not with its pod, since it was last asked for or started
  masked    \* settleProcess wrote offline over the recorded state of a process that runs

vars == <<spec, status, settled, recent, sts, pod, game, shim, wings, posts, watch, op,
          upsets, ended, masked>>

NoPod == [uid |-> 0, phase |-> "none", term |-> "no", tmpl |-> 0]
Live(p) == p.uid # 0 /\ p.term = "no"
NoWatch == [podUID |-> 0, agentID |-> 0]

Idle == [pc |-> "idle", spec |-> [gen |-> 0, desired |-> "Stopped", kill |-> FALSE, tmpl |-> 0],
         base |-> [obs |-> 0, last |-> "none", podUID |-> 0, agentID |-> 0, proc |-> "offline",
                   tmpl |-> 0],
         st |-> [obs |-> 0, last |-> "none", podUID |-> 0, agentID |-> 0, proc |-> "offline",
                 tmpl |-> 0],
         pod |-> NoPod, absent |-> FALSE, agentID |-> 0, state |-> "unknown",
         shim |-> 0, running |-> FALSE, outdated |-> FALSE, acted |-> FALSE]

Upset(kind) ==
  /\ kind \notin upsets /\ Cardinality(upsets) < MaxUpsets
  /\ upsets' = upsets \cup {kind}

\* A stopped server whose agent is up, reported it offline and is not driven yet.
Init ==
  /\ spec = Idle.spec
  /\ status = Idle.st
  /\ settled = FALSE /\ recent = FALSE
  /\ sts = [replicas |-> 0, tmpl |-> 0]
  /\ pod = NoPod /\ game = FALSE /\ shim = 0
  /\ wings = [up |-> TRUE, id |-> 1, state |-> "offline", act |-> "none", calls |-> {},
              queued |-> FALSE, posted |-> TRUE]
  /\ posts = {} /\ watch = NoWatch
  /\ op = Idle
  /\ upsets = {}
  /\ ended = FALSE
  /\ masked = FALSE

----------------------------------------------------------------------------
(* The gateway.                                                            *)

\* Syncer.Power: each action gets its own generation.
PanelPower(action) ==
  /\ spec.gen < MaxGen
  /\ spec' = [spec EXCEPT !.gen = @ + 1,
                          !.desired = IF action \in {"start", "restart"} THEN "Running" ELSE "Stopped",
                          !.kill = action = "kill"]
  /\ ended' = (ended /\ action \notin {"start", "restart"})
  /\ UNCHANGED <<status, settled, recent, sts, pod, game, shim, wings, posts, watch, op, upsets, masked>>

\* A sync that changes what the game pod is rendered from (image, limits, ports).
PanelUpdate ==
  /\ Upset("template")
  /\ spec' = [spec EXCEPT !.tmpl = @ + 1]
  /\ UNCHANGED <<status, settled, recent, sts, pod, game, shim, wings, posts, watch, op, ended, masked>>

\* recordState after a post: the state written is the one the agent reports on a fresh poll.
RecordState ==
  /\ wings.up /\ ~wings.posted
  /\ status' = [status EXCEPT !.proc = wings.state]
  /\ settled' = FALSE
  /\ wings' = [wings EXCEPT !.posted = TRUE]
  /\ masked' = FALSE
  /\ UNCHANGED <<spec, recent, sts, pod, game, shim, posts, watch, op, upsets, ended>>

\* containerStatus of a stopping -> offline post reads the pods once the state is recorded.
CheckTerminating ==
  /\ "posted" \in posts /\ wings.posted
  /\ posts' = (posts \ {"posted"}) \cup (IF pod.uid # 0 /\ pod.term # "no" THEN {} ELSE {"checked"})
  /\ UNCHANGED <<spec, status, settled, recent, sts, pod, game, shim, wings, watch, op, upsets, ended, masked>>

\* A mutant: a recent restart does not protect from the derived stop.
IntentionalStopAnyTime ==
  /\ spec.desired = "Running"
  /\ spec.gen = status.obs

\* Whether a stopping -> offline transition is what the Panel should see as desired.
IntentionalStop ==
  /\ spec.desired = "Running"
  /\ ~recent
  /\ spec.gen = status.obs

\* The conditional write of containerStatus.
DeriveStop ==
  /\ "checked" \in posts
  /\ posts' = posts \ {"checked"}
  /\ spec' = IF IntentionalStop THEN [spec EXCEPT !.desired = "Stopped", !.kill = FALSE] ELSE spec
  /\ UNCHANGED <<status, settled, recent, sts, pod, game, shim, wings, watch, op, upsets, ended, masked>>

\* The time from the operator's clock reading of a restart or stop passes restartWindow.
WindowPasses ==
  /\ recent
  /\ "stops" \in Prompt => /\ wings.state # "stopping"
                           /\ wings.act \notin {"stop", "restart"} /\ wings.calls = {} /\ posts = {}
                           /\ (wings.act = "again" => ~game)
  /\ recent' = FALSE
  /\ UNCHANGED <<spec, status, settled, sts, pod, game, shim, wings, posts, watch, op, upsets, ended, masked>>

\* Where posts are prompt, none is under way.
PostsHandled == "posts" \in Prompt => posts = {} /\ wings.posted

\* The settle time passes since process.since and lastAction.at.  A check of the crash
\* watch takes less.
SettlePasses ==
  /\ ~settled /\ status.proc = "offline" /\ watch = NoWatch
  /\ PostsHandled
  /\ "starts" \in Prompt => wings.act = "none" /\ wings.calls = {}
  /\ settled' = TRUE
  /\ UNCHANGED <<spec, status, recent, sts, pod, game, shim, wings, posts, watch, op, upsets, ended, masked>>

\* A mutant: the settle time is not waited for.
OfflineAtAll ==
  /\ spec.desired = "Running" /\ status.proc = "offline"
  /\ spec.gen = status.obs

\* A server that should run, whose process has been offline for the settle time and whose
\* last power request the operator has acted on for at least as long.
OfflineLongEnough ==
  /\ spec.desired = "Running" /\ status.proc = "offline" /\ settled
  /\ spec.gen = status.obs

\* Check of the crash watch: the server is a candidate and the operator drives its pods.
CrashCheck ==
  /\ watch = NoWatch /\ OfflineLongEnough /\ PostsHandled
  /\ Live(pod) /\ pod.uid = status.podUID
  /\ wings.up /\ wings.id = status.agentID
  /\ watch' = [podUID |-> status.podUID, agentID |-> status.agentID]
  /\ UNCHANGED <<spec, status, settled, recent, sts, pod, game, shim, wings, posts, op, upsets, ended, masked>>

\* Its conditional write, which checks the rule again.
CrashStop ==
  /\ watch # NoWatch
  /\ spec' = IF OfflineLongEnough /\ watch = [podUID |-> status.podUID, agentID |-> status.agentID]
             THEN [spec EXCEPT !.desired = "Stopped", !.kill = FALSE]
             ELSE spec
  /\ watch' = NoWatch
  /\ UNCHANGED <<status, settled, recent, sts, pod, game, shim, wings, posts, op, upsets, ended, masked>>

----------------------------------------------------------------------------
(* Wings and the shim-backed environment in the agent.                     *)

\* A state change is posted to the gateway.
SetState(w, to) == [w EXCEPT !.state = to, !.posted = (w.posted /\ w.state = to)]

\* The shim is connected and runs the process.
ShimRuns == shim # 0 /\ game

\* Stop of the environment, and Terminate for a kill: with no shim or no process the
\* state goes through stopping to offline at once.
Stops(w) ==
  IF ShimRuns
  THEN wings' = SetState(w, "stopping") /\ posts' = posts
  ELSE /\ wings' = SetState(w, "offline")
       /\ posts' = IF w.state = "offline" THEN posts ELSE posts \cup {"posted"}

\* HandlePowerAction of an accepted call.  A kill needs no power lock; any other action
\* waits for it and is refused when it does not get it in time, and a start of a process
\* that runs is refused.
WingsHandles(action) ==
  /\ wings.up /\ action \in wings.calls
  /\ LET w == [wings EXCEPT !.calls = @ \ {action}]
         refused == action # "kill" /\ (wings.act # "none" \/ (action = "start" /\ wings.state = "running"))
     IN IF refused THEN wings' = w /\ posts' = posts
        ELSE IF action = "start" THEN wings' = [w EXCEPT !.act = "start"] /\ posts' = posts
        ELSE Stops(IF action = "kill" THEN w ELSE [w EXCEPT !.act = action])
  /\ UNCHANGED <<spec, status, settled, recent, sts, pod, game, shim, watch, op, upsets, ended, masked>>

\* WaitForStop returns; a restart goes on to its start, still under the power lock.
WingsStopped ==
  /\ wings.up /\ wings.act \in {"stop", "restart"} /\ ~ShimRuns
  /\ wings' = [wings EXCEPT !.act = IF @ = "stop" THEN "none" ELSE "again"]
  /\ UNCHANGED <<spec, status, settled, recent, sts, pod, game, shim, posts, watch, op, upsets, ended, masked>>

\* Start of the environment: it gives up when no shim connects in time, takes a process
\* that already runs for started, and goes through stopping to offline when the shim
\* refuses because its container is being terminated.
WingsStarts ==
  /\ wings.up /\ wings.act \in {"start", "again"}
  /\ LET w == [wings EXCEPT !.act = "none"]
     IN \/ /\ shim = 0
           /\ wings' = w
           /\ UNCHANGED <<game, posts, ended>>
        \/ /\ shim # 0 /\ pod.term # "no" /\ ~game
           /\ wings' = SetState(w, "offline")
           /\ posts' = posts \cup {"posted"}
           /\ UNCHANGED <<game, ended>>
        \/ /\ shim # 0 /\ (pod.term = "no" \/ game)
           /\ game' = TRUE /\ ended' = FALSE
           /\ wings' = SetState(w, "running")
           /\ posts' = posts
  /\ UNCHANGED <<spec, status, settled, recent, sts, pod, shim, watch, op, upsets, masked>>

\* The stop command typed into the console.
ConsoleStop ==
  /\ wings.up /\ ShimRuns /\ wings.state = "running"
  /\ "console" \in Prompt => /\ wings.act = "none" /\ wings.calls = {}
                             /\ spec.gen = status.obs /\ op.pc = "idle"
  /\ wings' = SetState(wings, "stopping")
  /\ UNCHANGED <<spec, status, settled, recent, sts, pod, game, shim, posts, watch, op, upsets, ended, masked>>

\* The process ends because it was told to, by Wings or by the shim of a terminating pod,
\* which announces that first.
ProcessStops ==
  /\ game /\ (wings.state = "stopping" \/ pod.term # "no")
  /\ game' = FALSE /\ ended' = (ended \/ pod.term = "no")
  /\ IF shim # 0
     THEN /\ wings' = SetState(wings, "offline")
          /\ posts' = posts \cup {"posted"}
     ELSE UNCHANGED <<wings, posts>>
  /\ UNCHANGED <<spec, status, settled, recent, sts, pod, shim, watch, op, upsets, masked>>

\* The process ends by itself.  Wings' crash handling starts it again or leaves it
\* offline (handleServerCrash); without a connection nobody notices until the next one.
Crash ==
  /\ game /\ wings.state # "stopping" /\ Upset("crash")
  /\ game' = FALSE /\ ended' = TRUE
  /\ IF shim # 0
     THEN \E again \in {{}, {"start"}} :
            wings' = [SetState(wings, "offline") EXCEPT !.calls = @ \cup again]
     ELSE UNCHANGED wings
  /\ UNCHANGED <<spec, status, settled, recent, sts, pod, shim, posts, watch, op, masked>>

\* onConnected: the shim of the game pod connects to the agent.
ShimConnects ==
  /\ wings.up /\ pod.phase = "up" /\ shim # pod.uid
  /\ shim' = pod.uid
  /\ \/ /\ game /\ pod.term # "no"
        /\ wings' = SetState(wings, "stopping")
     \/ /\ game /\ pod.term = "no" /\ wings.state = "offline"
        /\ wings' = SetState(wings, "running")
     \/ /\ ~game /\ wings.state = "running"
        /\ \E again \in {{}, {"start"}} :
             wings' = [SetState(wings, "offline") EXCEPT !.calls = @ \cup again]
     \/ /\ ~(game /\ (pod.term # "no" \/ wings.state = "offline")) /\ ~(~game /\ wings.state = "running")
        /\ wings' = wings
  /\ UNCHANGED <<spec, status, settled, recent, sts, pod, game, posts, watch, op, upsets, ended, masked>>

\* The agent's container restarts: Wings loses its calls, its lock and its state.
AgentRestarts ==
  /\ wings.up /\ Upset("agent")
  /\ wings' = [up |-> FALSE, id |-> wings.id + 1, state |-> "offline", act |-> "none",
               calls |-> {}, queued |-> wings.queued, posted |-> TRUE]
  /\ shim' = 0
  /\ UNCHANGED <<spec, status, settled, recent, sts, pod, game, posts, watch, op, ended, masked>>

\* The new container is ready, which takes longer than a check of the crash watch.
AgentReady ==
  /\ ~wings.up /\ watch = NoWatch
  /\ wings' = [wings EXCEPT !.up = TRUE]
  /\ UNCHANGED <<spec, status, settled, recent, sts, pod, game, shim, posts, watch, op, upsets, ended, masked>>

----------------------------------------------------------------------------
(* The StatefulSet controller and the kubelet.                             *)

\* UIDs something still refers to.
Referred == {status.podUID, op.st.podUID, op.base.podUID, op.pod.uid, op.shim, shim, watch.podUID}

PodCreated ==
  /\ sts.replicas = 1 /\ pod.uid = 0
  /\ pod' = [uid |-> CHOOSE u \in UIDs : u \notin Referred, phase |-> "created", term |-> "no",
             tmpl |-> sts.tmpl]
  /\ UNCHANGED <<spec, status, settled, recent, sts, game, shim, wings, posts, watch, op, upsets, ended, masked>>

\* Scaled down, the pod goes with its whole grace period.
PodScaledDown ==
  /\ sts.replicas = 0 /\ Live(pod)
  /\ pod' = [pod EXCEPT !.term = "grace"]
  /\ UNCHANGED <<spec, status, settled, recent, sts, game, shim, wings, posts, watch, op, upsets, ended, masked>>

\* The game container starts, which takes longer than a check of the crash watch.
ContainerStarts ==
  /\ Live(pod) /\ pod.phase = "created" /\ watch = NoWatch
  /\ pod' = [pod EXCEPT !.phase = "up"]
  /\ UNCHANGED <<spec, status, settled, recent, sts, game, shim, wings, posts, watch, op, upsets, ended, masked>>

\* A drain of the node, or a deletion by hand.
PodEvicted ==
  /\ Live(pod) /\ Upset("evict")
  /\ pod' = [pod EXCEPT !.term = "grace"]
  /\ UNCHANGED <<spec, status, settled, recent, sts, game, shim, wings, posts, watch, op, ended, masked>>

\* The pod goes once its process ended; the short grace period of a kill ends the process
\* with the pod, and the connection with both.
PodGone ==
  /\ pod.uid # 0 /\ pod.term # "no"
  /\ pod.term = "grace" => ~game
  /\ pod' = NoPod /\ game' = FALSE /\ shim' = 0
  /\ UNCHANGED <<spec, status, settled, recent, sts, wings, posts, watch, op, upsets, ended, masked>>

----------------------------------------------------------------------------
(* The operator's reconcile.                                               *)

\* A mutant: the kill is left to Wings.
NoKillPending == FALSE

\* A kill the operator has not acted on yet.
KillPending == op.spec.desired = "Stopped" /\ op.spec.kill /\ op.spec.gen # op.st.obs

OperatorUnchanged ==
  UNCHANGED <<spec, settled, recent, game, shim, posts, watch, ended, masked>>

\* Reconcile reads the GameServer, past the cache.  The goroutine of a power call accepted
\* before runs by then, unless it waits for the power lock.
OpRead ==
  /\ op.pc = "idle" /\ (wings.act = "none" => wings.calls = {})
  /\ "scale" \in Prompt => ~(sts.replicas = 0 /\ Live(pod))
  /\ op' = [Idle EXCEPT !.pc = "pods", !.spec = spec, !.base = status, !.st = status]
  /\ OperatorUnchanged /\ UNCHANGED <<status, sts, pod, wings, upsets>>

\* loadPods, and whether the agent is ready.
OpPods ==
  /\ op.pc = "pods"
  /\ op' = [op EXCEPT !.pc = IF KillPending THEN "kill" ELSE "scale",
                      !.pod = pod, !.absent = pod.uid = 0,
                      !.agentID = IF wings.up THEN wings.id ELSE 0,
                      !.outdated = (pod.uid # 0 /\ pod.tmpl # op.st.tmpl)]
  /\ OperatorUnchanged /\ UNCHANGED <<status, sts, pod, wings, upsets>>

\* killGamePod: the StatefulSet goes to zero first, then the pod.
OpKillScale ==
  /\ op.pc = "kill"
  /\ sts' = [sts EXCEPT !.replicas = 0]
  /\ op' = [op EXCEPT !.pc = IF op.pod.uid = 0 THEN "scale" ELSE "killpod"]
  /\ OperatorUnchanged /\ UNCHANGED <<status, pod, wings, upsets>>

\* The delete names the pod, whichever UID it has by now.
OpKillPod ==
  /\ op.pc = "killpod"
  /\ pod' = IF pod.uid = 0 THEN pod ELSE [pod EXCEPT !.term = "kill"]
  /\ op' = [op EXCEPT !.pc = "scale", !.pod = NoPod, !.outdated = FALSE]
  /\ OperatorUnchanged /\ UNCHANGED <<status, sts, wings, upsets>>

\* Whether gameReplicas asks the agent for the state of the process.
ScaleAsks == op.spec.desired = "Stopped" /\ Live(op.pod) /\ ~KillPending /\ op.agentID # 0
             /\ op.pod.phase = "up"

\* A mutant: only a new agent makes the rule apply.
FreshAgentOnly == op.st.agentID # op.agentID

\* A mutant: the shim is waited for without a game pod as well.
FreshWaitsAlways == op.shim = 0 \/ op.shim # op.pod.uid

\* The fresh-pod rule applies, and its wait for the shim of the game pod.
FreshAgent == op.st.agentID # op.agentID
Fresh == FreshAgent \/ op.st.podUID # op.pod.uid
FreshWaits == op.pod.uid # 0 /\ (op.shim = 0 \/ op.shim # op.pod.uid)
FreshStarts == Fresh /\ op.pod.uid # 0 /\ ~op.running

\* The power generations are looked at.
ProcessAsks == op.agentID # 0 /\ ~(Fresh /\ (FreshWaits \/ FreshStarts)) /\ op.spec.gen # op.st.obs

Asks == \/ op.pc = "scale" /\ ScaleAsks
        \/ op.pc = "recreate" /\ op.agentID # 0
        \/ op.pc = "process" /\ ProcessAsks

\* settleProcess: a server without a game pod is offline.
Settled == IF op.absent THEN [op.st EXCEPT !.proc = "offline"] ELSE op.st

\* The fresh-pod rule records the pods.
Recorded == IF Fresh THEN [Settled EXCEPT !.agentID = op.agentID, !.podUID = op.pod.uid] ELSE Settled

\* serverState: asked once per reconcile; without an answer the reconcile fails with the
\* status it had reached.
OpAsks ==
  /\ Asks /\ op.state = "unknown"
  /\ op' = IF wings.up THEN [op EXCEPT !.state = wings.state]
           ELSE [op EXCEPT !.pc = "patch", !.st = IF op.pc = "process" THEN Recorded ELSE @]
  /\ OperatorUnchanged /\ UNCHANGED <<status, sts, pod, wings, upsets>>

\* 1 while the server should run, and after that until its process is offline.
GameReplicas ==
  IF op.spec.desired = "Running" THEN 1
  ELSE IF ~Live(op.pod) \/ KillPending THEN 0
  ELSE IF op.agentID = 0 THEN 1
  ELSE IF op.pod.phase # "up" THEN 0
  ELSE IF op.state # "offline" THEN 1 ELSE 0

\* ensureGameStatefulSet.
OpScale ==
  /\ op.pc = "scale" /\ (ScaleAsks => op.state # "unknown")
  /\ sts' = [replicas |-> GameReplicas, tmpl |-> op.spec.tmpl]
  /\ op' = [op EXCEPT !.pc = "shim", !.st.tmpl = op.spec.tmpl]
  /\ OperatorUnchanged /\ UNCHANGED <<status, pod, wings, upsets>>

\* reconcileGamePod asks the agent for its shim; then a pending recreate is next.
OpShim ==
  /\ op.pc = "shim"
  /\ LET asks == Live(op.pod) /\ op.pod.phase = "up" /\ op.agentID # 0
     IN op' = IF asks /\ ~wings.up THEN [op EXCEPT !.pc = "patch"]
              ELSE [op EXCEPT !.pc = IF op.outdated THEN "recreate" ELSE "process",
                              !.shim = IF asks THEN shim ELSE 0,
                              !.running = (asks /\ ShimRuns)]
  /\ OperatorUnchanged /\ UNCHANGED <<status, sts, pod, wings, upsets>>

\* recreate of an outdated game pod, once the process is offline or never started.
OpRecreate ==
  /\ op.pc = "recreate" /\ (op.agentID # 0 => op.state # "unknown")
  /\ LET now == Live(op.pod) /\ (op.state = "offline" \/ op.pod.phase # "up")
     IN /\ pod' = IF now /\ Live(pod) THEN [pod EXCEPT !.term = "grace"] ELSE pod
        /\ op' = [op EXCEPT !.pc = "process", !.pod = IF now THEN NoPod ELSE @]
  /\ OperatorUnchanged /\ UNCHANGED <<status, sts, wings, upsets>>

\* The reconcile goes on to its status patch with a status.
Done(st) ==
  /\ op' = [op EXCEPT !.pc = "patch", !.st = st]
  /\ UNCHANGED <<wings, upsets>>

\* power: the agent accepts the call (202) and Wings runs it later.  A call that fails ends
\* the reconcile with the status it had reached; a lost answer is a failure as well.
PowerCall(action, failed, done) ==
  LET called == [wings EXCEPT !.calls = @ \cup {action},
                              !.queued = IF wings.act = "none" /\ wings.calls = {} THEN @ ELSE TRUE]
  IN \/ /\ wings.up
        /\ wings' = called
        /\ op' = [op EXCEPT !.pc = "patch", !.st = [done EXCEPT !.last = action], !.acted = TRUE]
        /\ UNCHANGED upsets
     \/ ~wings.up /\ Done(failed)
     \/ /\ wings.up /\ Upset("call")
        /\ wings' \in {wings, called}
        /\ op' = [op EXCEPT !.pc = "patch", !.st = failed]

\* The generation is observed.
Observed == [Recorded EXCEPT !.obs = op.spec.gen]

\* reconcileProcess without an agent, or a fresh pod whose shim is not attached yet.
OpWaits ==
  /\ op.pc = "process" /\ (op.agentID = 0 \/ (Fresh /\ FreshWaits))
  /\ Done(Settled)
  /\ OperatorUnchanged /\ UNCHANGED <<status, sts, pod>>

\* The fresh-pod rule: a pod or an agent the operator has not driven yet, whose shim runs
\* no process, gets the desired state.
OpFresh ==
  /\ op.pc = "process" /\ op.agentID # 0 /\ FreshStarts /\ ~FreshWaits
  /\ IF op.spec.desired = "Running" /\ ~op.outdated
     THEN PowerCall("start", Recorded, Observed)
     ELSE Done(Observed)
  /\ OperatorUnchanged /\ UNCHANGED <<status, sts, pod>>

\* The power generations.
OpPower ==
  /\ op.pc = "process" /\ op.agentID # 0 /\ ~(Fresh /\ (FreshWaits \/ FreshStarts))
  /\ ProcessAsks => op.state # "unknown"
  /\ LET up == op.state # "offline"
     IN IF op.spec.gen = op.st.obs THEN Done(Recorded)
        ELSE IF op.spec.desired = "Running"
        THEN IF ~Live(op.pod) THEN Done(Recorded)
             ELSE IF op.outdated
             THEN IF up THEN PowerCall("stop", Recorded, Recorded) ELSE Done(Recorded)
             ELSE PowerCall(IF up THEN "restart" ELSE "start", Recorded, Observed)
        ELSE IF up THEN PowerCall(IF op.spec.kill THEN "kill" ELSE "stop", Recorded, Observed)
             ELSE Done(Observed)
  /\ OperatorUnchanged /\ UNCHANGED <<status, sts, pod>>

\* updateStatus: a merge patch of the fields the reconcile changed, also after an error.
OpPatch ==
  /\ op.pc = "patch"
  /\ PostsHandled
  /\ status' = [f \in DOMAIN status |-> IF op.st[f] # op.base[f] THEN op.st[f] ELSE status[f]]
  /\ settled' = (settled /\ ~op.acted /\ op.st.proc = op.base.proc)
  /\ recent' = IF op.acted THEN op.st.last \in {"restart", "stop"} ELSE recent
  /\ masked' = (masked \/ (op.st.proc # op.base.proc /\ game))
  /\ op' = Idle
  /\ UNCHANGED <<spec, sts, pod, game, shim, wings, posts, watch, upsets, ended>>

----------------------------------------------------------------------------

Operator == \/ OpRead \/ OpPods \/ OpKillScale \/ OpKillPod \/ OpAsks \/ OpScale \/ OpShim
            \/ OpRecreate \/ OpWaits \/ OpFresh \/ OpPower \/ OpPatch

Kubernetes == PodCreated \/ PodScaledDown \/ ContainerStarts \/ PodGone

Next ==
  \/ \E action \in Actions : PanelPower(action) \/ WingsHandles(action)
  \/ PanelUpdate \/ RecordState \/ CheckTerminating \/ DeriveStop \/ WindowPasses
  \/ SettlePasses \/ CrashCheck \/ CrashStop
  \/ WingsStopped \/ WingsStarts \/ ConsoleStop \/ ProcessStops \/ Crash
  \/ ShimConnects \/ AgentRestarts \/ AgentReady
  \/ Kubernetes \/ PodEvicted
  \/ Operator

Spec == Init /\ [][Next]_vars

\* Every component goes on; the Panel, the console, crashes and evictions need not happen.
Fairness ==
  /\ WF_vars(Operator) /\ WF_vars(Kubernetes)
  /\ WF_vars(\E action \in Actions : WingsHandles(action))
  /\ WF_vars(WingsStopped \/ WingsStarts) /\ WF_vars(ProcessStops)
  /\ WF_vars(ShimConnects) /\ WF_vars(AgentReady)
  /\ WF_vars(RecordState) /\ WF_vars(CheckTerminating \/ DeriveStop)
  /\ WF_vars(WindowPasses) /\ WF_vars(SettlePasses)
  /\ WF_vars(CrashCheck) /\ WF_vars(CrashStop)

FairSpec == Spec /\ Fairness

----------------------------------------------------------------------------

PodStates == [uid : {0} \cup UIDs, phase : {"none", "created", "up"},
              term : {"no", "grace", "kill"}, tmpl : 0..1]
SpecStates == [gen : 0..MaxGen, desired : {"Running", "Stopped"}, kill : BOOLEAN,
               tmpl : 0..1]
StatusStates == [obs : 0..MaxGen, last : Actions \cup {"none"}, podUID : {0} \cup UIDs,
                 agentID : 0..2, proc : States, tmpl : 0..1]

\* Every variable has its type.
TypeOK ==
  /\ spec \in SpecStates /\ status \in StatusStates
  /\ settled \in BOOLEAN /\ recent \in BOOLEAN
  /\ sts \in [replicas : 0..1, tmpl : 0..1]
  /\ pod \in PodStates /\ game \in BOOLEAN /\ shim \in {0} \cup UIDs
  /\ wings \in [up : BOOLEAN, id : 1..2, state : States,
                act : {"none", "start", "stop", "restart", "again"}, calls : SUBSET Actions,
                queued : BOOLEAN, posted : BOOLEAN]
  /\ posts \subseteq {"posted", "checked"}
  /\ watch \in [podUID : {0} \cup UIDs, agentID : 0..2]
  /\ op \in [pc : {"idle", "pods", "kill", "killpod", "scale", "shim", "recreate", "process",
                   "patch"},
             spec : SpecStates, base : StatusStates, st : StatusStates, pod : PodStates,
             absent : BOOLEAN, agentID : 0..2, state : States \cup {"unknown"},
             shim : {0} \cup UIDs, running : BOOLEAN, outdated : BOOLEAN, acted : BOOLEAN]
  /\ upsets \subseteq Upsets /\ Cardinality(upsets) <= MaxUpsets
  /\ ended \in BOOLEAN /\ masked \in BOOLEAN

\* A kill the operator has acted on leaves no process in a pod that stays, whatever Wings
\* starts meanwhile (killGamePod).
KillIsFinal ==
  (spec.desired = "Stopped" /\ spec.kill /\ status.obs = spec.gen)
    => ~(game /\ Live(pod) /\ sts.replicas = 1)

\* The gateway wrote Stopped by itself, for no action of the Panel.
StopDerived == spec.desired = "Running" /\ spec'.desired = "Stopped" /\ spec'.gen = spec.gen

\* No power call of the operator failed, or was made and not answered, or was made while
\* Wings had not finished one before: the power lock makes it wait or refuses it, and the
\* status records it all the same (HandlePowerAction).
CallsAnswered == "call" \notin upsets /\ ~wings.queued

\* The gateway never takes the stop half of a restart for a stop the user wants: while
\* Wings restarts the process, desired stays Running (intentionalStop, offlineLongEnough).
RestartKeepsRunning == [][StopDerived /\ CallsAnswered => wings.act \notin {"restart", "again"}]_vars

\* The crash check stops a server by itself.
StoppedByCheck == StopDerived /\ watch' # watch

\* The crash check stops only a server whose process ended without its pod since it was
\* last asked for: a start in progress and a process that went with its pod are spared,
\* unless a power call failed in transit or met another one in Wings, or the patch of a
\* reconcile that found no game pod hides a process started since (offlineLongEnough,
\* fresh-pod rule, power generations, settleProcess).
CrashCheckSparesStart == [][StoppedByCheck /\ CallsAnswered => ended \/ masked]_vars

\* What crashwatch.go:95 logs of every server the check stops: "process stayed offline
\* after a crash".
OnlyOfflineStopped == [][StoppedByCheck => ~game]_vars

\* The same whatever happens to the calls: a pod that replaces another is started while the
\* server should run, and the crash check does not give the start up (reconcileProcess).
FreshPodStarted == [][StoppedByCheck => ended]_vars

\* Every power action is observed in the end, whatever pods and agents are lost meanwhile:
\* the operator never waits for ever with a generation in hand (reconcileProcess).
GenerationsObserved == []<>(status.obs = spec.gen)

\* Once the Panel and the failures rest, a server that should run runs in a pod that
\* stays: what no start brings up the crash check settles as Stopped.
RunningSettles == <>[](spec.desired = "Running" => game /\ Live(pod))

\* A kill takes the game pod, however Wings' power lock and its starts interleave with it,
\* unless the server is to run again (killPendingGamePod).
KillTakesPod == spec.kill ~> (pod.uid = 0 \/ spec.desired = "Running")

\* Once the Panel and the failures rest, a stopped server has no game pod: desired matches
\* what the Panel shows once the process has settled (reconcileProcess, gameReplicas).
StoppedSettles == <>[](spec.desired = "Stopped" => pod.uid = 0)
=============================================================================

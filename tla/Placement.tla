----------------------------- MODULE Placement -----------------------------
(***************************************************************************)
(* Where the two pods of a server run.  The agent pod follows the game pod *)
(* (place, relocate), the game pod is bound to the agent's node while the  *)
(* agent has in-flight work (placeGame, agentWork), and both are replaced  *)
(* for a new template, a restart request, the other tls setting or a lost  *)
(* node (recreate, replaceForTransport, fence).  A reconcile reads the     *)
(* pods, asks the agent for its work and for its process, and acts on what *)
(* it was told: pods, work, process and nodes change between its steps,    *)
(* and a pod it deletes by name may be a later one.                        *)
(*                                                                         *)
(* StatefulSet controller, scheduler, kubelet and nodes are external.  The *)
(* volume can be attached to one node at a time, so a pod starts only once *)
(* no pod of the server holds it elsewhere.                                *)
(***************************************************************************)
EXTENDS Naturals, FiniteSets

CONSTANTS
  Nodes, None,
  MaxTrouble,     \* bound: changes from outside, of all kinds together
  MaxWork,        \* bound: pieces of in-flight work and restarts of the agent's container
  Troubles,       \* the kinds of change from outside that happen
  ForceDelete     \* the class's failover.forceDeleteAfter is set

Kinds == {"power", "kill", "class", "restart", "tls", "full", "lost", "error"}

ASSUME PlacementAssumption ==
  /\ None \notin Nodes /\ MaxTrouble \in Nat /\ MaxWork \in Nat /\ Troubles \subseteq Kinds
  /\ ForceDelete \in BOOLEAN

VARIABLES
  want,      \* spec.power.desired is running
  class,     \* version of the class the templates are rendered from
  tls,       \* the operator's tls setting
  restart,   \* a restart request is not acknowledged
  kill,      \* nor is a kill
  agentSet,  \* template of the agent StatefulSet
  gameSet,   \* template and replicas of the game StatefulSet
  agent,     \* the agent pod
  game,      \* the game pod
  work,      \* in-flight work: "none", one only the agent knows, one in the status
  proc,      \* the process runs
  full,      \* nodes without room for a game pod
  lost,      \* nodes that are NotReady
  rec,       \* the reconcile
  trouble, works   \* what the bounds leave

outside == <<want, class, tls, full, lost>>
asked == <<restart, kill>>
sets == <<agentSet, gameSet>>
vars == <<outside, asked, sets, agent, game, work, proc, rec, trouble, works>>

\* busy, ran, blind (history): the work asked for is in flight since, the process
\* runs since the pods were read, the agent that was asked for it did not know.
Idle == [at |-> "idle", want |-> FALSE, class |-> 0, applied |-> 0, restart |-> FALSE,
         kill |-> FALSE, ack |-> FALSE, agent |-> None, game |-> None, usable |-> FALSE,
         work |-> FALSE, state |-> "unasked", busy |-> FALSE, ran |-> FALSE, blind |-> FALSE]

NewAgent == [node |-> None, pin |-> agentSet.pin, ver |-> agentSet.ver, tls |-> agentSet.tls,
             going |-> FALSE, aged |-> FALSE, ready |-> FALSE, ever |-> FALSE, on |-> FALSE]
NewGame == [node |-> None, req |-> gameSet.req, ver |-> gameSet.ver, tls |-> gameSet.tls,
            going |-> FALSE, aged |-> FALSE, started |-> FALSE]

Init ==
  /\ want \in BOOLEAN /\ class = 0 /\ tls = FALSE /\ restart = FALSE /\ kill = FALSE
  /\ agentSet = [pin |-> None, ver |-> 0, tls |-> FALSE]
  /\ gameSet = [req |-> FALSE, ver |-> 0, tls |-> FALSE, replicas |-> 0]
  /\ agent = None /\ game = None /\ work = "none" /\ proc = FALSE
  /\ full = {} /\ lost = {} /\ rec = Idle /\ trouble = MaxTrouble /\ works = MaxWork

Going(pod) == pod # None => pod.going
Here(pod) == pod # None /\ ~pod.going
Node(pod) == IF Here(pod) THEN pod.node ELSE None

\* deletePod: a pod without a node goes at once, another one terminates.
Deleted(pod) == IF pod = None \/ pod.node = None THEN None ELSE [pod EXCEPT !.going = TRUE]

DeleteAgent ==
  /\ agent' = Deleted(agent)
  /\ work' = "none"

----------------------------------------------------------------------------
(* The reconcile.                                                          *)

\* The GameServer and its class are read, then loadPods, killPendingGamePod, place
\* and ensureAgentStatefulSet.
ensureAgentStatefulSet(pod) == agentSet' = [pin |-> Node(pod), ver |-> class, tls |-> tls]

Load ==
  /\ rec.at = "idle"
  /\ LET seen == IF kill THEN None ELSE game IN
     /\ rec' = [Idle EXCEPT !.at = "ask", !.want = want, !.class = class, !.applied = gameSet.ver,
                           !.restart = restart, !.kill = kill, !.agent = agent, !.game = seen,
                           !.ran = (proc /\ Here(game))]
     /\ ensureAgentStatefulSet(seen)
  /\ gameSet' = IF kill THEN [gameSet EXCEPT !.replicas = 0] ELSE gameSet
  /\ game' = IF kill THEN Deleted(game) ELSE game
  /\ UNCHANGED <<outside, asked, agent, work, proc, trouble, works>>

\* agentReady: of a pod that is not being deleted.
agentReady(pod) == Here(pod) /\ pod.ready

transportChanged == Here(rec.agent) /\ rec.agent.tls # tls

\* fence: where the class says so, a pod that has been terminating on a lost node
\* for long enough goes.
Fenced(seen) == ForceDelete /\ seen # None /\ seen.going /\ seen.aged /\ seen.node \in lost

\* agentWork: what the status records, and what the agent is asked for.
agentWork(pod, usable) ==
  Here(pod) /\ pod.node # None /\ (work = "recorded" \/ (usable /\ work # "none"))

\* reconcileAgentPod and placeGame.  An agent that cannot be asked counts as
\* one with work.
Ask ==
  /\ rec.at = "ask"
  /\ LET usable == agentReady(rec.agent) /\ ~transportChanged IN
     \E fails \in IF usable /\ trouble > 0 /\ "error" \in Troubles THEN BOOLEAN ELSE {FALSE} :
       /\ rec' = [rec EXCEPT !.at = "scale", !.usable = usable,
                             !.work = (fails \/ agentWork(rec.agent, usable)), !.busy = (work # "none")]
       /\ trouble' = IF fails THEN trouble - 1 ELSE trouble
  /\ IF Fenced(rec.agent) THEN agent' = None /\ work' = "none" ELSE UNCHANGED <<agent, work>>
  /\ UNCHANGED <<outside, asked, sets, game, proc, works>>

\* The end of a reconcile writes the status, after an error too.
EndReconcile == rec' = Idle /\ restart' = (restart /\ ~rec.ack)

differs(pod, ver) == pod # None /\ pod.ver # ver

\* serverState: gameReplicas and recreate ask the agent, once in a reconcile.
asksState ==
  /\ rec.usable /\ rec.state = "unasked"
  /\ \/ rec.at = "scale" /\ ~rec.want /\ Here(rec.game) /\ rec.game.started /\ ~rec.kill
     \/ rec.at = "recreate" /\ (rec.restart \/ differs(rec.agent, rec.class) \/ differs(rec.game, rec.applied))

\* An agent says "offline" until the shim of the game pod has attached to it; one
\* that went or restarts does not answer, which ends the reconcile.
serverState ==
  /\ asksState
  /\ IF agentReady(agent)
       THEN /\ rec' = [rec EXCEPT !.state = IF agent.on THEN "running" ELSE "offline",
                                  !.blind = (proc /\ ~agent.on)]
            /\ UNCHANGED asked
       ELSE EndReconcile /\ UNCHANGED kill
  /\ UNCHANGED <<outside, sets, agent, game, work, proc, trouble, works>>

\* Mutant: a game pod whose process cannot be asked for is scaled away.
ReplicasUnasked ==
  IF rec.want \/ (rec.usable /\ Here(rec.game) /\ rec.game.started /\ rec.state # "offline")
  THEN 1 ELSE 0

gameReplicas ==
  IF \/ rec.want
     \/ /\ Here(rec.game) /\ ~rec.kill /\ ~transportChanged
        /\ ~rec.usable \/ (rec.game.started /\ rec.state # "offline")
  THEN 1 ELSE 0

applyStatefulSet(replicas) ==
  gameSet' = [req |-> rec.work, ver |-> rec.class, tls |-> tls, replicas |-> replicas]

\* reconcileGamePod, as far as it changes a pod: fence.
reconcileGamePod ==
  IF Fenced(rec.game) THEN game' = None /\ proc' = FALSE ELSE UNCHANGED <<game, proc>>

\* ensureGameStatefulSet and reconcileGamePod.
Scale ==
  /\ rec.at = "scale" /\ ~asksState
  /\ applyStatefulSet(gameReplicas)
  /\ rec' = [rec EXCEPT !.at = IF transportChanged THEN "transport" ELSE "recreate", !.want = FALSE]
  /\ reconcileGamePod
  /\ UNCHANGED <<outside, asked, agentSet, agent, work, trouble, works>>

\* replaceForTransport: the game pod first, the agent pod once it is gone.
ReplaceForTransport ==
  /\ rec.at = "transport"
  /\ rec' = Idle
  /\ IF rec.game # None /\ rec.game.tls # tls
       THEN /\ game' = IF rec.game.going THEN game ELSE Deleted(game)
            /\ UNCHANGED <<agent, work>>
       ELSE DeleteAgent /\ UNCHANGED game
  /\ UNCHANGED <<outside, asked, sets, proc, trouble, works>>

offline == rec.state = "offline"

\* recreate: the game pod once the process is offline or if it never started.
takesGame ==
  /\ Here(rec.game) /\ (rec.restart \/ differs(rec.game, rec.applied))
  /\ offline \/ ~rec.game.started

\* Mutant: an outdated agent pod does not wait for in-flight work.
TakesIdle ==
  /\ Here(rec.agent) /\ (rec.restart \/ differs(rec.agent, rec.class))
  /\ \/ offline
     \/ ~agentReady(rec.agent) /\ ~rec.restart

\* recreate: the agent pod once the process is offline and the agent has no
\* work, or if it is not ready.
takesAgent ==
  /\ Here(rec.agent) /\ (rec.restart \/ differs(rec.agent, rec.class))
  /\ \/ offline /\ ~rec.work
     \/ ~agentReady(rec.agent) /\ ~rec.restart

Recreate ==
  /\ rec.at = "recreate" /\ ~asksState
  /\ rec' = [rec EXCEPT !.at = "relocate", !.game = IF takesGame THEN None ELSE @,
                        !.agent = IF takesAgent THEN None ELSE @,
                        !.ack = /\ rec.restart
                                /\ takesGame \/ Going(rec.game)
                                /\ takesAgent \/ Going(rec.agent)]
  /\ game' = IF takesGame THEN Deleted(game) ELSE game
  /\ IF takesAgent THEN DeleteAgent ELSE UNCHANGED <<agent, work>>
  /\ UNCHANGED <<outside, asked, sets, proc, trouble, works>>

\* relocate: a pending game pod that still requires the agent's node.
freesGame == Here(rec.game) /\ rec.game.node = None /\ rec.game.req /\ ~rec.work

\* Mutant: a pending agent pod is left to the node it was pinned to.
MovesRunning ==
  LET node == IF freesGame THEN None ELSE Node(rec.game) IN
  Here(rec.agent) /\ rec.agent.node # None /\ node \notin {None, rec.agent.node} /\ ~rec.work

\* relocate: a pending agent pod with another pin; a running one elsewhere,
\* without work.
movesAgent ==
  LET node == IF freesGame THEN None ELSE Node(rec.game) IN
  /\ Here(rec.agent)
  /\ IF rec.agent.node = None THEN rec.agent.pin # node
     ELSE node \notin {None, rec.agent.node} /\ ~rec.work

\* reconcileProcess follows, where an agent is left to be told, and observes a kill.
Relocate ==
  /\ rec.at = "relocate"
  /\ EndReconcile
  /\ kill' = (kill /\ ~(rec.kill /\ rec.usable /\ rec.agent # None /\ ~movesAgent))
  /\ game' = IF freesGame THEN Deleted(game) ELSE game
  /\ IF movesAgent THEN DeleteAgent ELSE UNCHANGED <<agent, work>>
  /\ UNCHANGED <<outside, sets, proc, trouble, works>>

Reconcile == Load \/ Ask \/ serverState \/ Scale \/ ReplaceForTransport \/ Recreate \/ Relocate

----------------------------------------------------------------------------
(* StatefulSets, scheduler, kubelet.                                       *)

CreateAgent ==
  /\ agent = None
  /\ agent' = NewAgent
  /\ UNCHANGED <<outside, asked, sets, game, work, proc, rec, trouble, works>>

CreateGame ==
  /\ game = None /\ gameSet.replicas = 1
  /\ game' = NewGame
  /\ UNCHANGED <<outside, asked, sets, agent, work, proc, rec, trouble, works>>

ScaleDown ==
  /\ Here(game) /\ gameSet.replicas = 0
  /\ game' = Deleted(game)
  /\ UNCHANGED <<outside, asked, sets, agent, work, proc, rec, trouble, works>>

BindAgent ==
  /\ Here(agent) /\ agent.node = None
  /\ \E n \in Nodes \ lost : (agent.pin \in {None, n}) /\ agent' = [agent EXCEPT !.node = n]
  /\ UNCHANGED <<outside, asked, sets, game, work, proc, rec, trouble, works>>

\* With a required affinity only next to an agent pod that has a node.
BindGame ==
  /\ Here(game) /\ game.node = None
  /\ \E n \in Nodes \ (lost \cup full) :
       /\ game.req => agent # None /\ agent.node = n
       /\ game' = [game EXCEPT !.node = n]
  /\ UNCHANGED <<outside, asked, sets, agent, work, proc, rec, trouble, works>>

StartAgent ==
  /\ Here(agent) /\ agent.node \in Nodes \ lost /\ ~agent.ready
  /\ (game # None /\ game.started) => game.node = agent.node
  /\ agent' = [agent EXCEPT !.ready = TRUE, !.ever = TRUE]
  /\ UNCHANGED <<outside, asked, sets, game, work, proc, rec, trouble, works>>

StartGame ==
  /\ Here(game) /\ game.node \in Nodes \ lost /\ ~game.started
  /\ (agent # None /\ agent.ready) => agent.node = game.node
  /\ game' = [game EXCEPT !.started = TRUE]
  /\ UNCHANGED <<outside, asked, sets, agent, work, proc, rec, trouble, works>>

\* What an agent that hears from the shim knows of the process.
Hears(on) == IF agent = None THEN None ELSE [agent EXCEPT !.on = on]

\* The shim attaches to an agent and tells it of the process.
AttachShim ==
  /\ Here(agent) /\ agent.ready /\ agent.on # proc
  /\ game # None /\ game.started /\ game.node \notin lost
  /\ agent' = Hears(proc)
  /\ UNCHANGED <<outside, asked, sets, game, work, proc, rec, trouble, works>>

AgentGone ==
  /\ agent # None /\ agent.going /\ agent.node \notin lost
  /\ agent' = None
  /\ UNCHANGED <<outside, asked, sets, game, work, proc, rec, trouble, works>>

\* The shim stops the process when its pod goes.
GameGone ==
  /\ game # None /\ game.going /\ game.node \notin lost
  /\ game' = None /\ proc' = FALSE /\ agent' = Hears(FALSE) /\ rec' = [rec EXCEPT !.ran = FALSE]
  /\ UNCHANGED <<outside, asked, sets, work, trouble, works>>

\* The control plane deletes the pods of a lost node.
Evict ==
  \/ /\ Here(agent) /\ agent.node \in lost
     /\ DeleteAgent
     /\ rec' = [rec EXCEPT !.busy = FALSE]
     /\ UNCHANGED <<outside, asked, sets, game, proc, trouble, works>>
  \/ /\ Here(game) /\ game.node \in lost
     /\ game' = Deleted(game)
     /\ UNCHANGED <<outside, asked, sets, agent, work, proc, rec, trouble, works>>

\* forceDeleteAfter passes since the deletion of a pod on a lost node.
Age ==
  /\ ForceDelete
  /\ \/ /\ agent # None /\ agent.going /\ ~agent.aged /\ agent.node \in lost
        /\ agent' = [agent EXCEPT !.aged = TRUE] /\ UNCHANGED game
     \/ /\ game # None /\ game.going /\ ~game.aged /\ game.node \in lost
        /\ game' = [game EXCEPT !.aged = TRUE] /\ UNCHANGED agent
  /\ UNCHANGED <<outside, asked, sets, work, proc, rec, trouble, works>>

----------------------------------------------------------------------------
(* Process and work.                                                       *)

StartProcess ==
  /\ want /\ ~restart /\ ~proc
  /\ Here(game) /\ game.started /\ Here(agent) /\ agent.ready /\ agent.node = game.node
  /\ ~agent.on
  /\ proc' = TRUE /\ agent' = Hears(TRUE)
  /\ UNCHANGED <<outside, asked, sets, game, work, rec, trouble, works>>

\* A stop, or the one of a restart; the process also ends by itself.
StopProcess ==
  /\ proc /\ (~want \/ restart) /\ game.node \notin lost
  /\ proc' = FALSE /\ agent' = Hears(FALSE) /\ rec' = [rec EXCEPT !.ran = FALSE]
  /\ UNCHANGED <<outside, asked, sets, game, work, trouble, works>>

BeginWork(k) ==
  /\ works > 0 /\ work = "none" /\ Here(agent) /\ agent.ready
  /\ work' = k /\ works' = works - 1
  /\ UNCHANGED <<outside, asked, sets, agent, game, proc, rec, trouble>>

EndWork ==
  /\ work # "none"
  /\ work' = "none" /\ rec' = [rec EXCEPT !.busy = FALSE]
  /\ UNCHANGED <<outside, asked, sets, agent, game, proc, trouble, works>>

----------------------------------------------------------------------------
(* Changes from outside.                                                   *)

Trouble(k) == k \in Troubles /\ trouble > 0 /\ trouble' = trouble - 1

Power ==
  /\ Trouble("power") /\ want' = ~want /\ kill' = FALSE
  /\ UNCHANGED <<class, tls, full, lost, restart, sets, agent, game, work, proc, rec, works>>

Kill ==
  /\ Trouble("kill") /\ want' = FALSE /\ kill' = TRUE
  /\ UNCHANGED <<class, tls, full, lost, restart, sets, agent, game, work, proc, rec, works>>

ChangeClass ==
  /\ Trouble("class") /\ class < 1 /\ class' = class + 1
  /\ UNCHANGED <<want, tls, full, lost, asked, sets, agent, game, work, proc, rec, works>>

RequestRestart ==
  /\ Trouble("restart") /\ ~restart /\ restart' = TRUE
  /\ UNCHANGED <<outside, kill, sets, agent, game, work, proc, rec, works>>

\* The operator comes up again with the other setting.
ChangeTLS ==
  /\ Trouble("tls") /\ tls' = ~tls /\ rec' = Idle
  /\ UNCHANGED <<want, class, full, lost, asked, sets, agent, game, work, proc, works>>

FillNode(n) ==
  /\ Trouble("full") /\ n \notin full /\ full' = full \cup {n}
  /\ UNCHANGED <<want, class, tls, lost, asked, sets, agent, game, work, proc, rec, works>>

FreeNode(n) ==
  /\ n \in full /\ full' = full \ {n}
  /\ UNCHANGED <<want, class, tls, lost, asked, sets, agent, game, work, proc, rec, trouble, works>>

\* The pods of a node that is NotReady are marked as not ready.
LoseNode(n) ==
  /\ Trouble("lost") /\ lost = {} /\ lost' = {n}
  /\ agent' = IF agent # None /\ agent.node = n THEN [agent EXCEPT !.ready = FALSE] ELSE agent
  /\ UNCHANGED <<want, class, tls, full, asked, sets, game, work, proc, rec, works>>

\* The agent container restarts; work only it knew is gone.
RestartAgent ==
  /\ works > 0 /\ works' = works - 1 /\ Here(agent) /\ agent.ready
  /\ agent' = [agent EXCEPT !.ready = FALSE, !.on = FALSE]
  /\ IF work = "asked" THEN work' = "none" /\ rec' = [rec EXCEPT !.busy = FALSE]
                       ELSE UNCHANGED <<work, rec>>
  /\ UNCHANGED <<outside, asked, sets, game, proc, trouble>>

\* A call fails and ends the reconcile.
Fail ==
  /\ Trouble("error") /\ rec.at # "idle" /\ EndReconcile
  /\ UNCHANGED <<outside, kill, sets, agent, game, work, proc, works>>

----------------------------------------------------------------------------
AgentPod == CreateAgent \/ BindAgent \/ StartAgent \/ AttachShim \/ AgentGone
GamePod == CreateGame \/ BindGame \/ StartGame \/ ScaleDown \/ GameGone
LostPods == Evict \/ Age
Process == StartProcess \/ StopProcess

Change ==
  \/ Power \/ Kill \/ ChangeClass \/ RequestRestart \/ ChangeTLS \/ RestartAgent \/ Fail
  \/ \E n \in Nodes : FillNode(n) \/ FreeNode(n) \/ LoseNode(n)

Next == Reconcile \/ AgentPod \/ GamePod \/ LostPods \/ Process \/ EndWork \/ Change \/ \E k \in {"asked", "recorded"} : BeginWork(k)

Spec == Init /\ [][Next]_vars

\* The operator reconciles again and again, the cluster does its part, work
\* ends and a full node gets room again.  A lost node may stay lost.
FairSpec ==
  /\ Spec
  /\ WF_vars(Reconcile) /\ WF_vars(EndWork) /\ WF_vars(\E n \in Nodes : FreeNode(n))
  /\ WF_vars(AgentPod) /\ WF_vars(GamePod) /\ WF_vars(LostPods) /\ WF_vars(Process)

----------------------------------------------------------------------------
Where == Nodes \cup {None}

TypeOK ==
  /\ agent # None => agent.node \in Where /\ agent.pin \in Where /\ agent.ver \in 0..1
  /\ game # None => game.node \in Where /\ game.ver \in 0..1
  /\ agentSet.pin \in Where /\ gameSet.replicas \in 0..1
  /\ work \in {"none", "asked", "recorded"} /\ (work # "none" => Here(agent))
  /\ proc => game # None
  /\ rec.state \in {"unasked", "running", "offline"}

Takes(pod, next) == Here(pod) /\ ~Here(next)

(***************************************************************************)
(* A reconcile never takes an agent pod that is ready and has in-flight    *)
(* work which was in flight when the reconcile asked for it, whatever the  *)
(* reason for the replacement (relocate, recreate); only the other tls     *)
(* setting does not wait, as the agent cannot be asked then.               *)
(***************************************************************************)
WorkKept ==
  [][ rec.at \in {"recreate", "relocate"} /\ rec'.at # rec.at /\ Takes(agent, agent') /\ rec.busy
        => ~rec.agent.ready ]_vars

GameTaken ==
  /\ rec.at \in {"scale", "recreate", "relocate"} /\ rec'.at # rec.at /\ Here(game)
  /\ Takes(game, game') \/ gameSet'.replicas < gameSet.replicas

(***************************************************************************)
(* A game pod goes only once nothing runs in it: neither a scale-down, nor *)
(* a recreate, nor a replaced affinity takes a game pod whose process runs *)
(* since before the reconcile read the pods, even when the agent could not *)
(* be asked.  Only the other tls setting does, a kill, and an agent that   *)
(* said "offline" before the shim had attached to it.                      *)
(***************************************************************************)
RunningKept == [][ GameTaken /\ rec.ran => transportChanged \/ rec.kill \/ rec.blind ]_vars

(***************************************************************************)
(* What gameReplicas says: "a game pod goes only once nothing runs in it"  *)
(* (pods.go:359), but for a kill and the other tls setting.                *)
(***************************************************************************)
NothingRunsInIt == [][ GameTaken /\ rec.ran => transportChanged \/ rec.kill ]_vars

(***************************************************************************)
(* A server that is to run ends up with its process running and its agent  *)
(* next to it, for good: the game pod does not wait for ever for a node    *)
(* the agent keeps, the agent follows, and the replacements come to an     *)
(* end.  Pods of a lost node are in the way for ever where the class does  *)
(* not force their deletion, and only there.                               *)
(***************************************************************************)
Together == proc /\ Here(game) /\ Here(agent) /\ agent.ready /\ agent.node = game.node
Stranded == ~ForceDelete /\ \E pod \in {agent, game} : pod # None /\ pod.node \in lost
Placed == <>[](want /\ ~restart /\ ~Stranded) => <>[]Together

(***************************************************************************)
(* The agent pod is replaced for a new template only when the process is   *)
(* offline and no work is in flight, unless it never became ready          *)
(* (ARCHITECTURE.md 7.6, recreate's comment).                              *)
(***************************************************************************)
OutdatedAgentWaits ==
  [][ rec.at = "recreate" /\ rec'.at # rec.at /\ Takes(agent, agent') /\ rec.agent.ever
        => ~rec.ran /\ ~rec.busy ]_vars
=============================================================================

------------------------------- MODULE Volume -------------------------------
(***************************************************************************)
(* The volume of a server in the operator: the reconcile of a server that  *)
(* lives (finalizer, upgrade from the 1.x layout, volume claim, workload,  *)
(* scheduled snapshots) and the finalizer of one that is deleted, which    *)
(* removes the workload, waits for its pods and then retains the volume,   *)
(* deletes it, or snapshots it first, by the policy of the server's class. *)
(*                                                                         *)
(* StatefulSet and Job controllers, kubelet, garbage collector, snapshot   *)
(* controller, agent and administrator are external.  Reconciles of one    *)
(* server do not overlap; one may end at any step, by an error or a crash. *)
(***************************************************************************)
EXTENDS Naturals, FiniteSets

CONSTANTS
  None,
  SnapshotRetain, \* scheduled snapshots that are kept
  MaxTrouble      \* bound: reconciles cut short, pods evicted, servers adopted again, class changes,
                  \* and scheduled snapshots that fall due

ASSUME VolumeAssumption ==
  SnapshotRetain \in Nat \ {0} /\ MaxTrouble \in Nat

\* No object is the absence of one.
ASSUME NoneAssumption ==
  /\ None \notin [copy : BOOLEAN, fin : BOOLEAN, deleting : BOOLEAN]
  /\ None \notin [uid : Nat, owned : BOOLEAN, holds : {"nothing", "files", "wiped"}]
  /\ None \notin [of : Nat, ready : BOOLEAN, current : BOOLEAN]

VARIABLES
  gs,      \* the GameServer
  policy,  \* the class's deletion policy; "missing" without a class
  objects, \* what the operator created for the server
  pods,    \* the server's pods
  legacy,  \* its game pod, if there is one, is of the 1.x layout
  power,   \* of a 1.x server: desired and shown to be running, and an action not acted on
  vol,     \* the volume claim and what is on the volume
  final,   \* the snapshot named <claim>-final
  sched,   \* scheduled snapshots, by number
  due,     \* by the status, a scheduled snapshot is due
  rec,     \* the reconcile
  late,    \* history: a pod the finalizer did not see wrote to the volume
  again,   \* history: the server was created when a final snapshot existed
  changed, \* history: the policy changed since the deletion, or the files were gone before it
  taken, vols, trouble

pvars == <<objects, pods, legacy, power>>
ghosts == <<late, again, changed>>
vars == <<gs, policy, pvars, vol, final, sched, due, rec, ghosts, taken, vols, trouble>>

Policies == {"Delete", "Retain", "SnapshotThenDelete", "missing"}
Workload == {"game", "agent"}
Owned == Workload \cup {"old", "net", "cert", "job"}

\* patch: the power patch to make, and whether the server has changed since it was
\* read; shown (history): what the Panel showed when the reconcile began, or asked
\* for since.
Resting == [at |-> "idle", policy |-> "Delete", seen |-> {}, patch |-> "none", shown |-> FALSE]
Migrated == [desired |-> FALSE, proc |-> FALSE, newer |-> FALSE]

Init ==
  /\ policy \in Policies \ {"missing"} /\ legacy \in BOOLEAN
  /\ gs \in [copy : IF legacy THEN {FALSE} ELSE BOOLEAN, fin : {legacy}, deleting : {FALSE}]
  /\ power \in IF legacy THEN [desired : BOOLEAN, proc : BOOLEAN, newer : {FALSE}] ELSE {Migrated}
  /\ objects = (IF legacy THEN {"old"} ELSE {}) /\ pods = [p \in Workload \cup {"job"} |-> IF legacy /\ p = "game" THEN "up" ELSE "none"]
  /\ vol = IF legacy THEN [uid |-> 1, owned |-> TRUE, holds |-> "files"] ELSE None
  /\ vols = IF legacy THEN 1 ELSE 0
  /\ final = None /\ sched = {} /\ due = FALSE /\ taken = 0 /\ rec = Resting
  /\ late = FALSE /\ again = FALSE /\ changed = FALSE
  /\ trouble = 0

At(step) == rec.at = step
Goto(step) == rec' = [rec EXCEPT !.at = step]
Stop == rec' = Resting
Trouble == trouble < MaxTrouble /\ trouble' = trouble + 1

\* A server is of the 1.x layout while its StatefulSet or its pod is there.
StaysLegacy ==
  /\ legacy' = (legacy /\ ("old" \in objects' \/ pods'["game"] # "none"))
  /\ power' = IF legacy' THEN power ELSE Migrated

----------------------------------------------------------------------------
(* A server that lives.                                                    *)

AddFinalizer ==
  /\ At("idle") /\ gs # None
  /\ ~gs.deleting /\ ~gs.fin
  /\ gs' = [gs EXCEPT !.fin = TRUE]
  /\ UNCHANGED <<policy, pvars, vol, final, sched, due, rec, ghosts, taken, vols, trouble>>

\* The 1.x StatefulSet, which has the name of the game's, or its pod is there.
LegacyLeft == "old" \in objects \/ (legacy /\ pods["game"] # "none")

\* What the Panel shows of a 1.x server, or asked for since.
Shown == IF power.newer THEN power.desired ELSE power.proc

\* Mutant: a power action that nobody acted on is overridden.
AdoptAnyway == [power EXCEPT !.desired = power.proc]

adoptLegacyPower == IF power.newer THEN power ELSE [power EXCEPT !.desired = power.proc]

migrateLegacy ==
  /\ At("idle") /\ gs # None
  /\ ~gs.deleting /\ gs.fin /\ policy # "missing" /\ LegacyLeft
  /\ LET live == legacy /\ pods["game"] = "up"
     IN rec' = [Resting EXCEPT !.at = "adopt", !.seen = IF live THEN {"game"} ELSE {}, !.shown = Shown,
                               !.patch = IF live /\ adoptLegacyPower # power THEN "due" ELSE "none"]
  /\ UNCHANGED <<gs, policy, pvars, vol, final, sched, due, ghosts, taken, vols, trouble>>

\* The patch is conditional on the version that was read.
PatchLegacyPower ==
  /\ At("adopt")
  /\ IF rec.patch = "stale" THEN Stop ELSE Goto("old")
  /\ power' = IF rec.patch = "due" THEN adoptLegacyPower ELSE power
  /\ UNCHANGED <<gs, policy, objects, pods, legacy, vol, final, sched, due, ghosts, taken, vols, trouble>>

\* Its pod is left to the caller.
deleteLegacyStatefulSet ==
  /\ At("old")
  /\ objects' = objects \ {"old"} /\ Goto("oldpod")
  /\ UNCHANGED pods /\ StaysLegacy
  /\ UNCHANGED <<gs, policy, vol, final, sched, due, ghosts, taken, vols, trouble>>

DeleteLegacyPod ==
  /\ At("oldpod")
  /\ pods' = IF rec.seen # {} /\ pods["game"] = "up" THEN [pods EXCEPT !["game"] = "going"] ELSE pods
  /\ Stop
  /\ UNCHANGED <<gs, policy, objects, legacy, power, vol, final, sched, due, ghosts, taken, vols, trouble>>

\* Without a class the reconcile ends here; one with nothing to do is left out.
Load ==
  /\ At("idle") /\ gs # None
  /\ ~gs.deleting /\ gs.fin /\ policy # "missing"
  /\ vol = None \/ ~(Workload \subseteq objects) \/ due
  /\ ~LegacyLeft
  /\ rec' = [Resting EXCEPT !.at = "claim", !.policy = policy]
  /\ UNCHANGED <<gs, policy, pvars, vol, final, sched, due, ghosts, taken, vols, trouble>>

\* A claim that is there stays as it is, a retained one included.
ensurePVC ==
  /\ At("claim")
  /\ IF vol = None
     THEN /\ vol' = [uid |-> vols + 1, owned |-> (rec.policy # "Retain"), holds |-> "nothing"]
          /\ vols' = vols + 1
     ELSE UNCHANGED <<vol, vols>>
  /\ rec' = [Resting EXCEPT !.at = "workload"]
  /\ UNCHANGED <<gs, policy, pvars, final, sched, due, ghosts, taken, trouble>>

\* With an install Job now and then.
EnsureWorkload ==
  /\ At("workload")
  /\ \E job \in {{}, {"job"}} : objects' = objects \cup Workload \cup {"net", "cert"} \cup job
  /\ Goto("snapshot")
  /\ UNCHANGED <<gs, policy, pods, legacy, power, vol, final, sched, due, ghosts, taken, vols, trouble>>

\* What pruneSnapshots leaves of the snapshots it lists: the newest.
pruneSnapshots(s) == {n \in s : Cardinality({m \in s : m > n}) < SnapshotRetain}

\* The list may not have the snapshot that was just created.
reconcileSnapshots ==
  /\ At("snapshot")
  /\ \/ ~due /\ UNCHANGED <<sched, taken>>
     \/ /\ due /\ taken' = taken + 1
        /\ \E listed \in {sched, sched \cup {taken'}} :
             sched' = (sched \cup {taken'}) \ (listed \ pruneSnapshots(listed))
  /\ Goto("status")
  /\ UNCHANGED <<gs, policy, pvars, vol, final, due, ghosts, vols, trouble>>

UpdateStatus ==
  /\ At("status")
  /\ due' = FALSE /\ Stop
  /\ UNCHANGED <<gs, policy, pvars, vol, final, sched, ghosts, taken, vols, trouble>>

\* An API error, a conflict or a crash: everything after the step is left out.
CutShort ==
  /\ ~At("idle") /\ Trouble
  /\ Stop
  /\ UNCHANGED <<gs, policy, pvars, vol, final, sched, due, ghosts, taken, vols>>

----------------------------------------------------------------------------
(* finalize.                                                               *)

DeletionPolicy == IF policy = "missing" \/ gs.copy THEN "Delete" ELSE policy

\* Wings removes the files of a server it is told to delete.
AgentDelete(to) ==
  IF to = "Delete" /\ ~gs.copy /\ pods["agent"] = "up" /\ vol # None
  THEN vol' \in {vol, [vol EXCEPT !.holds = "wiped"]} ELSE UNCHANGED vol

\* The policy, both pods, and the agent's call, which need not succeed.
FinalizeStart ==
  /\ At("idle") /\ gs # None
  /\ gs.deleting /\ gs.fin
  /\ rec' = [Resting EXCEPT !.at = "objects", !.policy = DeletionPolicy, !.seen = {p \in Workload : pods[p] # "none"}]
  /\ AgentDelete(DeletionPolicy)
  /\ UNCHANGED <<gs, policy, pvars, final, sched, due, ghosts, taken, vols, trouble>>

\* Mutant: a 1.x pod is left to a StatefulSet.
LeaveLegacy == UNCHANGED pods

\* A 1.x pod is deleted by itself.
DeleteLegacy ==
  IF legacy /\ "game" \in rec.seen /\ pods["game"] = "up"
  THEN pods' = [pods EXCEPT !["game"] = "going"] ELSE UNCHANGED pods

\* Mutant: the pods that were seen are not waited for.
NoWait == Goto("volume")

\* The next reconcile looks again.
WaitForPods == IF rec.seen # {} THEN Stop ELSE Goto("volume")

Removed == objects \ Owned

\* StatefulSets first, one after the other; a deletion may fail.
RemoveObjects ==
  /\ At("objects")
  /\ \/ /\ objects' = Removed /\ DeleteLegacy /\ WaitForPods
        /\ UNCHANGED trouble
     \/ /\ Trouble /\ Stop /\ UNCHANGED pods
        /\ \E gone \in {{"game", "old"}, Workload \cup {"old"}, Workload \cup {"old", "net"}} : objects' = objects \ gone
  /\ StaysLegacy
  /\ UNCHANGED <<gs, policy, vol, final, sched, due, ghosts, taken, vols>>

\* Mutant: a claim keeps its owner.
RetainOwned == vol

RetainPVC == [vol EXCEPT !.owned = FALSE]

snapshotBeforeDelete ==
  IF final = None
  THEN final' = [of |-> vol.uid, ready |-> FALSE, current |-> FALSE] /\ Stop /\ UNCHANGED vol
  ELSE /\ UNCHANGED final
       /\ IF final.ready THEN vol' = None /\ Goto("update") ELSE Stop /\ UNCHANGED vol

HandleVolume ==
  /\ At("volume")
  /\ \/ vol = None /\ Goto("update") /\ UNCHANGED <<vol, final>>
     \/ /\ vol # None /\ rec.policy = "Retain"
        /\ vol' = RetainPVC /\ Goto("update") /\ UNCHANGED final
     \/ vol # None /\ rec.policy = "SnapshotThenDelete" /\ snapshotBeforeDelete
     \/ /\ vol # None /\ rec.policy = "Delete"
        /\ vol' = None /\ Goto("update") /\ UNCHANGED final
  /\ UNCHANGED <<gs, policy, pvars, sched, due, ghosts, taken, vols, trouble>>

\* What the server owns is collected once it is gone.
RemoveFinalizer ==
  /\ At("update")
  /\ gs' = None /\ due' = FALSE /\ Stop
  /\ vol' = IF vol # None /\ vol.owned THEN None ELSE vol
  /\ UNCHANGED <<policy, pvars, final, sched, ghosts, taken, vols, trouble>>

----------------------------------------------------------------------------
(* The rest of the cluster.                                                *)

\* By the Panel or an administrator; without the finalizer the server is gone at once.
Delete ==
  /\ gs # None /\ ~gs.deleting
  /\ gs' = IF gs.fin THEN [gs EXCEPT !.deleting = TRUE] ELSE None
  /\ late' = (pods["job"] # "none") /\ changed' = (vol # None /\ vol.holds = "wiped")
  /\ UNCHANGED <<policy, pvars, vol, final, sched, due, rec, again, taken, vols, trouble>>

\* The Panel still has the server: Resync adopts it again.
Adopt ==
  /\ gs = None /\ Trouble
  /\ gs' = [copy |-> FALSE, fin |-> FALSE, deleting |-> FALSE]
  /\ again' = (final # None) /\ late' = FALSE
  /\ UNCHANGED <<policy, pvars, vol, final, sched, due, rec, changed, taken, vols>>

\* Controllers create the pods of what exists and take down those of what is gone.
PodStarts(p) ==
  /\ p \in objects \/ (p = "game" /\ "old" \in objects)
  /\ pods[p] = "none" /\ vol # None
  /\ pods' = [pods EXCEPT ![p] = "up"]
  /\ late' = (late \/ (gs # None /\ gs.deleting /\ (p = "job" \/ (At("objects") /\ rec.seen = {}))))
  /\ UNCHANGED <<gs, policy, objects, legacy, power, vol, final, sched, due, rec, again, changed, taken, vols, trouble>>

PodStops(p) ==
  /\ pods[p] = "up" /\ p \notin objects /\ ~(legacy /\ p = "game")
  /\ pods' = [pods EXCEPT ![p] = "going"]
  /\ UNCHANGED <<gs, policy, objects, legacy, power, vol, final, sched, due, rec, ghosts, taken, vols, trouble>>

PodGone(p) ==
  /\ pods[p] = "going"
  /\ pods' = [pods EXCEPT ![p] = "none"]
  /\ UNCHANGED objects /\ StaysLegacy
  /\ UNCHANGED <<gs, policy, vol, final, sched, due, rec, ghosts, taken, vols, trouble>>

Evict(p) ==
  /\ p \in Workload /\ pods[p] = "up" /\ Trouble
  /\ pods' = [pods EXCEPT ![p] = "none"]
  /\ UNCHANGED objects /\ StaysLegacy
  /\ UNCHANGED <<gs, policy, vol, final, sched, due, rec, ghosts, taken, vols>>

JobEnds ==
  /\ "job" \in objects /\ pods["job"] = "up"
  /\ objects' = objects \ {"job"} /\ pods' = [pods EXCEPT !["job"] = "none"]
  /\ UNCHANGED <<gs, policy, legacy, power, vol, final, sched, due, rec, ghosts, taken, vols, trouble>>

\* The Panel asks something of a 1.x server, or its process starts or ends.
LegacyChanges ==
  /\ legacy /\ gs # None
  /\ ~gs.deleting
  /\ LET patch == IF rec.patch = "none" THEN "none" ELSE "stale"
     IN \/ /\ power' \in [desired : BOOLEAN, proc : {power.proc}, newer : {TRUE}]
           /\ rec' = IF At("idle") THEN rec ELSE [rec EXCEPT !.shown = power'.desired, !.patch = patch]
        \/ /\ pods["game"] # "none" /\ power' = [power EXCEPT !.proc = ~@]
           /\ rec' = [rec EXCEPT !.patch = patch]
  /\ UNCHANGED <<gs, policy, objects, pods, legacy, vol, final, sched, due, ghosts, taken, vols, trouble>>

\* A pod writes until it is gone.
Write ==
  /\ vol # None /\ \E p \in DOMAIN pods : pods[p] # "none"
  /\ vol' = [vol EXCEPT !.holds = "files"]
  /\ final' = IF final # None /\ final.of = vol.uid THEN [final EXCEPT !.current = FALSE] ELSE final
  /\ UNCHANGED <<gs, policy, pvars, sched, due, rec, ghosts, taken, vols, trouble>>

SnapshotTaken ==
  /\ final # None /\ ~final.ready
  /\ final' = [final EXCEPT !.ready = TRUE, !.current = TRUE]
  /\ UNCHANGED <<gs, policy, pvars, vol, sched, due, rec, ghosts, taken, vols, trouble>>

FallsDue ==
  /\ ~due /\ gs # None
  /\ gs.fin /\ ~gs.deleting /\ Trouble
  /\ due' = TRUE
  /\ UNCHANGED <<gs, policy, pvars, vol, final, sched, rec, ghosts, taken, vols>>

ChangeClass ==
  /\ Trouble
  /\ policy' \in Policies \ {policy} /\ changed' = TRUE
  /\ UNCHANGED <<gs, pvars, vol, final, sched, due, rec, late, again, taken, vols>>

Live == migrateLegacy \/ PatchLegacyPower \/ deleteLegacyStatefulSet \/ DeleteLegacyPod \/ Load \/ ensurePVC \/ EnsureWorkload \/ reconcileSnapshots \/ UpdateStatus \/ AddFinalizer
finalize == FinalizeStart \/ RemoveObjects \/ HandleVolume \/ RemoveFinalizer
Kubelet == \E p \in DOMAIN pods : PodStops(p) \/ PodGone(p)

Next ==
  \/ Live \/ finalize \/ Kubelet \/ CutShort
  \/ \E p \in DOMAIN pods : PodStarts(p) \/ Evict(p)
  \/ LegacyChanges \/ JobEnds \/ Write \/ SnapshotTaken \/ FallsDue \/ ChangeClass \/ Delete \/ Adopt

Spec == Init /\ [][Next]_vars

FairSpec == Spec /\ WF_vars(Live \/ finalize) /\ WF_vars(Kubelet) /\ WF_vars(SnapshotTaken)

----------------------------------------------------------------------------

\* Types; what the operator created goes with its server, and no volume is left
\* with an owner that is gone (finalize deletes every object before it lets go).
TypeOK ==
  /\ gs \in [copy : BOOLEAN, fin : BOOLEAN, deleting : BOOLEAN] \cup {None}
  /\ policy \in Policies /\ objects \subseteq Owned /\ pods \in [Workload \cup {"job"} -> {"none", "up", "going"}]
  /\ vol \in [uid : 1..MaxTrouble + 1, owned : BOOLEAN, holds : {"nothing", "files", "wiped"}] \cup {None}
  /\ final \in [of : 1..MaxTrouble + 1, ready : BOOLEAN, current : BOOLEAN] \cup {None}
  /\ sched \subseteq 1..MaxTrouble
  /\ power \in [desired : BOOLEAN, proc : BOOLEAN, newer : BOOLEAN] /\ (~legacy => power = Migrated)
  /\ gs = None => objects = {}

\* SnapshotThenDelete deletes a volume only with a final snapshot that is ready
\* and holds all that was written to it, unless an earlier server left its own
\* final snapshot or a pod ran that the finalizer did not wait for (finalize,
\* snapshotBeforeDelete).
FinalSnapshot ==
  [][(At("volume") /\ rec.policy = "SnapshotThenDelete" /\ vol # None /\ vol' = None) =>
       final.ready /\ (again \/ final.of = vol.uid) /\ (again \/ late \/ final.current)]_vars

\* Without those exceptions: a volume is deleted with a final snapshot of its own
\* (snapshotBeforeDelete takes a snapshot of that name for one of this volume).
SnapshotOfThis ==
  [][(At("volume") /\ rec.policy = "SnapshotThenDelete" /\ vol # None /\ vol' = None) =>
       (vol.holds = "files" => final.of = vol.uid)]_vars

\* The finalizer handles the volume once no pod of the server uses it (finalize:
\* "Wait for the pods to go so the volume is released before the PVC is handled").
Released == [][At("volume") /\ ~At("volume")' => \A p \in Workload : pods[p] = "none"]_vars

\* A volume goes only by the finalizer's own decision, never because the server
\* that owns it is gone; one that is retained still has its files; and the copy
\* that a transfer left behind takes its volume with it under every policy
\* (finalize, RetainPVC, ensurePVC).
VolumeByPolicy ==
  [][/\ vol # None /\ vol' = None => At("volume") /\ rec.policy # "Retain"
     /\ (At("update") /\ gs' = None /\ vol # None /\ ~changed) => vol.holds # "wiped"
     /\ (At("update") /\ gs # None /\ gs' = None /\ gs.copy) => vol = None]_vars

\* The operator takes down the pod of a 1.x server only when no StatefulSet
\* brings it back, and then the server is to do what the Panel showed of it or
\* asked for since (migrateLegacy, adoptLegacyPower).
UpgradeKeeps ==
  [][(At("oldpod") /\ pods["game"] = "up" /\ pods'["game"] = "going") =>
       "old" \notin objects /\ power.desired = rec.shown]_vars

\* The newest scheduled snapshot is there, however often a status write was lost
\* and the snapshot taken again (reconcileSnapshots, pruneSnapshots).
NewestKept == taken > 0 => taken \in sched

\* A server that is deleted is gone in the end (finalize requeues until the
\* pods are gone and the snapshot is ready).
Deleted == (gs # None /\ gs.deleting) ~> gs = None
=============================================================================

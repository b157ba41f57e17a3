---------------------------- MODULE VolumeProofs ----------------------------
(***************************************************************************)
(* Proofs about a server's volume (module Volume): what the finalizer does *)
(* to it, what the upgrade from the 1.x layout does to its pod, and which  *)
(* scheduled snapshot is kept.                                             *)
(***************************************************************************)
EXTENDS Volume, TLAPS

Servers == [copy : BOOLEAN, fin : BOOLEAN, deleting : BOOLEAN]
Claims == [uid : Nat, owned : BOOLEAN, holds : {"nothing", "files", "wiped"}]
Snapshots == [of : Nat, ready : BOOLEAN, current : BOOLEAN]
Pods == Workload \cup {"job"}

LiveSteps == {"adopt", "old", "oldpod", "claim", "workload", "snapshot", "status"}
FinalSteps == {"objects", "volume", "update"}

Steps == {"idle"} \cup LiveSteps \cup FinalSteps
Patches == {"none", "due", "stale"}
Reconciles == [at : Steps, policy : Policies, seen : SUBSET Workload, patch : Patches, shown : BOOLEAN]

\* The types, with no bound on how many volumes there were.
Types ==
  /\ gs \in Servers \cup {None} /\ policy \in Policies
  /\ objects \subseteq Owned /\ pods \in [Pods -> {"none", "up", "going"}]
  /\ power \in [desired : BOOLEAN, proc : BOOLEAN, newer : BOOLEAN]
  /\ vol \in Claims \cup {None} /\ final \in Snapshots \cup {None} /\ vols \in Nat
  /\ rec \in Reconciles

\* The reconcile never takes an object for the absence of one.
LEMMA NoneIsNone == None \notin Servers /\ None \notin Claims /\ None \notin Snapshots
BY NoneAssumption DEF Servers, Claims, Snapshots

\* A reconcile rests, goes on to another step, or begins.
LEMMA ReconcileTypes ==
  /\ Resting \in Reconciles
  /\ \A r \in Reconciles, s \in Steps : [r EXCEPT !.at = s] \in Reconciles
  /\ \A r \in Reconciles, c \in Patches : [r EXCEPT !.patch = c] \in Reconciles
  /\ \A r \in Reconciles, b \in BOOLEAN, c \in Patches : [r EXCEPT !.shown = b, !.patch = c] \in Reconciles
  /\ \A r \in Reconciles, s \in Steps, p \in Policies : [r EXCEPT !.at = s, !.policy = p] \in Reconciles
  /\ \A r \in Reconciles, s \in Steps, seen \in SUBSET Workload, b \in BOOLEAN, c \in Patches :
       [r EXCEPT !.at = s, !.seen = seen, !.shown = b, !.patch = c] \in Reconciles
  /\ \A r \in Reconciles, s \in Steps, p \in Policies, seen \in SUBSET Workload :
       [r EXCEPT !.at = s, !.policy = p, !.seen = seen] \in Reconciles
BY DEF Reconciles, Resting, Steps, Policies, Patches

\* What ensurePVC and snapshotBeforeDelete create.
LEMMA CreatedTypes ==
  /\ \A u \in Nat, b \in BOOLEAN : [uid |-> u, owned |-> b, holds |-> "nothing"] \in Claims
  /\ \A u \in Nat : [of |-> u, ready |-> FALSE, current |-> FALSE] \in Snapshots
  /\ Migrated \in [desired : BOOLEAN, proc : BOOLEAN, newer : BOOLEAN]
BY DEF Claims, Snapshots, Migrated

LEMMA TypesInit == Init => Types
<1> SUFFICES ASSUME Init PROVE Types
  OBVIOUS
<1>1. gs \in Servers /\ policy \in Policies /\ final = None /\ vols \in Nat
  BY ZenonT(30) DEF Init, Servers, Policies
<1>2. objects \subseteq Owned /\ pods \in [Pods -> {"none", "up", "going"}]
  BY DEF Init, Owned, Workload, Pods
<1>3. power \in [desired : BOOLEAN, proc : BOOLEAN, newer : BOOLEAN]
  BY ZenonT(30), CreatedTypes DEF Init
<1>4. vol \in Claims \cup {None}
  BY DEF Init, Claims
<1> QED
  BY ZenonT(30), <1>1, <1>2, <1>3, <1>4, ReconcileTypes DEF Init, Types

\* A server of the 1.x layout stays one or becomes one of today's.
LEMMA StaysLegacyTypes ==
  ASSUME Types, StaysLegacy
  PROVE  power' \in [desired : BOOLEAN, proc : BOOLEAN, newer : BOOLEAN]
BY DEF StaysLegacy, Types, Migrated

\* What the Panel asks of a 1.x server, or what its process does, leaves a
\* reconcile where it is; a patch that was due is stale after it.
LEMMA AskedKeepsStep ==
  ASSUME Types, LegacyChanges
  PROVE  /\ power' \in [desired : BOOLEAN, proc : BOOLEAN, newer : BOOLEAN] /\ rec' \in Reconciles
         /\ rec'.at = rec.at /\ rec'.policy = rec.policy /\ rec'.seen = rec.seen
         /\ rec.at # "idle" => rec'.patch # "due"
         /\ rec.at # "idle" /\ rec'.patch = "none" => rec.patch = "none"
         /\ rec.at # "idle" /\ power.desired = rec.shown => power'.desired = rec'.shown
<1> DEFINE stale == IF rec.patch = "none" THEN "none" ELSE "stale"
<1>1. stale \in Patches /\ stale # "due" /\ (stale = "none" => rec.patch = "none")
  BY DEF Patches
<1>2. rec \in Reconciles /\ power \in [desired : BOOLEAN, proc : BOOLEAN, newer : BOOLEAN]
  BY DEF Types
<1>3. \/ /\ power' \in [desired : BOOLEAN, proc : {power.proc}, newer : {TRUE}]
         /\ rec' = IF rec.at = "idle" THEN rec ELSE [rec EXCEPT !.shown = power'.desired, !.patch = stale]
      \/ power' = [power EXCEPT !.proc = ~power.proc] /\ rec' = [rec EXCEPT !.patch = stale]
  BY DEF LegacyChanges, At
<1> HIDE DEF stale
<1>4. CASE /\ power' \in [desired : BOOLEAN, proc : {power.proc}, newer : {TRUE}]
           /\ rec' = IF rec.at = "idle" THEN rec ELSE [rec EXCEPT !.shown = power'.desired, !.patch = stale]
  <2>1. power' \in [desired : BOOLEAN, proc : BOOLEAN, newer : BOOLEAN] /\ power'.desired \in BOOLEAN
    BY <1>2, <1>4
  <2>2. CASE rec.at = "idle"
    BY <1>2, <1>4, <2>1, <2>2
  <2>3. CASE rec.at # "idle"
    <3>1. rec' = [rec EXCEPT !.shown = power'.desired, !.patch = stale]
      BY <1>4, <2>3
    <3>2. rec' \in Reconciles
      BY ZenonT(30), <1>1, <1>2, <2>1, <3>1, ReconcileTypes
    <3> QED
      BY <1>1, <1>2, <2>1, <3>1, <3>2 DEF Reconciles
  <2> QED
    BY <2>2, <2>3
<1>5. CASE power' = [power EXCEPT !.proc = ~power.proc] /\ rec' = [rec EXCEPT !.patch = stale]
  <2>1. rec' \in Reconciles
    BY ZenonT(30), <1>1, <1>2, <1>5, ReconcileTypes
  <2>2. power' \in [desired : BOOLEAN, proc : BOOLEAN, newer : BOOLEAN] /\ power'.desired = power.desired
    BY <1>2, <1>5
  <2> QED
    BY <1>1, <1>2, <1>5, <2>1, <2>2 DEF Reconciles
<1> QED
  BY <1>3, <1>4, <1>5

LEMMA TypesNext == Types /\ [Next]_vars => Types'
<1> SUFFICES ASSUME Types, [Next]_vars PROVE Types'
  OBVIOUS
<1> USE DEF Types, vars, pvars, ghosts
<1>1. CASE migrateLegacy
  <2>1. Shown \in BOOLEAN
    BY DEF Shown
  <2>2. rec' \in Reconciles
    BY ZenonT(30), <1>1, <2>1, ReconcileTypes DEF migrateLegacy, Steps, LiveSteps, Workload, Patches
  <2> QED
    BY <1>1, <2>2 DEF migrateLegacy
<1>2. CASE deleteLegacyStatefulSet
  BY ZenonT(30), <1>2, StaysLegacyTypes, ReconcileTypes DEF deleteLegacyStatefulSet, Goto, Steps, LiveSteps
<1>3. CASE DeleteLegacyPod
  BY ZenonT(30), <1>3, ReconcileTypes DEF DeleteLegacyPod, Stop, Pods, Workload
<1>4. CASE Load
  BY ZenonT(30), <1>4, ReconcileTypes DEF Load, Steps, LiveSteps
<1>5. CASE ensurePVC
  <2>1. rec' \in Reconciles
    BY ZenonT(30), <1>5, ReconcileTypes DEF ensurePVC, Steps, LiveSteps
  <2>2. vol' \in Claims \cup {None} /\ vols' \in Nat
    <3>1. (rec.policy # "Retain") \in BOOLEAN /\ vols + 1 \in Nat
      OBVIOUS
    <3>2. [uid |-> vols + 1, owned |-> (rec.policy # "Retain"), holds |-> "nothing"] \in Claims
      BY ZenonT(30), <3>1, CreatedTypes
    <3> QED
      BY <1>5, <3>1, <3>2 DEF ensurePVC
  <2> QED
    BY <1>5, <2>1, <2>2 DEF ensurePVC
<1>6. CASE EnsureWorkload
  BY ZenonT(30), <1>6, ReconcileTypes DEF EnsureWorkload, Goto, Steps, LiveSteps, Owned
<1>7. CASE reconcileSnapshots
  BY ZenonT(30), <1>7, ReconcileTypes DEF reconcileSnapshots, Goto, Steps, LiveSteps
<1>8. CASE UpdateStatus \/ CutShort
  BY ZenonT(30), <1>8, ReconcileTypes DEF UpdateStatus, CutShort, Trouble, Stop
<1>9. CASE AddFinalizer
  BY ZenonT(30), <1>9 DEF AddFinalizer, Servers
<1>10. CASE FinalizeStart
  <2>1. rec' \in Reconciles
    BY ZenonT(30), <1>10, ReconcileTypes DEF FinalizeStart, DeletionPolicy, Steps, FinalSteps, Policies
  <2>2. vol' \in Claims \cup {None}
    BY <1>10 DEF FinalizeStart, AgentDelete, Claims
  <2> QED
    BY <1>10, <2>1, <2>2 DEF FinalizeStart
<1>11. CASE RemoveObjects
  <2>1. pods' \in [Pods -> {"none", "up", "going"}] /\ objects' \subseteq Owned
    BY <1>11 DEF RemoveObjects, DeleteLegacy, Removed, Pods, Workload
  <2>2. rec' \in Reconciles
    <3>1. rec' = Resting \/ rec' = [rec EXCEPT !.at = "volume"]
      BY <1>11 DEF RemoveObjects, WaitForPods, Goto, Stop
    <3>2. "volume" \in Steps
      BY DEF Steps, FinalSteps
    <3>3. [rec EXCEPT !.at = "volume"] \in Reconciles
      BY ZenonT(30), <3>2, ReconcileTypes
    <3> QED
      BY ZenonT(30), <3>1, <3>3, ReconcileTypes
  <2> QED
    BY <1>11, <2>1, <2>2, StaysLegacyTypes DEF RemoveObjects
<1>12. CASE HandleVolume
  <2>1. rec' \in Reconciles
    <3>1. rec' = Resting \/ rec' = [rec EXCEPT !.at = "update"]
      BY <1>12 DEF HandleVolume, snapshotBeforeDelete, Goto, Stop
    <3>2. "update" \in Steps
      BY DEF Steps, FinalSteps
    <3>3. [rec EXCEPT !.at = "update"] \in Reconciles
      BY ZenonT(30), <3>2, ReconcileTypes
    <3> QED
      BY ZenonT(30), <3>1, <3>3, ReconcileTypes
  <2>2. vol' \in Claims \cup {None}
    BY ZenonT(30), <1>12 DEF HandleVolume, snapshotBeforeDelete, RetainPVC, Claims
  <2>3. final' \in Snapshots \cup {None}
    BY <1>12, CreatedTypes DEF HandleVolume, snapshotBeforeDelete, Claims
  <2> QED
    BY <1>12, <2>1, <2>2, <2>3 DEF HandleVolume
<1>13. CASE RemoveFinalizer
  BY ZenonT(30), <1>13, ReconcileTypes DEF RemoveFinalizer, Stop
<1>14. ASSUME NEW p \in DOMAIN pods, PodStarts(p) \/ PodStops(p) PROVE Types'
  BY <1>14 DEF PodStarts, PodStops
<1>15. ASSUME NEW p \in DOMAIN pods, PodGone(p) \/ Evict(p) PROVE Types'
  BY <1>15, StaysLegacyTypes DEF PodGone, Evict, Trouble
<1>16. CASE LegacyChanges
  BY <1>16, AskedKeepsStep DEF LegacyChanges
<1>17. CASE JobEnds
  BY ZenonT(30), <1>17 DEF JobEnds
<1>18. CASE Write
  <2>1. vol' \in Claims
    BY <1>18 DEF Write, Claims
  <2>2. final' \in Snapshots \cup {None}
    BY ZenonT(30), <1>18 DEF Write, Snapshots
  <2> QED
    BY <1>18, <2>1, <2>2 DEF Write
<1>19. CASE SnapshotTaken
  BY ZenonT(30), <1>19 DEF SnapshotTaken, Snapshots
<1>20. CASE FallsDue \/ ChangeClass
  BY <1>20 DEF FallsDue, ChangeClass, Trouble
<1>21. CASE Delete
  BY ZenonT(30), <1>21 DEF Delete, Servers
<1>22. CASE Adopt
  <2>1. gs' \in Servers
    BY <1>22 DEF Adopt, Servers
  <2> QED
    BY <1>22, <2>1 DEF Adopt, Trouble
<1>23. CASE PatchLegacyPower
  <2>1. adoptLegacyPower \in [desired : BOOLEAN, proc : BOOLEAN, newer : BOOLEAN]
    BY DEF adoptLegacyPower
  <2>2. rec' = Resting \/ rec' = [rec EXCEPT !.at = "old"]
    BY <1>23 DEF PatchLegacyPower, Goto, Stop
  <2>3. Resting \in Reconciles /\ [rec EXCEPT !.at = "old"] \in Reconciles
    BY DEF Reconciles, Resting, Steps, LiveSteps, Policies, Patches
  <2>4. rec' \in Reconciles
    BY <2>2, <2>3
  <2> QED
    BY <1>23, <2>1, <2>4 DEF PatchLegacyPower
<1>24. CASE UNCHANGED vars
  BY <1>24
<1> QED
  BY ZenonT(30), <1>1, <1>2, <1>3, <1>4, <1>5, <1>6, <1>7, <1>8, <1>9, <1>10, <1>11, <1>12, <1>13, <1>14, <1>15,
     <1>16, <1>17, <1>18, <1>19, <1>20, <1>21, <1>22, <1>23, <1>24 DEF Next, Live, finalize, Kubelet

----------------------------------------------------------------------------
(* The steps of a reconcile, the policy it decides by, and wiped files.    *)

\* A reconcile under way has a server with the finalizer; one that finalizes
\* decides by the class's policy, a transfer's copy by "Delete"; and a volume
\* that is left when the finalizer goes was retained.
StepInv ==
  /\ ~At("idle") => gs # None /\ gs.fin
  /\ rec.at \in FinalSteps =>
       /\ gs.deleting
       /\ gs.copy => rec.policy = "Delete"
       /\ changed \/ rec.policy = DeletionPolicy
  /\ At("update") /\ vol # None => rec.policy = "Retain" /\ ~vol.owned

\* The agent wipes a volume only where the policy deletes it.
WipeInv ==
  gs # None /\ gs.deleting /\ vol # None /\ vol.holds = "wiped" => changed \/ DeletionPolicy = "Delete"

LEMMA StepNext == Types /\ StepInv /\ [Next]_vars => StepInv'
<1> SUFFICES ASSUME Types, StepInv, [Next]_vars PROVE StepInv'
  OBVIOUS
<1> USE NoneIsNone DEF Types, StepInv, FinalSteps, vars, pvars, ghosts, At, DeletionPolicy
<1>1. CASE migrateLegacy \/ Load
  BY ZenonT(30), <1>1 DEF migrateLegacy, Load, Resting
<1>2. CASE deleteLegacyStatefulSet
  BY <1>2 DEF deleteLegacyStatefulSet, Goto, Reconciles
<1>19. CASE PatchLegacyPower
  BY <1>19 DEF PatchLegacyPower, Goto, Stop, Resting, Reconciles
<1>3. CASE DeleteLegacyPod \/ UpdateStatus \/ CutShort
  BY <1>3 DEF DeleteLegacyPod, UpdateStatus, CutShort, Stop, Resting
<1>4. CASE ensurePVC
  BY <1>4 DEF ensurePVC, Resting
<1>5. CASE EnsureWorkload \/ reconcileSnapshots
  BY <1>5 DEF EnsureWorkload, reconcileSnapshots, Goto, Reconciles
<1>6. CASE AddFinalizer
  BY <1>6 DEF AddFinalizer, Servers
<1>7. CASE FinalizeStart
  BY <1>7 DEF FinalizeStart, Resting
<1>8. CASE RemoveObjects
  <2>1. rec' = Resting \/ rec' = [rec EXCEPT !.at = "volume"]
    BY <1>8 DEF RemoveObjects, WaitForPods, Goto, Stop
  <2> QED
    BY <1>8, <2>1 DEF RemoveObjects, Resting, Reconciles
<1>9. CASE HandleVolume
  <2>1. rec' = Resting \/ rec' = [rec EXCEPT !.at = "update"]
    BY <1>9 DEF HandleVolume, snapshotBeforeDelete, Goto, Stop
  <2>2. rec' # Resting => vol' = None \/ (rec.policy = "Retain" /\ vol' = [vol EXCEPT !.owned = FALSE] /\ vol # None)
    BY <1>9 DEF HandleVolume, snapshotBeforeDelete, Goto, Stop, RetainPVC
  <2> QED
    BY <1>9, <2>1, <2>2 DEF HandleVolume, Resting, Reconciles, Claims
<1>10. CASE RemoveFinalizer
  BY <1>10 DEF RemoveFinalizer, Stop, Resting
<1>11. CASE Delete
  BY ZenonT(30), <1>11 DEF Delete, Servers
<1>12. CASE Adopt
  BY <1>12 DEF Adopt, Trouble
<1>13. ASSUME NEW p \in DOMAIN pods, PodStarts(p) \/ PodStops(p) \/ PodGone(p) \/ Evict(p) PROVE StepInv'
  BY <1>13 DEF PodStarts, PodStops, PodGone, Evict
<1>14. CASE LegacyChanges
  <2>1. rec'.at = rec.at /\ rec'.policy = rec.policy
    BY <1>14, AskedKeepsStep
  <2> QED
    BY <1>14, <2>1 DEF LegacyChanges
<1>15. CASE JobEnds \/ SnapshotTaken \/ FallsDue
  BY <1>15 DEF JobEnds, SnapshotTaken, FallsDue
<1>16. CASE Write
  BY <1>16 DEF Write, Claims
<1>17. CASE ChangeClass
  BY <1>17 DEF ChangeClass
<1>18. CASE UNCHANGED vars
  BY <1>18
<1> QED
  BY ZenonT(30), <1>1, <1>2, <1>3, <1>4, <1>5, <1>6, <1>7, <1>8, <1>9, <1>10, <1>11, <1>12, <1>13, <1>14, <1>15,
     <1>16, <1>17, <1>18, <1>19 DEF Next, Live, finalize, Kubelet

LEMMA WipeNext == Types /\ WipeInv /\ [Next]_vars => WipeInv'
<1> SUFFICES ASSUME Types, WipeInv, [Next]_vars PROVE WipeInv'
  OBVIOUS
<1> USE NoneIsNone DEF Types, WipeInv, vars, pvars, ghosts, DeletionPolicy
<1>1. CASE migrateLegacy \/ PatchLegacyPower \/ Load \/ deleteLegacyStatefulSet \/ DeleteLegacyPod
  BY <1>1 DEF migrateLegacy, PatchLegacyPower, Load, deleteLegacyStatefulSet, DeleteLegacyPod
<1>2. CASE UpdateStatus \/ CutShort \/ EnsureWorkload \/ reconcileSnapshots \/ RemoveObjects
  BY <1>2 DEF UpdateStatus, CutShort, EnsureWorkload, reconcileSnapshots, RemoveObjects
<1>3. CASE ensurePVC
  BY <1>3 DEF ensurePVC
<1>4. CASE AddFinalizer
  BY <1>4 DEF AddFinalizer, Servers
<1>5. CASE FinalizeStart
  BY <1>5 DEF FinalizeStart, AgentDelete, Claims
<1>6. CASE HandleVolume
  BY <1>6 DEF HandleVolume, snapshotBeforeDelete, RetainPVC, Claims
<1>7. CASE RemoveFinalizer
  BY <1>7 DEF RemoveFinalizer
<1>8. CASE Delete
  BY <1>8 DEF Delete, Servers
<1>9. CASE Adopt
  BY <1>9 DEF Adopt
<1>10. ASSUME NEW p \in DOMAIN pods, PodStarts(p) \/ PodStops(p) \/ PodGone(p) \/ Evict(p) PROVE WipeInv'
  BY <1>10 DEF PodStarts, PodStops, PodGone, Evict
<1>11. CASE LegacyChanges \/ JobEnds \/ SnapshotTaken \/ FallsDue
  BY ZenonT(30), <1>11 DEF LegacyChanges, JobEnds, SnapshotTaken, FallsDue
<1>12. CASE Write
  BY <1>12 DEF Write, Claims
<1>13. CASE ChangeClass
  BY <1>13 DEF ChangeClass
<1>14. CASE UNCHANGED vars
  BY <1>14
<1> QED
  BY <1>1, <1>2, <1>3, <1>4, <1>5, <1>6, <1>7, <1>8, <1>9, <1>10, <1>11, <1>12, <1>13, <1>14
     DEF Next, Live, finalize, Kubelet

----------------------------------------------------------------------------
(* What the operator created, and servers of the 1.x layout.               *)

\* What the operator created is there only while its server holds the finalizer,
\* and is gone when the finalizer handles the volume.
ObjectInv ==
  /\ At("volume") \/ At("update") \/ gs = None => objects = {}
  /\ gs # None /\ ~gs.fin => objects = {}

\* A 1.x server has its StatefulSet or its pod, and no game StatefulSet of today's;
\* a migration keeps to what the Panel showed or asked for.
LegacyInv ==
  /\ legacy => LegacyLeft /\ "game" \notin objects
  /\ "old" \in objects => legacy
  /\ rec.at \in {"claim", "workload"} => ~legacy
  /\ At("oldpod") => "old" \notin objects
  /\ rec.at \in {"adopt", "old", "oldpod"} =>
       /\ "game" \notin objects
       /\ legacy \/ pods["game"] = "none"
  /\ rec.at \in {"old", "oldpod"} /\ rec.seen # {} /\ legacy => power.desired = rec.shown
  /\ At("adopt") /\ rec.seen # {} /\ legacy =>
       /\ rec.patch = "none" => power.desired = rec.shown
       /\ rec.patch = "due" => Shown = rec.shown

LEMMA ObjectNext == Types /\ StepInv /\ ObjectInv /\ [Next]_vars => ObjectInv'
<1> SUFFICES ASSUME Types, StepInv, ObjectInv, [Next]_vars PROVE ObjectInv'
  OBVIOUS
<1> USE NoneIsNone DEF Types, ObjectInv, vars, pvars, ghosts, At
<1>1. CASE migrateLegacy \/ Load
  BY ZenonT(30), <1>1 DEF migrateLegacy, Load, Resting
<1>2. CASE deleteLegacyStatefulSet
  BY <1>2 DEF deleteLegacyStatefulSet, Goto, Reconciles
<1>17. CASE PatchLegacyPower
  BY <1>17 DEF PatchLegacyPower, Goto, Stop, Resting, Reconciles
<1>3. CASE DeleteLegacyPod \/ UpdateStatus \/ CutShort
  BY <1>3 DEF DeleteLegacyPod, UpdateStatus, CutShort, Stop, Resting
<1>4. CASE ensurePVC
  BY <1>4 DEF ensurePVC, Resting
<1>5. CASE EnsureWorkload \/ reconcileSnapshots
  BY <1>5 DEF EnsureWorkload, reconcileSnapshots, StepInv, Goto, Reconciles
<1>6. CASE AddFinalizer
  BY <1>6 DEF AddFinalizer, Servers
<1>7. CASE FinalizeStart
  BY <1>7 DEF FinalizeStart, Resting
<1>8. CASE RemoveObjects
  <2>1. objects' \subseteq objects /\ (rec' = Resting \/ (rec' = [rec EXCEPT !.at = "volume"] /\ objects' = {}))
    BY <1>8 DEF RemoveObjects, WaitForPods, Removed, Goto, Stop
  <2> QED
    BY <1>8, <2>1 DEF RemoveObjects, Resting, Reconciles
<1>9. CASE HandleVolume
  <2>1. rec' = Resting \/ rec' = [rec EXCEPT !.at = "update"]
    BY <1>9 DEF HandleVolume, snapshotBeforeDelete, Goto, Stop
  <2> QED
    BY <1>9, <2>1 DEF HandleVolume
<1>10. CASE RemoveFinalizer
  BY <1>10 DEF RemoveFinalizer, Stop, Resting
<1>11. CASE Delete
  BY ZenonT(30), <1>11 DEF Delete, Servers
<1>12. CASE Adopt
  BY <1>12 DEF Adopt
<1>13. ASSUME NEW p \in DOMAIN pods, PodStarts(p) \/ PodStops(p) \/ PodGone(p) \/ Evict(p) PROVE ObjectInv'
  BY <1>13 DEF PodStarts, PodStops, PodGone, Evict
<1>14. CASE LegacyChanges
  <2>1. rec'.at = rec.at
    BY <1>14, AskedKeepsStep
  <2> QED
    BY <1>14, <2>1 DEF LegacyChanges
<1>15. CASE JobEnds \/ SnapshotTaken \/ FallsDue \/ Write \/ ChangeClass
  BY <1>15 DEF JobEnds, SnapshotTaken, FallsDue, Write, ChangeClass
<1>16. CASE UNCHANGED vars
  BY <1>16
<1> QED
  BY <1>1, <1>2, <1>3, <1>4, <1>5, <1>6, <1>7, <1>8, <1>9, <1>10, <1>11, <1>12, <1>13, <1>14, <1>15,
     <1>16, <1>17 DEF Next, Live, finalize, Kubelet

\* StaysLegacy keeps a server in the 1.x layout exactly while something of it is left.
LEMMA StaysLegacyKeeps ==
  ASSUME Types, LegacyInv, StaysLegacy, objects' \subseteq objects
  PROVE  /\ legacy' => legacy /\ LegacyLeft' /\ "game" \notin objects' /\ power' = power
         /\ "old" \in objects' => legacy'
         /\ legacy /\ ~legacy' => pods'["game"] = "none"
BY ZenonT(30) DEF Types, LegacyInv, StaysLegacy, LegacyLeft

LEMMA LegacyNext == Types /\ LegacyInv /\ [Next]_vars => LegacyInv'
<1> SUFFICES ASSUME Types, LegacyInv, [Next]_vars PROVE LegacyInv'
  OBVIOUS
<1> USE DEF Types, LegacyInv, LegacyLeft, Pods, Workload, vars, pvars, ghosts, At
<1>21. power' = power => Shown' = Shown
  BY DEF Shown
<1>1. CASE migrateLegacy
  <2>1. CASE legacy /\ pods["game"] = "up"
    <3>1. adoptLegacyPower.desired = Shown
      BY DEF adoptLegacyPower, Shown
    <3>2. rec'.at = "adopt" /\ rec'.shown = Shown /\ rec'.patch \in {"none", "due"}
            /\ (rec'.patch = "none" => adoptLegacyPower = power)
      BY <1>1, <2>1 DEF migrateLegacy, Resting
    <3>3. Shown' = Shown
      BY <1>1 DEF migrateLegacy, Shown
    <3> QED
      BY <1>1, <3>1, <3>2, <3>3 DEF migrateLegacy
  <2>2. CASE ~(legacy /\ pods["game"] = "up")
    BY <1>1, <2>2 DEF migrateLegacy, Resting
  <2> QED
    BY <2>1, <2>2
<1>2. CASE Load
  BY <1>2 DEF Load, Resting
<1>20. CASE PatchLegacyPower
  <2>1. CASE rec.patch = "stale"
    BY <1>20, <2>1 DEF PatchLegacyPower, Stop, Resting
  <2>2. CASE rec.patch # "stale"
    <3>1. rec'.at = "old" /\ rec'.seen = rec.seen /\ rec'.shown = rec.shown
      BY <1>20, <2>2 DEF PatchLegacyPower, Goto, Reconciles
    <3>2. adoptLegacyPower.desired = Shown
      BY DEF adoptLegacyPower, Shown
    <3>3. rec.patch \in {"none", "due"}
      BY <2>2 DEF Reconciles, Patches
    <3> QED
      BY <1>20, <3>1, <3>2, <3>3 DEF PatchLegacyPower
  <2> QED
    BY <2>1, <2>2
<1>3. CASE deleteLegacyStatefulSet
  <2>1. rec'.at = "oldpod" /\ rec'.seen = rec.seen /\ rec'.shown = rec.shown
    BY <1>3 DEF deleteLegacyStatefulSet, Goto, Reconciles
  <2> QED
    BY <1>3, <2>1, StaysLegacyKeeps DEF deleteLegacyStatefulSet
<1>4. CASE DeleteLegacyPod
  BY <1>4 DEF DeleteLegacyPod, Stop, Resting
<1>5. CASE UpdateStatus \/ CutShort
  BY <1>5 DEF UpdateStatus, CutShort, Stop, Resting
<1>6. CASE ensurePVC
  BY <1>6 DEF ensurePVC, Resting
<1>7. CASE EnsureWorkload \/ reconcileSnapshots
  BY <1>21, <1>7 DEF EnsureWorkload, reconcileSnapshots, Goto, Reconciles
<1>8. CASE AddFinalizer \/ Delete \/ Adopt
  BY <1>21, <1>8 DEF AddFinalizer, Delete, Adopt
<1>9. CASE FinalizeStart
  BY <1>9 DEF FinalizeStart, Resting
<1>10. CASE RemoveObjects
  <2>1. objects' \subseteq objects /\ (rec' = Resting \/ rec' = [rec EXCEPT !.at = "volume"])
    BY <1>10 DEF RemoveObjects, WaitForPods, Removed, Goto, Stop
  <2>2. rec'.at \in {"idle", "volume"}
    BY <2>1 DEF Resting, Reconciles
  <2> QED
    BY <1>10, <2>1, <2>2, StaysLegacyKeeps DEF RemoveObjects
<1>11. CASE HandleVolume
  <2>1. rec' = Resting \/ rec' = [rec EXCEPT !.at = "update"]
    BY <1>11 DEF HandleVolume, snapshotBeforeDelete, Goto, Stop
  <2>2. rec'.at \in {"idle", "update"}
    BY <2>1 DEF Resting, Reconciles
  <2> QED
    BY <1>11, <2>2 DEF HandleVolume
<1>12. CASE RemoveFinalizer
  BY <1>12 DEF RemoveFinalizer, Stop, Resting
<1>13. ASSUME NEW p \in DOMAIN pods, PodStarts(p) PROVE LegacyInv'
  BY <1>21, <1>13 DEF PodStarts
<1>14. ASSUME NEW p \in DOMAIN pods, PodStops(p) PROVE LegacyInv'
  BY <1>21, <1>14 DEF PodStops
<1>15. ASSUME NEW p \in DOMAIN pods, PodGone(p) \/ Evict(p) PROVE LegacyInv'
  <2>1. StaysLegacy /\ objects' = objects /\ rec' = rec /\ pods' = [pods EXCEPT ![p] = "none"]
    BY <1>15 DEF PodGone, Evict
  <2> QED
    BY <1>21, <2>1, StaysLegacyKeeps
<1>16. CASE LegacyChanges
  BY <1>16, AskedKeepsStep DEF LegacyChanges
<1>17. CASE JobEnds
  BY <1>21, <1>17 DEF JobEnds
<1>18. CASE SnapshotTaken \/ FallsDue \/ Write \/ ChangeClass
  BY <1>21, <1>18 DEF SnapshotTaken, FallsDue, Write, ChangeClass
<1>19. CASE UNCHANGED vars
  BY <1>19, <1>21
<1> QED
  BY ZenonT(30), <1>1, <1>2, <1>3, <1>4, <1>5, <1>6, <1>7, <1>8, <1>9, <1>10, <1>11, <1>12, <1>13, <1>14, <1>15,
     <1>16, <1>17, <1>18, <1>19, <1>20 DEF Next, Live, finalize, Kubelet

----------------------------------------------------------------------------
(* Pods that the finalizer waited for, and the final snapshot.             *)

Quiet == \A p \in Pods : pods[p] = "none"

\* Unless a pod started behind its back, the finalizer handles the volume when
\* no pod of the server is left.
PodInv ==
  /\ gs # None /\ gs.deleting /\ ~late => pods["job"] = "none"
  /\ At("objects") /\ rec.seen = {} /\ ~late => pods["game"] = "none" /\ pods["agent"] = "none"
  /\ At("volume") /\ ~late => Quiet

\* The final snapshot of a server that found none when it was created: it is of
\* the server's own volume, and nothing was written to that since it was taken.
SnapInv ==
  final # None /\ ~again =>
    /\ rec.at \notin LiveSteps
    /\ vol # None => final.of = vol.uid
    /\ gs # None =>
         /\ gs.deleting /\ objects = {}
         /\ late \/ (Quiet /\ (final.ready => final.current))

LEMMA PodNext == Types /\ StepInv /\ ObjectInv /\ PodInv /\ [Next]_vars => PodInv'
<1> SUFFICES ASSUME Types, StepInv, ObjectInv, PodInv, [Next]_vars PROVE PodInv'
  OBVIOUS
<1> USE NoneIsNone DEF Types, PodInv, Quiet, Pods, Workload, vars, pvars, ghosts, At
<1>1. CASE migrateLegacy \/ Load
  BY ZenonT(30), <1>1 DEF migrateLegacy, Load, Resting
<1>2. CASE deleteLegacyStatefulSet
  BY <1>2 DEF deleteLegacyStatefulSet, Goto, Reconciles
<1>21. CASE PatchLegacyPower
  BY <1>21 DEF PatchLegacyPower, Goto, Stop, Resting, Reconciles
<1>3. CASE DeleteLegacyPod
  BY <1>3 DEF DeleteLegacyPod, Stop, Resting
<1>4. CASE UpdateStatus \/ CutShort
  BY <1>4 DEF UpdateStatus, CutShort, Stop, Resting
<1>5. CASE ensurePVC
  BY <1>5 DEF ensurePVC, Resting
<1>6. CASE EnsureWorkload \/ reconcileSnapshots
  BY <1>6 DEF EnsureWorkload, reconcileSnapshots, Goto, Reconciles
<1>7. CASE AddFinalizer
  BY <1>7 DEF AddFinalizer, Servers
<1>8. CASE FinalizeStart
  BY <1>8 DEF FinalizeStart, Resting
<1>9. CASE RemoveObjects
  <2>1. pods' = pods \/ (pods["game"] # "none" /\ pods' = [pods EXCEPT !["game"] = "going"] /\ rec.seen # {})
    BY <1>9 DEF RemoveObjects, DeleteLegacy
  <2>2. rec' = Resting \/ (rec' = [rec EXCEPT !.at = "volume"] /\ rec.seen = {})
    BY <1>9 DEF RemoveObjects, WaitForPods, Goto, Stop
  <2>3. rec'.at = "idle" \/ (rec'.at = "volume" /\ rec.seen = {})
    BY <2>2 DEF Resting, Reconciles
  <2>4. gs # None /\ gs.deleting
    BY <1>9 DEF RemoveObjects, StepInv, FinalSteps
  <2> QED
    BY <1>9, <2>1, <2>3, <2>4 DEF RemoveObjects
<1>10. CASE HandleVolume
  <2>1. rec' = Resting \/ rec' = [rec EXCEPT !.at = "update"]
    BY <1>10 DEF HandleVolume, snapshotBeforeDelete, Goto, Stop
  <2>2. rec'.at \in {"idle", "update"}
    BY <2>1 DEF Resting, Reconciles
  <2> QED
    BY <1>10, <2>2 DEF HandleVolume
<1>11. CASE RemoveFinalizer
  BY <1>11 DEF RemoveFinalizer, Stop, Resting
<1>12. CASE Delete
  BY <1>12 DEF Delete, Servers, StepInv, FinalSteps
<1>13. CASE Adopt
  BY <1>13 DEF Adopt, StepInv
<1>14. ASSUME NEW p \in DOMAIN pods, PodStarts(p) PROVE PodInv'
  BY ZenonT(30), <1>14 DEF PodStarts, ObjectInv, StepInv, FinalSteps
<1>15. ASSUME NEW p \in DOMAIN pods, PodStops(p) PROVE PodInv'
  BY <1>15 DEF PodStops
<1>16. ASSUME NEW p \in DOMAIN pods, PodGone(p) \/ Evict(p) PROVE PodInv'
  BY <1>16 DEF PodGone, Evict
<1>17. CASE LegacyChanges
  BY ZenonT(30), <1>17, AskedKeepsStep DEF LegacyChanges
<1>18. CASE JobEnds
  BY <1>18 DEF JobEnds
<1>19. CASE SnapshotTaken \/ FallsDue \/ Write \/ ChangeClass
  BY <1>19 DEF SnapshotTaken, FallsDue, Write, ChangeClass
<1>20. CASE UNCHANGED vars
  BY <1>20
<1> QED
  BY ZenonT(30), <1>1, <1>2, <1>3, <1>4, <1>5, <1>6, <1>7, <1>8, <1>9, <1>10, <1>11, <1>12, <1>13, <1>14, <1>15,
     <1>16, <1>17, <1>18, <1>19, <1>20, <1>21 DEF Next, Live, finalize, Kubelet

LEMMA SnapNext == Types /\ StepInv /\ ObjectInv /\ PodInv /\ SnapInv /\ [Next]_vars => SnapInv'
<1> SUFFICES ASSUME Types, StepInv, ObjectInv, PodInv, SnapInv, [Next]_vars PROVE SnapInv'
  OBVIOUS
<1> USE NoneIsNone DEF Types, SnapInv, Quiet, LiveSteps, vars, pvars, ghosts, At
<1>1. CASE migrateLegacy \/ Load \/ AddFinalizer
  <2>1. gs # None /\ ~gs.deleting /\ final' = final /\ again' = again
    BY <1>1 DEF migrateLegacy, Load, AddFinalizer
  <2> QED
    BY <2>1
<1>2. CASE PatchLegacyPower \/ deleteLegacyStatefulSet \/ DeleteLegacyPod \/ UpdateStatus \/ ensurePVC \/ EnsureWorkload \/ reconcileSnapshots
  <2>1. rec.at \in LiveSteps /\ final' = final /\ again' = again
    BY <1>2 DEF PatchLegacyPower, deleteLegacyStatefulSet, DeleteLegacyPod, UpdateStatus, ensurePVC, EnsureWorkload, reconcileSnapshots
  <2> QED
    BY <2>1
<1>3. CASE CutShort
  BY <1>3 DEF CutShort, Stop, Resting
<1>4. CASE FinalizeStart
  <2>1. vol' = None \/ (vol # None /\ vol'.uid = vol.uid)
    BY <1>4 DEF FinalizeStart, AgentDelete, Claims
  <2> QED
    BY <1>4, <2>1 DEF FinalizeStart, Resting
<1>5. CASE RemoveObjects
  <2>1. objects' \subseteq objects /\ (rec' = Resting \/ rec' = [rec EXCEPT !.at = "volume"])
    BY <1>5 DEF RemoveObjects, WaitForPods, Removed, Goto, Stop
  <2>2. rec'.at \in {"idle", "volume"}
    BY <2>1 DEF Resting, Reconciles
  <2>3. Quiet => pods' = pods
    BY <1>5 DEF RemoveObjects, DeleteLegacy, Pods, Workload
  <2> QED
    BY <1>5, <2>1, <2>2, <2>3 DEF RemoveObjects
<1>6. CASE HandleVolume
  <2>1. rec' = Resting \/ rec' = [rec EXCEPT !.at = "update"]
    BY <1>6 DEF HandleVolume, snapshotBeforeDelete, Goto, Stop
  <2>2. rec'.at \in {"idle", "update"}
    BY <2>1 DEF Resting, Reconciles
  <2>3. gs # None /\ gs.deleting /\ objects = {} /\ (late \/ Quiet)
    BY <1>6 DEF HandleVolume, StepInv, FinalSteps, ObjectInv, PodInv
  <2>4. CASE final' = final
    <3>1. vol' = None \/ (vol # None /\ vol'.uid = vol.uid)
      BY <1>6 DEF HandleVolume, snapshotBeforeDelete, RetainPVC, Claims
    <3> QED
      BY <1>6, <2>2, <2>4, <3>1 DEF HandleVolume
  <2>5. CASE final' # final
    <3>1. vol' = vol /\ final' = [of |-> vol.uid, ready |-> FALSE, current |-> FALSE]
      BY <1>6, <2>5 DEF HandleVolume, snapshotBeforeDelete
    <3>2. final'.of = vol.uid /\ ~final'.ready
      BY <3>1
    <3> QED
      BY <1>6, <2>2, <2>3, <3>1, <3>2 DEF HandleVolume
  <2> QED
    BY <2>4, <2>5
<1>7. CASE RemoveFinalizer
  BY <1>7 DEF RemoveFinalizer, Stop, Resting
<1>8. CASE Delete
  BY <1>8 DEF Delete
<1>9. CASE Adopt
  BY ZenonT(30), <1>9 DEF Adopt
<1>10. ASSUME NEW p \in DOMAIN pods, PodStarts(p) PROVE SnapInv'
  BY <1>10 DEF PodStarts
<1>11. ASSUME NEW p \in DOMAIN pods, PodStops(p) \/ PodGone(p) \/ Evict(p) PROVE SnapInv'
  BY <1>11 DEF PodStops, PodGone, Evict, Pods
<1>12. CASE LegacyChanges
  BY <1>12, AskedKeepsStep DEF LegacyChanges
<1>13. CASE JobEnds
  BY <1>13 DEF JobEnds
<1>14. CASE Write
  <2>1. vol # None /\ vol'.uid = vol.uid /\ ~Quiet /\ rec' = rec /\ gs' = gs /\ objects' = objects /\ pods' = pods
          /\ late' = late /\ again' = again
    BY <1>14 DEF Write, Claims
  <2>2. final # None => final' # None /\ final'.of = final.of
    BY ZenonT(30), <1>14 DEF Write, Snapshots
  <2>3. final = None => final' = None
    BY <1>14 DEF Write
  <2> QED
    BY <2>1, <2>2, <2>3
<1>15. CASE SnapshotTaken
  <2>1. final # None /\ final'.of = final.of /\ final'.current
    BY <1>15 DEF SnapshotTaken, Snapshots
  <2> QED
    BY <1>15, <2>1 DEF SnapshotTaken
<1>16. CASE FallsDue \/ ChangeClass
  BY <1>16 DEF FallsDue, ChangeClass
<1>17. CASE UNCHANGED vars
  BY <1>17
<1> QED
  BY ZenonT(30), <1>1, <1>2, <1>3, <1>4, <1>5, <1>6, <1>7, <1>8, <1>9, <1>10, <1>11, <1>12, <1>13, <1>14, <1>15,
     <1>16, <1>17 DEF Next, Live, finalize, Kubelet

----------------------------------------------------------------------------
(* The theorems.                                                           *)

Inv == Types /\ StepInv /\ WipeInv /\ ObjectInv /\ LegacyInv /\ PodInv /\ SnapInv

LEMMA InvInit == Init => Inv
<1> SUFFICES ASSUME Init PROVE Inv
  OBVIOUS
<1>1. Types
  BY TypesInit
<1>2. rec.at = "idle" /\ final = None /\ gs \in Servers /\ ~gs.deleting
  BY ZenonT(30) DEF Init, Resting, Servers
<1>3. StepInv /\ WipeInv /\ PodInv /\ SnapInv
  BY <1>2 DEF StepInv, WipeInv, PodInv, SnapInv, At, FinalSteps
<1>4. ObjectInv
  BY <1>2, NoneIsNone DEF ObjectInv, At, Init
<1>5. LegacyInv
  BY <1>2 DEF LegacyInv, LegacyLeft, At, Init, Workload
<1> QED
  BY <1>1, <1>3, <1>4, <1>5 DEF Inv

LEMMA InvNext == Inv /\ [Next]_vars => Inv'
BY TypesNext, StepNext, WipeNext, ObjectNext, LegacyNext, PodNext, SnapNext DEF Inv

LEMMA InvHolds == Spec => []Inv
<1>1. Init => Inv
  BY InvInit
<1>2. Inv /\ [Next]_vars => Inv'
  BY InvNext
<1> QED
  BY <1>1, <1>2, PTL DEF Spec

\* A volume changes only by ensurePVC, the agent, HandleVolume, the garbage
\* collector and the pods; only the finalizer's two last steps end one.
LEMMA VolumeEnds ==
  ASSUME Inv, [Next]_vars, vol # None, vol' = None
  PROVE  HandleVolume \/ RemoveFinalizer
<1> USE NoneIsNone DEF Inv, Types, vars, pvars, ghosts
<1>1. Live => vol' = vol \/ ensurePVC
  BY DEF Live, migrateLegacy, PatchLegacyPower, deleteLegacyStatefulSet, DeleteLegacyPod, Load, EnsureWorkload, reconcileSnapshots, UpdateStatus, AddFinalizer
<1>2. ~ensurePVC
  BY DEF ensurePVC
<1>3. ~FinalizeStart
  BY DEF FinalizeStart, AgentDelete, Claims
<1>4. RemoveObjects \/ CutShort => vol' = vol
  BY DEF RemoveObjects, CutShort
<1>5. \A p \in DOMAIN pods : PodStarts(p) \/ PodStops(p) \/ PodGone(p) \/ Evict(p) => vol' = vol
  BY DEF PodStarts, PodStops, PodGone, Evict
<1>6. LegacyChanges \/ JobEnds \/ SnapshotTaken \/ FallsDue \/ ChangeClass \/ Delete \/ Adopt => vol' = vol
  BY ZenonT(30) DEF LegacyChanges, JobEnds, SnapshotTaken, FallsDue, ChangeClass, Delete, Adopt
<1>7. ~Write
  BY DEF Write, Claims
<1> QED
  BY <1>1, <1>2, <1>3, <1>4, <1>5, <1>6, <1>7 DEF Next, finalize, Kubelet

\* For every number of cut reconciles, evictions, adoptions and class changes: a
\* volume goes only by the finalizer's decision and never under Retain, a volume
\* that is retained was not wiped unless the class changed, and a transfer's copy
\* takes its volume along (finalize, RetainPVC, ensurePVC).
THEOREM VolumeGoesByPolicy == Spec => VolumeByPolicy
<1>1. ASSUME Inv, [Next]_vars
      PROVE  [/\ vol # None /\ vol' = None => At("volume") /\ rec.policy # "Retain"
              /\ (At("update") /\ gs' = None /\ vol # None /\ ~changed) => vol.holds # "wiped"
              /\ (At("update") /\ gs # None /\ gs' = None /\ gs.copy) => vol = None]_vars
  <2> USE <1>1, NoneIsNone DEF Inv
  <2>1. vol # None /\ vol' = None => At("volume") /\ rec.policy # "Retain"
    <3> SUFFICES ASSUME vol # None, vol' = None PROVE At("volume") /\ rec.policy # "Retain"
      OBVIOUS
    <3>1. ~RemoveFinalizer
      BY DEF RemoveFinalizer, StepInv
    <3>2. HandleVolume
      BY <3>1, VolumeEnds
    <3> QED
      BY ZenonT(30), <3>2 DEF HandleVolume, RetainPVC, Types, Claims
  <2>2. (At("update") /\ gs' = None /\ vol # None /\ ~changed) => vol.holds # "wiped"
    BY DEF StepInv, WipeInv, At, FinalSteps
  <2>3. (At("update") /\ gs # None /\ gs' = None /\ gs.copy) => vol = None
    BY DEF StepInv, At, FinalSteps
  <2> QED
    BY <2>1, <2>2, <2>3
<1> QED
  BY <1>1, InvHolds, PTL DEF Spec, VolumeByPolicy

\* SnapshotThenDelete deletes a volume only with a final snapshot that is ready
\* and, unless an earlier server left one or a pod ran unseen, of this volume and
\* with all that was written to it (finalize, snapshotBeforeDelete).
THEOREM DeletedWithSnapshot == Spec => FinalSnapshot
<1>1. ASSUME Inv, [Next]_vars
      PROVE  [(At("volume") /\ rec.policy = "SnapshotThenDelete" /\ vol # None /\ vol' = None) =>
                final.ready /\ (again \/ final.of = vol.uid) /\ (again \/ late \/ final.current)]_vars
  <2> SUFFICES ASSUME At("volume"), rec.policy = "SnapshotThenDelete", vol # None, vol' = None
               PROVE  final.ready /\ (again \/ final.of = vol.uid) /\ (again \/ late \/ final.current)
    OBVIOUS
  <2>1. ~RemoveFinalizer
    BY DEF RemoveFinalizer, At
  <2>2. HandleVolume
    BY <1>1, <2>1, VolumeEnds
  <2>3. final # None /\ final.ready
    BY <1>1, <2>2 DEF HandleVolume, snapshotBeforeDelete
  <2>4. gs # None
    BY <1>1 DEF Inv, StepInv, At
  <2> QED
    BY <1>1, <2>3, <2>4 DEF Inv, SnapInv
<1> QED
  BY <1>1, InvHolds, PTL DEF Spec, FinalSnapshot

\* The upgrade from the 1.x layout takes down a pod only when no StatefulSet brings
\* it back and the server is to do what the Panel showed or asked for since
\* (migrateLegacy, adoptLegacyPower).
THEOREM UpgradeKeepsPower == Spec => UpgradeKeeps
<1>1. ASSUME Inv, [Next]_vars
      PROVE  [(At("oldpod") /\ pods["game"] = "up" /\ pods'["game"] = "going") =>
                "old" \notin objects /\ power.desired = rec.shown]_vars
  <2> SUFFICES ASSUME At("oldpod"), pods["game"] = "up", pods'["game"] = "going"
               PROVE  "old" \notin objects /\ power.desired = rec.shown
    OBVIOUS
  <2> USE <1>1 DEF Inv, Types, Pods, Workload, At
  <2>1. legacy /\ "old" \notin objects /\ (rec.seen # {} => power.desired = rec.shown)
    BY DEF LegacyInv
  <2>2. rec.seen # {}
    <3>1. CASE DeleteLegacyPod
      BY <3>1 DEF DeleteLegacyPod
    <3>2. ~migrateLegacy /\ ~PatchLegacyPower /\ ~deleteLegacyStatefulSet /\ ~Load /\ ~ensurePVC /\ ~EnsureWorkload /\ ~reconcileSnapshots
            /\ ~UpdateStatus /\ ~AddFinalizer
      BY DEF migrateLegacy, PatchLegacyPower, deleteLegacyStatefulSet, Load, ensurePVC, EnsureWorkload, reconcileSnapshots,
         UpdateStatus, AddFinalizer
    <3>3. ~finalize
      BY DEF finalize, FinalizeStart, RemoveObjects, HandleVolume, RemoveFinalizer
    <3>4. ASSUME NEW p \in DOMAIN pods PROVE ~PodStarts(p) /\ ~PodStops(p) /\ ~PodGone(p) /\ ~Evict(p)
      BY ZenonT(30), <2>1 DEF PodStarts, PodStops, PodGone, Evict
    <3>5. ~CutShort /\ ~LegacyChanges /\ ~JobEnds /\ ~Write /\ ~SnapshotTaken /\ ~FallsDue /\ ~ChangeClass /\ ~Delete /\ ~Adopt
      BY ZenonT(30) DEF CutShort, LegacyChanges, JobEnds, Write, SnapshotTaken, FallsDue, ChangeClass, Delete, Adopt, pvars
    <3>6. ~UNCHANGED vars
      BY DEF vars, pvars
    <3> QED
      BY <3>1, <3>2, <3>3, <3>4, <3>5, <3>6 DEF Next, Live, Kubelet
  <2> QED
    BY <2>1, <2>2
<1> QED
  BY <1>1, InvHolds, PTL DEF Spec, UpgradeKeeps

\* What the operator created for a server goes before the server does: with the
\* server gone nothing of it is left, a 1.x StatefulSet included (finalize).
THEOREM NothingLeftBehind == Spec => [](gs = None => objects = {})
<1>1. Inv => (gs = None => objects = {})
  BY DEF Inv, ObjectInv
<1> QED
  BY <1>1, InvHolds, PTL

----------------------------------------------------------------------------
(* Scheduled snapshots.                                                    *)

INSTANCE FiniteSetTheorems

\* Snapshots have the numbers they were taken under.
SchedInv == taken \in Nat /\ (\A n \in sched : n \in Nat /\ n <= taken) /\ NewestKept

\* pruneSnapshots keeps the newest snapshot of a list.
LEMMA PruneKeepsNewest ==
  ASSUME NEW s, NEW n \in s, n \in Nat, \A m \in s : m \in Nat /\ m <= n
  PROVE  n \in pruneSnapshots(s)
<1>1. \A m \in s : ~(m > n)
  OBVIOUS
<1>2. Cardinality({m \in s : m > n}) = 0
  <2>1. {m \in s : m > n} = {}
    BY <1>1, ZenonT(30)
  <2> QED
    BY <2>1, FS_EmptySet
<1> QED
  BY <1>2, VolumeAssumption DEF pruneSnapshots

\* The newest scheduled snapshot is kept, for every number to keep but zero, also
\* when a lost status write has it taken again (reconcileSnapshots).
THEOREM NewestSnapshotKept == Spec => []NewestKept
<1>1. Init => SchedInv
  BY DEF Init, SchedInv, NewestKept
<1>2. SchedInv /\ [Next]_vars => SchedInv'
  <2> SUFFICES ASSUME SchedInv, [Next]_vars PROVE SchedInv'
    OBVIOUS
  <2>1. CASE UNCHANGED <<sched, taken>>
    BY <2>1 DEF SchedInv, NewestKept
  <2>2. CASE reconcileSnapshots /\ due
    <3>1. PICK listed \in {sched, sched \cup {taken'}} :
            sched' = (sched \cup {taken'}) \ (listed \ pruneSnapshots(listed))
      BY <2>2 DEF reconcileSnapshots
    <3>2. taken' = taken + 1 /\ taken' \in Nat
      BY <2>2 DEF reconcileSnapshots, SchedInv
    <3>3. \A m \in sched \cup {taken'} : m \in Nat /\ m <= taken'
      BY <3>2 DEF SchedInv
    <3>4. taken' \in listed => taken' \in pruneSnapshots(listed)
      BY ZenonT(30), <3>2, <3>3, PruneKeepsNewest
    <3> QED
      BY <3>1, <3>2, <3>3, <3>4 DEF SchedInv, NewestKept
  <2>3. reconcileSnapshots => due \/ UNCHANGED <<sched, taken>>
    BY DEF reconcileSnapshots
  <2>4. Live => reconcileSnapshots \/ UNCHANGED <<sched, taken>>
    BY DEF Live, migrateLegacy, PatchLegacyPower, deleteLegacyStatefulSet, DeleteLegacyPod, Load, ensurePVC, EnsureWorkload, UpdateStatus, AddFinalizer
  <2>5. finalize \/ CutShort => UNCHANGED <<sched, taken>>
    BY DEF finalize, FinalizeStart, RemoveObjects, HandleVolume, RemoveFinalizer, CutShort
  <2>6. \A p \in DOMAIN pods : PodStarts(p) \/ PodStops(p) \/ PodGone(p) \/ Evict(p) => UNCHANGED <<sched, taken>>
    BY DEF PodStarts, PodStops, PodGone, Evict
  <2>7. LegacyChanges \/ JobEnds \/ Write \/ SnapshotTaken \/ FallsDue \/ ChangeClass \/ Delete \/ Adopt => UNCHANGED <<sched, taken>>
    BY ZenonT(30) DEF LegacyChanges, JobEnds, Write, SnapshotTaken, FallsDue, ChangeClass, Delete, Adopt
  <2>8. UNCHANGED vars => UNCHANGED <<sched, taken>>
    BY DEF vars
  <2> QED
    BY <2>1, <2>2, <2>3, <2>4, <2>5, <2>6, <2>7, <2>8 DEF Next, Kubelet
<1>3. SchedInv => NewestKept
  BY DEF SchedInv
<1> QED
  BY <1>1, <1>2, <1>3, PTL DEF Spec
=============================================================================

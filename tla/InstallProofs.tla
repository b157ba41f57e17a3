--------------------------- MODULE InstallProofs ---------------------------
(***************************************************************************)
(* Proofs about Install: the operator loses sight of an install Job only   *)
(* by finishing its generation on a cache that lags, so that no other two  *)
(* Jobs are unfinished at once; with Jobs read from the API server it      *)
(* loses none.  And no report is dropped in place of an older one.  For    *)
(* every number of generations, restarts and faults.                       *)
(***************************************************************************)
EXTENDS Install, TLAPS

\* What a reconcile in progress knows: only the operator writes the requested and
\* the finished generation, and a prepared generation is never a future one.
OpView ==
  op.pc # "idle" =>
    /\ op.gen \in Gens
    /\ op.gen <= specGen
    /\ st.requested = op.old.requested
    /\ st.observed = op.old.observed
    /\ op.old.prepared <= op.gen
    /\ op.old.prepared <= st.prepared
    /\ op.new.prepared \in {0, op.old.prepared}

\* Until it asks for an install, a reconcile only forgets the request it found.
OpForgets ==
  op.pc \in {"read", "install"} =>
    /\ op.new.requested \in {0, op.old.requested}
    /\ op.new.observed = op.old.observed
    /\ op.pc = "read" => op.new = op.old

\* The gateway never prepares a generation beyond the one it sees.
PreparedSeen == cache.gen <= specGen /\ st.prepared <= Seen.gen

\* A Job that has not ended and is not lost: the operator has to know of it.
Held(g) == Unfinished(g) /\ g \notin lost

HeldTracked ==
  \A g \in Gens : Held(g) => st.requested = g /\ st.observed < g

\* Such a Job was prepared, and no reconcile is about to forget it.
JobPrepared ==
  \A g \in Gens : Held(g) => g <= st.prepared

OpTracksJob ==
  \A g \in Gens : op.pc # "idle" /\ Held(g) =>
    op.new.requested = g /\ op.new.observed < g /\ g <= op.new.prepared

JobInv ==
  /\ TypeOK
  /\ OpView
  /\ OpForgets
  /\ PreparedSeen
  /\ HeldTracked
  /\ JobPrepared
  /\ OpTracksJob

\* The run that holds the lock is the last one accepted.
RunInv ==
  /\ run.phase # "idle" => run.id = runs
  /\ \A r \in queued : r.id <= runs
  /\ NewerReportKept

-----------------------------------------------------------------------------
(* Type correctness.                                                       *)

\* The generations, and 0 for "none yet", are numbers.
LEMMA GenFacts ==
  /\ Gens \subseteq Gen0
  /\ Gen0 \subseteq Nat
  /\ 0 \in Gen0
  /\ 1 \in Gens
BY InstallAssumption DEF InstallAssumption, Gens, Gen0

\* A merge patch (updateStatus) gives a status.
LEMMA MergeType ==
  ASSUME NEW o \in Status, NEW n \in Status, NEW c \in Status
  PROVE  Merge(o, n, c) \in Status
BY DEF Merge, Changed, Status

\* What reconcileProcess makes of the status for a fresh agent is a status.
LEMMA FreshType ==
  ASSUME NEW s \in Status, NEW g \in Nat, NEW id \in Nat
  PROVE  FreshStatus(s, g, id) \in Status
BY GenFacts DEF FreshStatus, Status, Results

\* An idle operator has a type.
LEMMA NoOpType == NoOp \in OpType /\ NoStatus \in Status
BY GenFacts DEF NoOp, NoStatus, OpType, Status, Results

\* A reconcile that ends with a status keeps the operator's type.
LEMMA EndReconcileType ==
  ASSUME op \in OpType, NEW new \in Status, EndReconcile(new)
  PROVE  op' \in OpType
BY ZenonT(30), NoOpType DEF EndReconcile, OpType

\* deleteInstallJob keeps the types of the Jobs and their pods.
LEMMA DeleteJobType ==
  ASSUME TypeOK, NEW g, DeleteJob(g)
  PROVE  /\ job' \in [Gens -> JobObjects \cup {"exited"}]
         /\ lost' \subseteq Gens
         /\ g \in Gens => orphans' \subseteq Gens
<1>1. "none" \in JobObjects
  BY DEF JobObjects
<1> QED BY ZenonT(30), <1>1 DEF DeleteJob, TypeOK

\* Recording the request for the generation in hand gives a status.
LEMMA RequestedType ==
  ASSUME op \in OpType
  PROVE  Requested(op.new) \in Status
BY DEF Requested, OpType, Status, Results

\* A run that ends leaves the agent's state well typed.
LEMMA EndRunType ==
  ASSUME TypeOK, NEW o \in Outcomes, EndRun(o)
  PROVE  /\ mark' \in Nat
         /\ queued' \subseteq Reports
         /\ run' \in [phase : {"idle", "locked", "waiting"}, id : Nat, gen : Gen0]
         /\ run'.phase = "idle"
         /\ agent' = agent /\ runs' = runs /\ sent' = sent
BY GenFacts DEF EndRun, TypeOK, Reports, NoRun

\* The initial values have their types.
LEMMA TypeInit == Init => TypeOK
<1> SUFFICES ASSUME Init PROVE TypeOK
  OBVIOUS
<1>1. st \in Status /\ op \in OpType
  BY NoOpType DEF Init
<1>2. agent \in [up : BOOLEAN, id : Nat, attached : BOOLEAN]
  BY InstallAssumption DEF InstallAssumption, Init
<1>3. run \in [phase : {"idle", "locked", "waiting"}, id : Nat, gen : Gen0] /\ run.phase = "idle"
  BY GenFacts DEF Init, NoRun
<1>4. cache \in [gen : Gens, result : Results] /\ specGen \in Gens /\ reported \in Gen0
  BY GenFacts DEF Init, Results
<1>5. /\ job \in [Gens -> JobObjects \cup {"exited"}]
      /\ jobCache \in [Gens -> JobObjects]
      /\ exitFile \in [Gens -> {"none", "zero", "nonzero"}]
  BY DEF Init, JobObjects
<1>6. /\ expired \in BOOLEAN /\ mark \in Nat /\ runs \in Nat /\ faults \in Nat
      /\ queued \subseteq Reports /\ sent \subseteq Reports /\ orphans \subseteq Gens
      /\ lost \subseteq Gens
  BY DEF Init
<1> QED BY <1>1, <1>2, <1>3, <1>4, <1>5, <1>6 DEF TypeOK

\* Every step of the operator, the agent, the gateway, the Panel and the pods keeps
\* the types.
LEMMA TypeStep == TypeOK /\ [Next]_vars => TypeOK'
<1> SUFFICES ASSUME TypeOK, [Next]_vars PROVE TypeOK'
  OBVIOUS
<1> USE GenFacts
<1>1. CASE RequestInstall
  BY <1>1, InstallAssumption DEF InstallAssumption, RequestInstall, TypeOK, Gens, agentVars, jobVars
<1>2. CASE PrepareTimeoutPasses
  BY <1>2 DEF PrepareTimeoutPasses, TypeOK, agentVars, jobVars
<1>3. CASE CacheSync
  BY <1>3 DEF CacheSync, TypeOK, Status, agentVars, jobVars
<1>8. CASE \E g \in Gens : JobCacheSync(g)
  <2>1. PICK g \in Gens : JobCacheSync(g)
    BY <1>8
  <2>2. JobObject(g) \in JobObjects
    BY DEF JobObject, JobObjects, TypeOK
  <2>3. jobCache' \in [Gens -> JobObjects]
    BY ZenonT(30), <2>1, <2>2 DEF JobCacheSync, TypeOK
  <2> QED BY ZenonT(30), <2>1, <2>3 DEF JobCacheSync, TypeOK, crVars, agentVars
<1>4. CASE Operator
  <2> USE DEF crVars, agentVars, jobVars
  <2>0. op \in OpType /\ op.old \in Status /\ op.new \in Status /\ op.gen \in Nat
    BY ZenonT(30) DEF TypeOK, OpType
  <2>1. CASE OpRead
    BY <2>1 DEF OpRead, TypeOK, OpType
  <2>2. CASE OpFreshAgent
    <3> DEFINE new == FreshStatus(op.old, op.gen, agent.id)
    <3>1. new \in Status
      BY ZenonT(30), <2>0, FreshType DEF TypeOK
    <3>2. op' \in OpType
      <4>1. CASE op' = [op EXCEPT !.pc = "install", !.new = new]
        BY ZenonT(30), <4>1, <2>0, <3>1 DEF OpType
      <4>2. CASE EndReconcile(new)
        BY <4>2, <2>0, <3>1, EndReconcileType
      <4> QED BY <2>2, <4>1, <4>2 DEF OpFreshAgent
    <3>3. job' \in [Gens -> JobObjects \cup {"exited"}]
          /\ orphans' \subseteq Gens /\ lost' \subseteq Gens
      <4>1. op.old.requested # 0 => op.old.requested \in Gens
        BY <2>0 DEF Status, Gen0, Gens
      <4> QED BY <2>2, <4>1, DeleteJobType DEF OpFreshAgent, TypeOK
    <3> QED BY <2>2, <3>2, <3>3 DEF OpFreshAgent, TypeOK
  <2>3. CASE InstallIdle
    BY <2>3, <2>0, EndReconcileType DEF InstallIdle, TypeOK
  <2>4. CASE InstallSupersede
    <3>1. op' \in OpType
      BY ZenonT(30), <2>4, <2>0 DEF InstallSupersede, OpType, Status
    <3>2. job' \in [Gens -> JobObjects \cup {"exited"}]
          /\ orphans' \subseteq Gens /\ lost' \subseteq Gens
      <4>1. op.new.requested # 0 => op.new.requested \in Gens
        BY <2>0 DEF Status, Gen0, Gens
      <4> QED BY <2>4, <4>1, DeleteJobType DEF InstallSupersede, TypeOK
    <3> QED BY <2>4, <3>1, <3>2 DEF InstallSupersede, TypeOK
  <2>5. CASE InstallRequest
    <3>1. op' \in OpType
      BY <2>5, <2>0, RequestedType, EndReconcileType DEF InstallRequest
    <3>2. faults' \in Nat
      BY <2>5 DEF InstallRequest, Fault, TypeOK
    <3> QED BY <2>5, <3>1, <3>2 DEF InstallRequest, Accept, TypeOK
  <2>6. CASE InstallRequestRefused
    BY <2>6, <2>0, EndReconcileType DEF InstallRequestRefused, TypeOK
  <2>7. CASE InstallAborts
    BY <2>7, <2>0, EndReconcileType DEF InstallAborts, Fault, TypeOK
  <2>8. CASE InstallAdopt
    BY <2>8, <2>0, RequestedType, EndReconcileType DEF InstallAdopt, TypeOK
  <2>9. CASE InstallAwaitPrepared
    <3>1. [op.new EXCEPT !.result = "Failed", !.observed = op.gen] \in Status
      BY <2>0 DEF OpType, Status, Results
    <3>2. op' \in OpType
      BY <2>9, <2>0, <3>1, EndReconcileType DEF InstallAwaitPrepared
    <3> QED BY <2>9, <3>2 DEF InstallAwaitPrepared, TypeOK
  <2>10. CASE InstallCreateJob
    <3>1. op' \in OpType
      BY <2>10, <2>0, EndReconcileType DEF InstallCreateJob
    <3>2. job' \in [Gens -> JobObjects \cup {"exited"}]
      <4>1. "running" \in JobObjects
        BY DEF JobObjects
      <4>2. job' = job \/ job' = [job EXCEPT ![op.gen] = "running"]
        BY <2>10 DEF InstallCreateJob
      <4> QED BY ZenonT(30), <4>1, <4>2 DEF TypeOK
    <3>3. exitFile' \in [Gens -> {"none", "zero", "nonzero"}]
      BY ZenonT(30), <2>10 DEF InstallCreateJob, TypeOK
    <3> QED BY ZenonT(30), <2>10, <3>1, <3>2, <3>3 DEF InstallCreateJob, TypeOK
  <2>11. CASE InstallCheckJob
    <3> DEFINE view   == JobView(op.gen)
               failed == view = "failed" /\ op.new.result = "Running"
               s      == IF failed THEN [op.new EXCEPT !.result = "Failed"] ELSE op.new
               final  == s.result \in {"Succeeded", "Failed"} /\ view # "running"
               new    == IF final THEN [s EXCEPT !.observed = op.gen] ELSE s
    <3>1. s \in Status
      BY <2>0 DEF Status, Results
    <3>2. new \in Status
      BY <2>0, <3>1 DEF Status, OpType
    <3>3. /\ EndReconcile(new)
          /\ \/ DeleteJob(op.gen)
             \/ lost' \subseteq lost \cup {op.gen} /\ UNCHANGED <<job, orphans>>
          /\ UNCHANGED <<crVars, agentVars, jobCache, exitFile>> /\ (Fault \/ UNCHANGED faults)
      BY <2>11 DEF InstallCheckJob
    <3>4. op.gen \in Gens
      BY <2>11, <2>0 DEF InstallCheckJob, InstallPrepared, InstallRequested, InstallOpen, Status, Gen0, Gens, OpType
    <3>5. op' \in OpType
      BY <3>2, <3>3, <2>0, EndReconcileType
    <3>6. /\ job' \in [Gens -> JobObjects \cup {"exited"}]
          /\ lost' \subseteq Gens /\ orphans' \subseteq Gens
      <4>1. CASE DeleteJob(op.gen)
        BY <4>1, <3>4, DeleteJobType
      <4>2. CASE lost' \subseteq lost \cup {op.gen} /\ UNCHANGED <<job, orphans>>
        BY ZenonT(30), <4>2, <3>4 DEF TypeOK
      <4> QED BY <3>3, <4>1, <4>2
    <3>7. faults' \in Nat
      BY <3>3 DEF Fault, TypeOK
    <3> HIDE DEF new, s, final, failed, view
    <3> QED BY ZenonT(30), <3>3, <3>5, <3>6, <3>7 DEF TypeOK
  <2>12. CASE OpPatch
    <3>1. st' \in Status
      BY <2>12, <2>0, MergeType DEF OpPatch, TypeOK
    <3> QED BY ZenonT(30), <2>12, <3>1, NoOpType DEF OpPatch, TypeOK
  <2>13. CASE OpPatchLost
    BY <2>13, NoOpType DEF OpPatchLost, Fault, TypeOK
  <2>14. CASE OpFreshAgentFails
    <3>1. [op.old EXCEPT !.agent = agent.id] \in Status
      BY <2>0 DEF Status, TypeOK
    <3>2. op' \in OpType
      BY <2>14, <2>0, <3>1, EndReconcileType DEF OpFreshAgentFails
    <3> QED BY <2>14, <3>2 DEF OpFreshAgentFails, Fault, TypeOK
  <2> QED BY <1>4, <2>1, <2>2, <2>3, <2>4, <2>5, <2>6, <2>7, <2>8, <2>9, <2>10,
             <2>11, <2>12, <2>13, <2>14 DEF Operator
<1>5. CASE Agent
  <2> USE DEF crVars, jobVars
  <2>0. Seen.gen \in Gens /\ Seen.gen \in Gen0
    BY DEF Seen, TypeOK
  <2>1. CASE AgentPrepared
    BY <2>1, <2>0 DEF AgentPrepared, TypeOK, Status, Results
  <2>2. CASE AgentPreparedLost
    <3>1. "failed" \in Outcomes
      BY DEF Outcomes
    <3>2. st' \in Status
      BY <2>2, <2>0, ZenonT(60) DEF AgentPreparedLost, TypeOK, Status, Results
    <3> QED BY <2>2, <3>1, <3>2, EndRunType DEF AgentPreparedLost, Fault, TypeOK
  <2>3. CASE AgentReadsExit
    BY <2>3, EndRunType DEF AgentReadsExit, TypeOK, Outcomes
  <2>4. CASE AgentPolls
    BY <2>4, EndRunType DEF AgentPolls, TypeOK, Outcomes
  <2>5. CASE \E r \in queued : FilterReport(r)
    BY <2>5 DEF FilterReport, TypeOK
  <2>6. CASE \E r \in sent : RecordResult(r)
    <3>1. PICK r \in sent : RecordResult(r)
      BY <2>6
    <3>2. st' = [st EXCEPT !.result = "Succeeded"] \/ st' = [st EXCEPT !.result = "Failed"]
      BY <3>1 DEF RecordResult
    <3>3. st' \in Status
      BY <3>2, ZenonT(60) DEF TypeOK, Status, Results
    <3> QED BY <3>1, <3>3, <2>0 DEF RecordResult, TypeOK
  <2>7. CASE \E r \in sent : RecordResultLost(r)
    BY <2>7 DEF RecordResultLost, Fault, TypeOK
  <2>8. CASE AgentStops
    BY ZenonT(30), <2>8 DEF AgentStops, TypeOK, NoRun
  <2>9. CASE AgentStarts
    BY <2>9, InstallAssumption DEF InstallAssumption, AgentStarts, TypeOK
  <2>10. CASE ShimAttaches
    BY ZenonT(30), <2>10 DEF ShimAttaches, TypeOK
  <2> QED BY <1>5, <2>1, <2>2, <2>3, <2>4, <2>5, <2>6, <2>7, <2>8, <2>9, <2>10 DEF Agent
<1>6. CASE Pod
  <2> USE DEF crVars, agentVars
  <2>1. PICK g \in Gens :
          \/ \E code \in {"zero", "nonzero"} : ScriptExits(g, code) \/ OrphanExits(g, code)
          \/ JobCompletes(g) \/ JobFails(g) \/ OrphanTerminated(g)
    BY <1>6 DEF Pod, Codes
  <2>2. CASE \E code \in {"zero", "nonzero"} : ScriptExits(g, code)
    BY <2>2 DEF ScriptExits, TypeOK, JobObjects
  <2>3. CASE \E code \in {"zero", "nonzero"} : OrphanExits(g, code)
    BY <2>3 DEF OrphanExits, TypeOK
  <2>4. CASE JobCompletes(g)
    BY <2>4 DEF JobCompletes, TypeOK, JobObjects
  <2>5. CASE JobFails(g)
    BY <2>5 DEF JobFails, TypeOK, JobObjects
  <2>6. CASE OrphanTerminated(g)
    BY <2>6 DEF OrphanTerminated, TypeOK
  <2> QED BY <2>1, <2>2, <2>3, <2>4, <2>5, <2>6
<1>7. CASE UNCHANGED vars
  BY <1>7 DEF vars, crVars, agentVars, jobVars, TypeOK, Unfinished
<1> QED BY <1>1, <1>2, <1>3, <1>4, <1>5, <1>6, <1>7, <1>8 DEF Next

\* Every variable keeps its type: a status never names a generation the Panel did
\* not ask for, and a run that waits for a script knows its generation.
THEOREM TypeCorrect == Spec => []TypeOK
BY TypeInit, TypeStep, PTL DEF Spec

-----------------------------------------------------------------------------
(* The operator keeps track of its Job.                                    *)

\* Generations are numbers, so they can be compared.
LEMMA JobNumbers ==
  ASSUME TypeOK
  PROVE  /\ specGen \in Nat /\ cache.gen \in Nat /\ Seen.gen \in Nat /\ op.gen \in Nat
         /\ st.requested \in Nat /\ st.observed \in Nat /\ st.prepared \in Nat
         /\ op.old.requested \in Nat /\ op.old.observed \in Nat /\ op.old.prepared \in Nat
         /\ op.new.requested \in Nat /\ op.new.observed \in Nat /\ op.new.prepared \in Nat
         /\ \A g \in Gens : g \in Nat /\ g # 0
<1>1. st \in Status /\ op.old \in Status /\ op.new \in Status
  BY DEF TypeOK, OpType
<1>2. specGen \in Nat /\ cache.gen \in Nat /\ op.gen \in Nat
  BY ZenonT(30), GenFacts DEF TypeOK, OpType
<1>3. \A s \in Status : s.requested \in Nat /\ s.observed \in Nat /\ s.prepared \in Nat
  BY ZenonT(30), GenFacts DEF Status
<1>4. \A g \in Gens : g \in Nat /\ g # 0
  BY InstallAssumption DEF InstallAssumption, Gens
<1> QED BY <1>1, <1>2, <1>3, <1>4 DEF Seen

\* A step that leaves the reconcile and the status alone, and starts no Job, keeps
\* the invariant.
LEMMA JobFrame ==
  ASSUME JobInv, TypeOK', UNCHANGED <<crVars, op>>,
         \A g \in Gens : Held(g)' => Held(g)
  PROVE  JobInv'
<1>1. OpView' /\ OpForgets' /\ PreparedSeen'
  BY DEF JobInv, OpView, OpForgets, PreparedSeen, Seen, crVars
<1>2. HeldTracked' /\ JobPrepared' /\ OpTracksJob'
  BY DEF JobInv, HeldTracked, JobPrepared, OpTracksJob, crVars
<1> QED BY <1>1, <1>2 DEF JobInv

\* A reconcile that has no unfinished Job may end with any status it likes, as long
\* as it has not invented a prepared generation.
LEMMA EndNoJob ==
  ASSUME JobInv, TypeOK', UNCHANGED crVars, op.pc # "idle",
         NEW new, EndReconcile(new), new.prepared \in {0, op.old.prepared},
         \A g \in Gens : ~Held(g)'
  PROVE  JobInv'
<1>1. \/ op'.pc = "idle"
      \/ /\ op'.pc = "patch" /\ op'.gen = op.gen /\ op'.old = op.old /\ op'.new = new
  BY DEF EndReconcile, NoOp, JobInv, TypeOK, OpType
<1>2. OpView'
  BY <1>1 DEF JobInv, OpView, crVars
<1>3. OpForgets'
  BY <1>1 DEF OpForgets
<1> QED BY <1>2, <1>3 DEF JobInv, PreparedSeen, Seen, HeldTracked, JobPrepared, OpTracksJob, crVars

\* A reconcile that keeps the three generations it holds may end whatever Job runs.
LEMMA EndSameJob ==
  ASSUME JobInv, TypeOK', UNCHANGED crVars, op.pc # "idle",
         NEW new, EndReconcile(new),
         new.prepared = op.new.prepared, new.requested = op.new.requested,
         new.observed = op.new.observed,
         \A g \in Gens : Held(g)' => Held(g)
  PROVE  JobInv'
<1>1. \/ op'.pc = "idle"
      \/ /\ op'.pc = "patch" /\ op'.gen = op.gen /\ op'.old = op.old /\ op'.new = new
  BY DEF EndReconcile, NoOp, JobInv, TypeOK, OpType
<1>2. OpView'
  BY <1>1 DEF JobInv, OpView, crVars
<1>3. OpForgets'
  BY <1>1 DEF OpForgets
<1>4. OpTracksJob'
  BY <1>1 DEF JobInv, OpTracksJob
<1> QED BY <1>2, <1>3, <1>4 DEF JobInv, PreparedSeen, Seen, HeldTracked, JobPrepared, crVars

\* Deleting the one Job the reconcile can have leaves none unfinished.
LEMMA DeletedNone ==
  ASSUME JobInv, op.pc # "idle", NEW r, DeleteJob(r), r = op.new.requested
  PROVE  \A g \in Gens : ~Held(g)'
BY DEF JobInv, OpTracksJob, DeleteJob, Held, Unfinished, TypeOK

\* The server was just created: no Job, no reconcile.
LEMMA JobInit == Init => JobInv
<1> SUFFICES ASSUME Init PROVE JobInv
  OBVIOUS
<1>1. TypeOK
  BY TypeInit
<1>2. op.pc = "idle" /\ st.prepared = 0 /\ cache.gen = 1 /\ specGen = 1
  BY DEF Init, NoOp, NoStatus
<1>3. \A g \in Gens : ~Held(g)
  BY DEF Init, Held, Unfinished
<1> QED BY <1>1, <1>2, <1>3
        DEF JobInv, OpView, OpForgets, PreparedSeen, Seen, HeldTracked, JobPrepared, OpTracksJob

\* A reconcile creates its Job only where it knows of no other, and after the
\* generation was prepared.
LEMMA CreateKeeps ==
  ASSUME JobInv, TypeOK', InstallCreateJob
  PROVE  JobInv'
<1> USE DEF agentVars, jobVars
<1>0. TypeOK /\ op \in OpType
  BY DEF JobInv, TypeOK
<1>1. op.pc \in {"read", "install"} /\ UNCHANGED crVars /\ EndReconcile(op.new)
  BY DEF InstallCreateJob, InstallPrepared, InstallRequested, InstallOpen, AtInstall
<1>2. op.new.requested = op.gen /\ op.gen > op.new.observed /\ op.new.prepared = op.gen
  BY DEF InstallCreateJob, InstallPrepared, InstallRequested, InstallOpen
<1>3. /\ op.gen \in Gens /\ st.requested = op.gen /\ st.observed < op.gen
      /\ op.gen <= st.prepared
  BY <1>1, <1>2, <1>0, JobNumbers DEF JobInv, OpView, OpForgets
<1>4. \A g \in Gens : Held(g)' => g = op.gen
  \* The Job that is there already, hidden by the cache, is of this generation.
  <2>1. \A g \in Gens : Held(g) => g = op.gen
    BY <1>1, <1>2 DEF JobInv, OpTracksJob
  <2>2. \A g \in Gens : g # op.gen => (Held(g)' <=> Held(g))
    <3>1. \A g \in Gens : g # op.gen => job'[g] = job[g]
      BY <1>0 DEF InstallCreateJob, TypeOK
    <3>2. lost' = lost
      BY DEF InstallCreateJob
    <3> QED
      BY <3>1, <3>2 DEF Held, Unfinished
  <2> QED
    BY <2>1, <2>2
<1>5. \/ op'.pc = "idle"
      \/ /\ op'.pc = "patch" /\ op'.gen = op.gen /\ op'.old = op.old /\ op'.new = op.new
  BY <1>1, <1>0 DEF EndReconcile, NoOp, OpType
<1>6. OpView' /\ OpForgets'
  BY ZenonT(30), <1>1, <1>5 DEF JobInv, OpView, OpForgets, crVars
<1>7. HeldTracked' /\ JobPrepared' /\ OpTracksJob'
  <2>1. HeldTracked'
    BY <1>1, <1>3, <1>4 DEF HeldTracked, crVars
  <2>2. JobPrepared'
    BY <1>1, <1>3, <1>4 DEF JobPrepared, crVars
  <2>3. OpTracksJob'
    BY <1>2, <1>3, <1>4, <1>5, <1>0, JobNumbers DEF OpTracksJob
  <2> QED
    BY <2>1, <2>2, <2>3
<1> QED BY <1>1, <1>6, <1>7 DEF JobInv, PreparedSeen, Seen, crVars

\* The patch at the end of a reconcile writes what the reconcile changed over a
\* status in which only the prepared generation can have moved.
LEMMA PatchKeeps ==
  ASSUME JobInv, TypeOK', OpPatch
  PROVE  JobInv'
<1> USE DEF agentVars, jobVars
<1>0. TypeOK /\ op \in OpType
  BY DEF JobInv, TypeOK
<1>1. /\ op.pc = "patch" /\ op'.pc = "idle" /\ cache' = cache /\ specGen' = specGen
      /\ st' = Merge(op.old, op.new, st)
      /\ \A g \in Gens : Held(g)' <=> Held(g)
  BY ZenonT(30) DEF OpPatch, NoOp, Held, Unfinished
<1>2. /\ st'.requested = op.new.requested /\ st'.observed = op.new.observed
      /\ st'.prepared \in {st.prepared, 0}
      /\ op.new.prepared <= st'.prepared
  <2>1. /\ st.requested = op.old.requested /\ st.observed = op.old.observed
        /\ op.old.prepared <= st.prepared /\ op.new.prepared \in {0, op.old.prepared}
    BY <1>1 DEF JobInv, OpView
  <2>2. /\ st'.requested = Changed(op.old.requested, op.new.requested, st.requested)
        /\ st'.observed = Changed(op.old.observed, op.new.observed, st.observed)
        /\ st'.prepared = Changed(op.old.prepared, op.new.prepared, st.prepared)
    BY <1>1 DEF Merge
  <2> QED
    BY <2>1, <2>2, <1>0, JobNumbers DEF Changed
<1>3. HeldTracked' /\ JobPrepared' /\ OpTracksJob'
  BY <1>1, <1>2, <1>0, JobNumbers DEF JobInv, HeldTracked, JobPrepared, OpTracksJob
<1>4. PreparedSeen'
  BY <1>1, <1>2, <1>0, JobNumbers DEF JobInv, PreparedSeen, Seen
<1> QED BY ZenonT(30), <1>1, <1>3, <1>4 DEF JobInv, OpView, OpForgets

\* The steps of a reconcile keep the invariant.
LEMMA JobOperator == JobInv /\ TypeOK' /\ Operator => JobInv'
<1> SUFFICES ASSUME JobInv, TypeOK', Operator PROVE JobInv'
  OBVIOUS
<1> USE DEF agentVars, jobVars
<1>0. TypeOK /\ op \in OpType
  BY DEF JobInv, TypeOK
<1>a. AtInstall => op.pc \in {"read", "install"}
  BY DEF AtInstall
<1>b. op.new.prepared \in {0, op.old.prepared} \/ op.pc = "idle"
  BY DEF JobInv, OpView
<1>1. CASE OpRead
  <2>1. op'.pc = "read" /\ op'.gen = specGen /\ op'.old = st /\ op'.new = st
    BY <1>1 DEF OpRead
  <2>2. OpView'
    <3>1. UNCHANGED <<specGen, st, cache>>
      BY <1>1 DEF OpRead, crVars
    <3>2. specGen \in Gens
      BY <1>0 DEF TypeOK
    <3>3. st.prepared <= specGen
      BY <1>0, JobNumbers DEF JobInv, PreparedSeen, Seen
    <3> QED
      BY <2>1, <3>1, <3>2, <3>3, <1>0, JobNumbers DEF OpView
  <2>3. OpForgets'
    BY <2>1 DEF OpForgets
  <2>4. OpTracksJob'
    BY <1>1, <2>1 DEF OpRead, JobInv, HeldTracked, JobPrepared, OpTracksJob, Held, Unfinished
  <2>5. PreparedSeen' /\ HeldTracked' /\ JobPrepared'
    BY <1>1 DEF OpRead, JobInv, PreparedSeen, Seen, HeldTracked, JobPrepared, Held, Unfinished, crVars
  <2> QED BY <2>2, <2>3, <2>4, <2>5 DEF JobInv
<1>2. CASE OpFreshAgent
  <2> DEFINE new == FreshStatus(op.old, op.gen, agent.id)
             wanted == op.gen > op.old.observed /\ op.old.requested # 0
  <2>1. op.pc = "read" /\ op.new = op.old /\ UNCHANGED crVars
    BY <1>2 DEF OpFreshAgent, JobInv, OpForgets
  <2>2. op.old \in Status
    BY <1>0 DEF OpType
  <2>3. CASE wanted
    <3>1. \A g \in Gens : ~Held(g)'
      BY <1>2, <2>1, <2>3, DeletedNone DEF OpFreshAgent
    <3>2. new.prepared = 0 /\ new.requested = 0 /\ new.observed = op.old.observed
      BY <2>2, <2>3 DEF FreshStatus, Status
    <3>3. CASE EndReconcile(new)
      BY <3>1, <3>2, <3>3, <2>1, EndNoJob
    <3>4. CASE op' = [op EXCEPT !.pc = "install", !.new = new]
      <4>1. op'.pc = "install" /\ op'.gen = op.gen /\ op'.old = op.old /\ op'.new = new
        BY <3>4, <1>0 DEF OpType
      <4> HIDE DEF new, wanted
      <4>2. OpView' /\ OpForgets'
        BY <4>1, <3>2, <2>1 DEF JobInv, OpView, OpForgets, crVars
      <4> QED BY <3>1, <4>2, <2>1
              DEF JobInv, PreparedSeen, Seen, HeldTracked, JobPrepared, OpTracksJob, crVars
    <3> QED BY <1>2, <3>3, <3>4 DEF OpFreshAgent
  <2>4. CASE ~wanted
    <3>1. new.prepared = op.old.prepared /\ new.requested = op.old.requested
          /\ new.observed = op.old.observed
      BY <2>2, <2>4 DEF FreshStatus, Status
    <3>2. \A g \in Gens : Held(g)' => Held(g)
      BY <1>2, <2>4 DEF OpFreshAgent, Held, Unfinished
    <3>3. CASE EndReconcile(new)
      BY <3>1, <3>2, <3>3, <2>1, EndSameJob
    <3>4. CASE op' = [op EXCEPT !.pc = "install", !.new = new]
      <4>1. op'.pc = "install" /\ op'.gen = op.gen /\ op'.old = op.old /\ op'.new = new
        BY <3>4, <1>0 DEF OpType
      <4> HIDE DEF new, wanted
      <4>2. OpView' /\ OpForgets'
        BY <4>1, <3>1, <2>1 DEF JobInv, OpView, OpForgets, crVars
      <4>3. OpTracksJob'
        BY <4>1, <3>1, <3>2, <2>1 DEF JobInv, OpTracksJob
      <4> QED BY <3>2, <4>2, <4>3, <2>1
              DEF JobInv, PreparedSeen, Seen, HeldTracked, JobPrepared, crVars
    <3> QED BY <1>2, <3>3, <3>4 DEF OpFreshAgent
  <2> QED BY <2>3, <2>4
<1>3. CASE InstallIdle
  BY Zenon, <1>3, <1>a, EndSameJob DEF InstallIdle, Held, Unfinished
<1>4. CASE InstallSupersede
  <2>1. op.pc # "idle" /\ UNCHANGED crVars
    BY <1>4, <1>a DEF InstallSupersede, InstallOpen
  <2>2. \A g \in Gens : ~Held(g)'
    <3>1. CASE op.new.requested > op.new.observed
      BY <1>4, <2>1, <3>1, DeletedNone DEF InstallSupersede
    <3>2. CASE ~(op.new.requested > op.new.observed)
      BY <1>4, <2>1, <3>2, <1>0, JobNumbers DEF InstallSupersede, JobInv, OpTracksJob, Held, Unfinished
    <3> QED BY <3>1, <3>2
  <2>3. /\ op'.pc = "install" /\ op'.gen = op.gen /\ op'.old = op.old
        /\ op'.new.requested = 0 /\ op'.new.observed = op.new.observed
        /\ op'.new.prepared = op.new.prepared
    BY <1>4, <1>0 DEF InstallSupersede, OpType, Status
  <2>4. OpView' /\ OpForgets'
    BY <1>4, <1>a, <2>1, <2>3 DEF InstallSupersede, InstallOpen, JobInv, OpView, OpForgets, crVars
  <2> QED BY ZenonT(30), <2>1, <2>2, <2>4
          DEF JobInv, PreparedSeen, Seen, HeldTracked, JobPrepared, OpTracksJob, crVars
<1>c. ASSUME InstallRequestOpen PROVE op.pc # "idle" /\ \A g \in Gens : ~Held(g)
  BY <1>c, <1>a, <1>0, JobNumbers DEF InstallRequestOpen, InstallOpen, JobInv, OpTracksJob
<1>d. Requested(op.new).prepared = op.new.prepared
  BY <1>0 DEF Requested, OpType, Status
<1>5. CASE InstallRequest
  <2>1. UNCHANGED crVars /\ \A g \in Gens : Held(g)' <=> Held(g)
    BY <1>5 DEF InstallRequest, Held, Unfinished
  <2>2. CASE EndReconcile(Requested(op.new))
    BY <1>5, <2>1, <2>2, <1>b, <1>c, <1>d, EndNoJob DEF InstallRequest
  <2>3. CASE EndReconcile(op.new)
    BY <1>5, <2>1, <2>3, <1>b, <1>c, EndNoJob DEF InstallRequest
  <2> QED BY <1>5, <2>2, <2>3 DEF InstallRequest
<1>6. CASE InstallRequestRefused
  BY <1>6, <1>c, EndSameJob DEF InstallRequestRefused, Held, Unfinished
<1>7. CASE InstallAborts
  BY <1>7, <1>a, EndSameJob DEF InstallAborts, InstallOpen, Held, Unfinished
<1>8. CASE InstallAdopt
  <2>1. UNCHANGED crVars /\ \A g \in Gens : Held(g)' <=> Held(g)
    BY <1>8 DEF InstallAdopt, Held, Unfinished
  <2> QED BY <1>8, <2>1, <1>b, <1>c, <1>d, EndNoJob DEF InstallAdopt
<1>9. CASE InstallAwaitPrepared
  <2>1. /\ op.pc # "idle" /\ UNCHANGED crVars
        /\ \A g \in Gens : Held(g)' <=> Held(g)
    BY <1>9, <1>a DEF InstallAwaitPrepared, InstallRequested, InstallOpen, Held, Unfinished
  \* The Job of this generation would have been prepared.
  <2>2. \A g \in Gens : ~Held(g)
    BY <1>9, <2>1, <1>0, JobNumbers
       DEF InstallAwaitPrepared, InstallRequested, InstallOpen, JobInv, OpView, OpTracksJob
  <2>3. CASE EndReconcile(op.new)
    BY <2>1, <2>2, <2>3, <1>b, EndNoJob
  <2>4. CASE EndReconcile([op.new EXCEPT !.result = "Failed", !.observed = op.gen])
    <3>1. [op.new EXCEPT !.result = "Failed", !.observed = op.gen].prepared = op.new.prepared
      BY <1>0 DEF OpType, Status
    <3> QED BY ZenonT(30), <2>1, <2>2, <2>4, <3>1, <1>b, EndNoJob
  <2> QED BY <1>9, <2>3, <2>4 DEF InstallAwaitPrepared
<1>10. CASE InstallCreateJob
  BY <1>10, CreateKeeps
<1>11. CASE InstallCheckJob
  <2> DEFINE view   == JobView(op.gen)
             failed == view = "failed" /\ op.new.result = "Running"
             s      == IF failed THEN [op.new EXCEPT !.result = "Failed"] ELSE op.new
             final  == s.result \in {"Succeeded", "Failed"} /\ view # "running"
             new    == IF final THEN [s EXCEPT !.observed = op.gen] ELSE s
  <2>1. /\ op.pc # "idle" /\ UNCHANGED crVars /\ op.new.requested = op.gen
        /\ EndReconcile(new)
        /\ \/ DeleteJob(op.gen) /\ final
           \/ /\ lost' = IF final /\ Unfinished(op.gen) THEN lost \cup {op.gen} ELSE lost
              /\ UNCHANGED <<job, orphans>>
    BY <1>11, <1>a DEF InstallCheckJob, InstallPrepared, InstallRequested, InstallOpen
  <2>2. /\ s.prepared = op.new.prepared /\ s.requested = op.new.requested
        /\ s.observed = op.new.observed /\ s \in Status
    BY <1>0 DEF OpType, Status, Results
  <2>3. CASE final
    <3>1. new.prepared = op.new.prepared
      BY <2>2, <2>3 DEF Status
    <3>2. \A g \in Gens : ~Held(g)'
      <4>1. CASE DeleteJob(op.gen)
        BY <2>1, <2>3, <4>1, DeletedNone
      \* A Job the cache does not show as running is lost from here on.
      <4>2. CASE /\ lost' = IF final /\ Unfinished(op.gen) THEN lost \cup {op.gen} ELSE lost
                 /\ UNCHANGED <<job, orphans>>
        <5>1. \A g \in Gens : Held(g) => g = op.gen
          BY <2>1 DEF JobInv, OpTracksJob
        <5> QED BY <2>3, <4>2, <5>1 DEF Held, Unfinished
      <4> QED BY <2>1, <4>1, <4>2
    <3> HIDE DEF final, new, s
    <3> QED BY ZenonT(30), <2>1, <3>1, <3>2, <1>b, EndNoJob
  <2>4. CASE ~final
    <3>1. new = s /\ \A g \in Gens : Held(g)' => Held(g)
      BY <2>1, <2>4 DEF Held, Unfinished
    <3> HIDE DEF final, new, s
    <3> QED BY Zenon, <2>1, <2>2, <3>1, EndSameJob
  <2> QED BY <2>3, <2>4
<1>12. CASE OpPatch
  BY <1>12, PatchKeeps
<1>13. CASE OpPatchLost
  <2>1. op'.pc = "idle" /\ UNCHANGED crVars /\ \A g \in Gens : Held(g)' <=> Held(g)
    BY <1>13 DEF OpPatchLost, NoOp, Held, Unfinished
  <2> QED BY Zenon, <2>1 DEF JobInv, OpView, OpForgets, PreparedSeen, Seen, HeldTracked, JobPrepared,
                      OpTracksJob, crVars
<1>14. CASE OpFreshAgentFails
  <2> DEFINE new == [op.old EXCEPT !.agent = agent.id]
  <2>1. /\ op.pc = "read" /\ op.new = op.old /\ UNCHANGED crVars /\ EndReconcile(new)
        /\ \A g \in Gens : Held(g)' <=> Held(g)
    BY <1>14 DEF OpFreshAgentFails, JobInv, OpForgets, Held, Unfinished
  <2>2. /\ new.prepared = op.old.prepared /\ new.requested = op.old.requested
        /\ new.observed = op.old.observed
    BY <1>0 DEF OpType, Status
  <2> HIDE DEF new
  <2> QED BY <2>1, <2>2, EndSameJob
<1> QED BY <1>1, <1>2, <1>3, <1>4, <1>5, <1>6, <1>7, <1>8, <1>9, <1>10, <1>11, <1>12, <1>13, <1>14
        DEF Operator

\* Every step keeps the invariant.
LEMMA JobStep == JobInv /\ [Next]_vars => JobInv'
<1> SUFFICES ASSUME JobInv, [Next]_vars PROVE JobInv'
  OBVIOUS
<1>0. TypeOK /\ TypeOK'
  BY TypeStep DEF JobInv
<1>1. CASE RequestInstall
  <2>1. /\ specGen' = specGen + 1 /\ UNCHANGED <<st, cache, op>>
        /\ \A g \in Gens : Held(g)' <=> Held(g)
    BY <1>1 DEF RequestInstall, jobVars, Held, Unfinished
  <2>2. OpView'
    BY <2>1, <1>0, JobNumbers DEF JobInv, OpView
  <2>3. OpForgets'
    BY <2>1, <1>0, JobNumbers DEF JobInv, OpForgets
  <2>4. PreparedSeen'
    BY <2>1, <1>0, JobNumbers DEF JobInv, PreparedSeen, Seen
  <2> QED BY <2>1, <2>2, <2>3, <2>4, <1>0 DEF JobInv, HeldTracked, JobPrepared, OpTracksJob
<1>2. CASE PrepareTimeoutPasses
  <2>1. /\ UNCHANGED <<specGen, st, cache, op>>
        /\ \A g \in Gens : Held(g)' <=> Held(g)
    BY <1>2 DEF PrepareTimeoutPasses, jobVars, Held, Unfinished
  <2>2. OpView' /\ OpForgets' /\ PreparedSeen'
    BY Zenon, <2>1 DEF JobInv, OpView, OpForgets, PreparedSeen, Seen
  <2> QED BY ZenonT(30), <2>1, <2>2, <1>0 DEF JobInv, HeldTracked, JobPrepared, OpTracksJob
<1>3. CASE CacheSync
  <2>1. /\ UNCHANGED <<specGen, st, op>> /\ cache'.gen = specGen
        /\ \A g \in Gens : Held(g)' <=> Held(g)
    BY <1>3 DEF CacheSync, jobVars, Held, Unfinished
  <2>2. OpView' /\ OpForgets'
    BY <2>1, ZenonT(30) DEF JobInv, OpView, OpForgets
  <2>3. PreparedSeen'
    BY <2>1, <1>0, JobNumbers DEF JobInv, PreparedSeen, Seen
  <2> QED BY <2>1, <2>2, <2>3, <1>0 DEF JobInv, HeldTracked, JobPrepared, OpTracksJob
<1>8. CASE \E g \in Gens : JobCacheSync(g)
  BY <1>8, <1>0, JobFrame DEF JobCacheSync, Held, Unfinished
<1>4. CASE Operator
  BY <1>4, <1>0, JobOperator
<1>5. CASE Agent
  \* Only "prepared" moves a generation, and never backwards.
  <2>1. CASE st' = [st EXCEPT !.prepared = Seen.gen, !.result = "Running"]
             /\ UNCHANGED <<specGen, cache, op, job, lost>>
    <3>1. /\ st'.requested = st.requested /\ st'.observed = st.observed
          /\ st'.prepared = Seen.gen /\ st.prepared <= st'.prepared
      BY <2>1, <1>0 DEF JobInv, PreparedSeen, TypeOK, Status
    <3>2. \A g \in Gens : Held(g)' <=> Held(g)
      BY <2>1 DEF Held, Unfinished
    <3>3. OpView' /\ OpForgets'
      BY <2>1, <3>1, <1>0, JobNumbers DEF JobInv, OpView, OpForgets
    <3>4. PreparedSeen'
      BY <2>1, <3>1, <1>0, JobNumbers DEF JobInv, PreparedSeen, Seen
    <3>5. HeldTracked' /\ JobPrepared' /\ OpTracksJob'
      BY <2>1, <3>1, <3>2, <1>0, JobNumbers, TypeOK' DEF JobInv, HeldTracked, JobPrepared, OpTracksJob
    <3> QED BY <3>3, <3>4, <3>5, <1>0 DEF JobInv
  <2>2. CASE /\ st'.requested = st.requested /\ st'.observed = st.observed
             /\ st'.prepared = st.prepared
             /\ UNCHANGED <<specGen, cache, op, job, lost>>
    <3>1. \A g \in Gens : Held(g)' <=> Held(g)
      BY <2>2 DEF Held, Unfinished
    <3>2. OpView' /\ OpForgets' /\ PreparedSeen'
      BY <2>2 DEF JobInv, OpView, OpForgets, PreparedSeen, Seen
    <3> QED BY <2>2, <3>1, <3>2, <1>0 DEF JobInv, HeldTracked, JobPrepared, OpTracksJob
  <2> USE DEF crVars, jobVars
  <2>3. CASE AgentPrepared
    BY <2>1, <2>3 DEF AgentPrepared
  <2>4. CASE AgentPreparedLost
    BY <2>1, <2>2, <2>4 DEF AgentPreparedLost
  <2>5. CASE AgentReadsExit \/ AgentPolls \/ AgentStops \/ AgentStarts \/ ShimAttaches
    BY <2>2, <2>5 DEF AgentReadsExit, AgentPolls, AgentStops, AgentStarts, ShimAttaches
  <2>6. CASE \E r \in queued : FilterReport(r)
    BY <2>2, <2>6 DEF FilterReport
  <2>7. CASE \E r \in sent : RecordResult(r)
    <3>1. PICK r \in sent : RecordResult(r)
      BY <2>7
    <3>2. /\ st'.requested = st.requested /\ st'.observed = st.observed
          /\ st'.prepared = st.prepared
      BY <3>1, <1>0 DEF RecordResult, TypeOK, Status
    <3> QED BY <3>1, <3>2, <2>2 DEF RecordResult
  <2>8. CASE \E r \in sent : RecordResultLost(r)
    BY <2>2, <2>8 DEF RecordResultLost
  <2> QED BY <1>5, <2>3, <2>4, <2>5, <2>6, <2>7, <2>8 DEF Agent
<1>6. CASE Pod
  <2>1. UNCHANGED <<crVars, op>>
    BY <1>6 DEF Pod, ScriptExits, OrphanExits, JobCompletes, JobFails, OrphanTerminated
  <2>2. \A g \in Gens : Held(g)' => Held(g)
    BY <1>6, <1>0 DEF Pod, ScriptExits, OrphanExits, JobCompletes, JobFails, OrphanTerminated,
                      Held, Unfinished, TypeOK
  <2> QED BY <2>1, <2>2, <1>0, JobFrame
<1>7. CASE UNCHANGED vars
  BY <1>7, <1>0, JobFrame DEF vars, jobVars, Held, Unfinished
<1> QED BY <1>1, <1>2, <1>3, <1>4, <1>5, <1>6, <1>7, <1>8 DEF Next

\* The operator loses sight of an unfinished install Job in one way only, whatever
\* the order of its status writes and the gateway's: by finishing the generation
\* while its cache of Jobs does not show that the Job runs.
THEOREM JobAlwaysTracked == Spec => []JobTracked
<1>1. JobInv => JobTracked
  BY DEF JobInv, HeldTracked, Held, JobTracked
<1> QED BY JobInit, JobStep, <1>1, PTL DEF Spec

\* Of two install Jobs that are unfinished at the same time one was lost that way:
\* the Job of a superseded generation, or of a restarted agent's install, is
\* deleted before the next one is asked for.
THEOREM NeverTwoInstallJobs == Spec => []OneInstallJob
<1>1. JobTracked => OneInstallJob
  BY DEF JobTracked, OneInstallJob
<1> QED BY JobAlwaysTracked, <1>1, PTL

\* A reconcile that reads its Job from the API server loses none: a generation is
\* finished only when its Job is over, as ARCHITECTURE.md 8.2 says.
THEOREM LiveJobReadsLoseNone ==
  ASSUME ~StaleJobs
  PROVE  Spec => []ObservedJobsFinal
<1> DEFINE NoneLost == lost = {}
<1>1. Init => NoneLost
  BY DEF Init
<1>2. NoneLost /\ [Next]_vars => NoneLost'
  <2> SUFFICES ASSUME NoneLost, [Next]_vars PROVE NoneLost'
    OBVIOUS
  <2> USE DEF jobVars
  <2>1. CASE InstallCheckJob
    <3>1. \/ DeleteJob(op.gen)
          \/ lost' = lost
          \/ JobObject(op.gen) # "running" /\ Unfinished(op.gen)
      BY <2>1 DEF InstallCheckJob, JobView
    <3>2. ~(JobObject(op.gen) # "running" /\ Unfinished(op.gen))
      BY DEF JobObject, Unfinished
    <3> QED BY <3>1, <3>2 DEF DeleteJob
  <2>2. CASE OpFreshAgent \/ InstallSupersede
    BY <2>2 DEF OpFreshAgent, InstallSupersede, DeleteJob
  <2>3. CASE \/ OpRead \/ OpFreshAgentFails \/ InstallIdle \/ InstallAborts \/ InstallRequest
             \/ InstallRequestRefused \/ InstallAdopt \/ InstallAwaitPrepared
             \/ InstallCreateJob \/ OpPatch \/ OpPatchLost
    BY <2>3 DEF OpRead, OpFreshAgentFails, InstallIdle, InstallAborts, InstallRequest,
       InstallRequestRefused, InstallAdopt, InstallAwaitPrepared, InstallCreateJob, OpPatch, OpPatchLost
  <2>4. CASE Agent
    BY <2>4 DEF Agent, AgentPrepared, AgentPreparedLost, AgentReadsExit, AgentPolls, FilterReport,
       RecordResult, RecordResultLost, AgentStops, AgentStarts, ShimAttaches
  <2>5. CASE Pod
    BY <2>5 DEF Pod, ScriptExits, OrphanExits, JobCompletes, JobFails, OrphanTerminated
  <2>6. CASE RequestInstall \/ PrepareTimeoutPasses \/ CacheSync \/ \E g \in Gens : JobCacheSync(g)
    BY <2>6 DEF RequestInstall, PrepareTimeoutPasses, CacheSync, JobCacheSync
  <2>7. CASE UNCHANGED vars
    BY <2>7 DEF vars
  <2> QED BY <2>1, <2>2, <2>3, <2>4, <2>5, <2>6, <2>7 DEF Next, Operator
<1>3. NoneLost /\ JobTracked => ObservedJobsFinal
  BY DEF JobTracked, ObservedJobsFinal
<1> QED BY <1>1, <1>2, <1>3, JobAlwaysTracked, PTL DEF Spec

-----------------------------------------------------------------------------
(* The mark of a superseded run.                                           *)

\* The numbers of the runs can be compared.
LEMMA RunNumbers ==
  ASSUME TypeOK
  PROVE  run.id \in Nat /\ runs \in Nat /\ mark \in Nat /\ \A r \in queued : r.id \in Nat
BY DEF TypeOK, Reports

\* The steps of a run that end it keep the numbering.
LEMMA RunEnds ==
  ASSUME TypeOK, RunInv, run.phase # "idle", NEW o, EndRun(o)
  PROVE  RunInv'
<1>1. /\ runs' = runs /\ run'.phase = "idle" /\ mark' \in {mark, run.id}
      /\ \A r \in queued' : r \in queued \/ r.id = run.id
  BY DEF EndRun, NoRun
<1> QED BY <1>1, RunNumbers DEF RunInv, NewerReportKept

\* Every step keeps the numbering of the runs and the mark.
LEMMA RunStep == TypeOK /\ RunInv /\ [Next]_vars => RunInv'
<1> SUFFICES ASSUME TypeOK, RunInv, [Next]_vars PROVE RunInv'
  OBVIOUS
<1>1. CASE UNCHANGED <<run, runs, mark>> /\ queued' \subseteq queued
  BY <1>1 DEF RunInv, NewerReportKept
<1>2. CASE Accept
  BY <1>2, RunNumbers DEF Accept, InstallLocked, RunInv, NewerReportKept
<1> USE DEF agentVars
<1>3. CASE RequestInstall \/ PrepareTimeoutPasses \/ CacheSync \/ \E g \in Gens : JobCacheSync(g)
  BY <1>1, <1>3 DEF RequestInstall, PrepareTimeoutPasses, CacheSync, JobCacheSync
<1>4. CASE Operator
  <2>1. CASE InstallRequest
    BY <1>2, <2>1 DEF InstallRequest
  <2>2. CASE OpRead \/ OpFreshAgent \/ OpFreshAgentFails \/ InstallIdle \/ InstallSupersede \/ OpPatch \/ OpPatchLost
    BY ZenonT(30), <1>1, <2>2 DEF OpRead, OpFreshAgent, OpFreshAgentFails, InstallIdle, InstallSupersede, OpPatch, OpPatchLost
  <2>3. CASE InstallRequestRefused \/ InstallAborts \/ InstallAdopt
    BY <1>1, <2>3 DEF InstallRequestRefused, InstallAborts, InstallAdopt
  <2>4. CASE InstallAwaitPrepared \/ InstallCreateJob \/ InstallCheckJob
    BY <1>1, <2>4 DEF InstallAwaitPrepared, InstallCreateJob, InstallCheckJob
  <2> QED BY <1>4, <2>1, <2>2, <2>3, <2>4 DEF Operator
<1>5. CASE Agent
  <2>1. CASE AgentPrepared
    BY <2>1, RunNumbers DEF AgentPrepared, RunInv, NewerReportKept, TypeOK
  <2>2. CASE AgentPreparedLost \/ AgentReadsExit \/ AgentPolls
    BY <2>2, RunEnds DEF AgentPreparedLost, AgentReadsExit, AgentPolls
  <2>3. CASE \E r \in queued : FilterReport(r)
    BY <2>3 DEF FilterReport, RunInv, NewerReportKept
  <2>4. CASE \E r \in sent : RecordResult(r) \/ RecordResultLost(r)
    BY <1>1, <2>4 DEF RecordResult, RecordResultLost
  <2>5. CASE AgentStops
    BY <2>5 DEF AgentStops, NoRun, RunInv, NewerReportKept
  <2>6. CASE AgentStarts \/ ShimAttaches
    BY <1>1, <2>6 DEF AgentStarts, ShimAttaches
  <2> QED BY <1>5, <2>1, <2>2, <2>3, <2>4, <2>5, <2>6 DEF Agent
<1>6. CASE Pod
  BY <1>1, <1>6 DEF Pod, ScriptExits, OrphanExits, JobCompletes, JobFails, OrphanTerminated
<1>7. CASE UNCHANGED vars
  BY <1>1, <1>7 DEF vars
<1> QED BY <1>3, <1>4, <1>5, <1>6, <1>7 DEF Next

\* The mark of a superseded run never swallows the report of a later run.
THEOREM NewerReportNeverDropped == Spec => []NewerReportKept
<1>1. Init => RunInv
  <2> SUFFICES ASSUME Init PROVE RunInv
    OBVIOUS
  <2>1. run = NoRun /\ mark = 0 /\ queued = {}
    BY DEF Init
  <2>2. run.phase = "idle"
    BY <2>1 DEF NoRun
  <2> QED BY <2>1, <2>2 DEF RunInv, NewerReportKept
<1>2. RunInv => NewerReportKept
  BY DEF RunInv
<1> QED BY <1>1, <1>2, TypeInit, TypeStep, RunStep, PTL DEF Spec
=============================================================================

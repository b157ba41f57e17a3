------------------------------ MODULE Install ------------------------------
(***************************************************************************)
(* Installing one server.  Four parties share the status of a GameServer:  *)
(* the operator asks the agent to install, and runs the install Job; the   *)
(* agent's installer takes Wings' install lock, reports "prepared", waits  *)
(* for the script's exit code and reports a result; the gateway writes     *)
(* what the agent tells it into the status; the Job's pod runs the script. *)
(*                                                                         *)
(* A reconcile of the operator is not one step: it reads the GameServer,   *)
(* acts, and at the end patches only the status fields it changed.  It     *)
(* reads the GameServer from the API server, but the install Job through   *)
(* the manager's cache, and the gateway answers from an informer cache:    *)
(* both may lag.                                                           *)
(***************************************************************************)
EXTENDS Integers, FiniteSets

CONSTANTS
  MaxGen,          \* installs the Panel asks for, the first included
  MaxRestarts,     \* restarts of the agent's container
  MaxFaults,       \* lost replies and lost writes
  GamePod,         \* the server has a game pod, whose shim an agent must wait for
  PromptPatch,     \* a run does not end between a request and the status write after it
  StaleReads,      \* the gateway's cache may lag behind the API server
  StaleJobs,       \* so may the operator's cache of Jobs
  StrictExitCode   \* the class's install.strictExitCode

ASSUME InstallAssumption ==
  /\ MaxGen \in Nat \ {0}
  /\ MaxRestarts \in Nat
  /\ MaxFaults \in Nat
  /\ GamePod \in BOOLEAN
  /\ PromptPatch \in BOOLEAN
  /\ StaleReads \in BOOLEAN
  /\ StaleJobs \in BOOLEAN
  /\ StrictExitCode \in BOOLEAN

VARIABLES
  specGen,   \* spec.install.generation
  st,        \* status.install, and the agent instance of status.agent
  reported,  \* status.install.reportedGeneration, which only the gateway writes
  expired,   \* the prepare timeout has passed since status.install.requestedAt
  cache,     \* the gateway's cached view of generation and result
  op,        \* the reconcile in progress
  agent,     \* the agent container: up, its instance, and no shim to wait for
  run,       \* the installer's run that holds the install lock
  mark,      \* Installer.superseded: the run that stored it, or 0
  runs,      \* runs the agent has accepted
  queued,    \* results about to pass the report filter
  sent,      \* results on their way to the gateway
  job,       \* the install Job of each generation and its pod
  jobCache,  \* the Jobs as the operator's cache shows them
  lost,      \* generations finished while the cache did not show that their Job runs
  orphans,   \* generations whose deleted Job still has a pod running the script
  exitFile,  \* install/<generation>/exit-code on the volume
  faults     \* faults so far

crVars    == <<specGen, st, reported, expired, cache>>
agentVars == <<agent, run, mark, runs, queued, sent>>
jobVars   == <<job, jobCache, lost, orphans, exitFile>>
vars      == <<crVars, op, agentVars, jobVars, faults>>

Gens == 1..MaxGen
Gen0 == 0..MaxGen
Results == {"", "Running", "Succeeded", "Failed"}
\* Exit codes, as far as they are told apart: only strictExitCode looks at them.
Codes == IF StrictExitCode THEN {"zero", "nonzero"} ELSE {"zero"}
Outcomes == {"success", "failed", "superseded"}
NoRun == [phase |-> "idle", id |-> 0, gen |-> 0]
NoStatus == [observed |-> 0, requested |-> 0, prepared |-> 0, result |-> "", agent |-> 0]
NoOp == [pc |-> "idle", gen |-> 0, old |-> NoStatus, new |-> NoStatus]

-----------------------------------------------------------------------------
(* The server was just created: generation 1 is requested, nothing ran.    *)

Init ==
  /\ specGen = 1
  /\ st = NoStatus
  /\ reported = 0
  /\ expired = FALSE
  /\ cache = [gen |-> 1, result |-> ""]
  /\ op = NoOp
  /\ agent = [up |-> TRUE, id |-> 1, attached |-> ~GamePod]
  /\ run = NoRun
  /\ mark = 0
  /\ runs = 0
  /\ queued = {}
  /\ sent = {}
  /\ job = [g \in Gens |-> "none"]
  /\ jobCache = job
  /\ lost = {}
  /\ orphans = {}
  /\ exitFile = [g \in Gens |-> "none"]
  /\ faults = 0

-----------------------------------------------------------------------------
(* The Panel, the clock and the gateway's cache.                           *)

\* The Panel asks for another install: serversync.RequestInstall.
RequestInstall ==
  /\ specGen < MaxGen
  /\ specGen' = specGen + 1
  /\ UNCHANGED <<st, reported, expired, cache, op, agentVars, jobVars, faults>>

\* The timeout only matters to a generation that waits to be prepared.
PrepareTimeoutPasses ==
  /\ st.requested > st.observed
  /\ st.prepared # st.requested
  /\ ~expired
  /\ expired' = TRUE
  /\ UNCHANGED <<specGen, st, reported, cache, op, agentVars, jobVars, faults>>

\* What the gateway reads: its informer's view, or the API server's.
Seen == IF StaleReads THEN cache ELSE [gen |-> specGen, result |-> st.result]

\* The informer catches up.
CacheSync ==
  /\ StaleReads
  /\ cache # [gen |-> specGen, result |-> st.result]
  /\ cache' = [gen |-> specGen, result |-> st.result]
  /\ UNCHANGED <<specGen, st, reported, expired, op, agentVars, jobVars, faults>>

-----------------------------------------------------------------------------
(* The operator.  A reconcile reads the GameServer ("read"), may meet a    *)
(* fresh agent and goes on to reconcileInstall ("install"), and ends with  *)
(* updateStatus ("patch").                                                 *)

\* updateStatus writes nothing when the reconcile changed nothing.
EndReconcile(new) ==
  op' = IF new = op.old THEN NoOp ELSE [op EXCEPT !.pc = "patch", !.new = new]

\* A call or a write fails.
Fault == faults < MaxFaults /\ faults' = faults + 1

\* Mutant: the error of the deletion is ignored.
DeleteJobIgnored(g) == UNCHANGED <<job, lost, orphans>>

\* deleteInstallJob, in the background: the pod outlives the Job.
DeleteJob(g) ==
  /\ job' = [job EXCEPT ![g] = "none"]
  /\ lost' = lost \ {g}
  /\ orphans' = IF job[g] = "running" THEN orphans \cup {g} ELSE orphans

\* Reconcile reads the GameServer.
OpRead ==
  /\ op.pc = "idle"
  /\ op' = [pc |-> "read", gen |-> specGen, old |-> st, new |-> st]
  /\ UNCHANGED <<crVars, agentVars, jobVars, faults>>

\* The install that was in flight in the previous agent is asked for again.
FreshStatus(s, g, id) ==
  IF g > s.observed /\ s.requested # 0
    THEN [s EXCEPT !.agent = id, !.requested = 0, !.prepared = 0, !.result = ""]
    ELSE [s EXCEPT !.agent = id]

FreshAgent == agent.up /\ op.old.agent # agent.id

\* reconcileProcess meets an agent container it has not recorded.  A later step
\* (the start of the process, a sync) may fail: the reconcile then ends here, and
\* what it changed so far is still written.
OpFreshAgent ==
  /\ op.pc = "read"
  /\ FreshAgent
  /\ agent.attached
  /\ LET new == FreshStatus(op.old, op.gen, agent.id)
     IN  \/ op' = [op EXCEPT !.pc = "install", !.new = new]
         \/ EndReconcile(new)
  /\ IF op.gen > op.old.observed /\ op.old.requested # 0
       THEN DeleteJob(op.old.requested)
       ELSE UNCHANGED <<job, lost, orphans>>
  /\ UNCHANGED <<crVars, agentVars, jobCache, exitFile, faults>>

\* The deletion of the Job fails: the new agent is recorded, its install is not
\* asked for again.
OpFreshAgentFails ==
  /\ op.pc = "read"
  /\ FreshAgent
  /\ agent.attached
  /\ op.gen > op.old.observed
  /\ op.old.requested # 0
  /\ Fault
  /\ EndReconcile([op.old EXCEPT !.agent = agent.id])
  /\ UNCHANGED <<crVars, agentVars, jobVars>>

\* reconcileInstall follows at once on the read when there is no agent, when it
\* is the recorded one, and when the shim of a game pod has yet to attach to a
\* fresh one.
AtInstall ==
  \/ op.pc = "install"
  \/ op.pc = "read" /\ ~(FreshAgent /\ agent.attached)

\* No generation is open.
InstallIdle ==
  /\ AtInstall
  /\ op.gen <= op.new.observed
  /\ EndReconcile(op.new)
  /\ UNCHANGED <<crVars, agentVars, jobVars, faults>>

InstallOpen == AtInstall /\ op.gen > op.new.observed

\* A call fails, the script's ConfigMap is missing, or a power action is in the
\* agent's way: the reconcile ends, and what it changed so far is written.
InstallAborts ==
  /\ InstallOpen
  /\ Fault
  /\ EndReconcile(op.new)
  /\ UNCHANGED <<crVars, agentVars, jobVars>>

\* A new generation supersedes an older one; a finished one's Job is left alone.
InstallSupersede ==
  /\ InstallOpen
  /\ op.new.requested \notin {0, op.gen}
  /\ op' = [op EXCEPT !.pc = "install", !.new.requested = 0]
  /\ IF op.new.requested > op.new.observed
       THEN DeleteJob(op.new.requested)
       ELSE UNCHANGED <<job, lost, orphans>>
  /\ UNCHANGED <<crVars, agentVars, jobCache, exitFile, faults>>

Requested(s) == [s EXCEPT !.requested = op.gen, !.result = "Running"]

\* Mutant: installGuard without ReportPending.
LockedByRun == run.phase # "idle"

\* installGuard: a run holds the lock, or a superseded run has yet to report.
InstallLocked == run.phase # "idle" \/ mark # 0

\* Wings takes the install lock for a new run.
Accept ==
  /\ ~InstallLocked
  /\ runs' = runs + 1
  /\ run' = [phase |-> "locked", id |-> runs + 1, gen |-> 0]
  /\ UNCHANGED <<agent, mark, queued, sent>>

InstallRequestOpen == InstallOpen /\ op.new.requested = 0

\* The agent takes the request.  The reply may be lost, which the operator
\* takes for an error.
InstallRequest ==
  /\ InstallRequestOpen
  /\ agent.up
  /\ Accept
  /\ \/ EndReconcile(Requested(op.new)) /\ UNCHANGED faults
     \/ EndReconcile(op.new) /\ Fault
  /\ UNCHANGED <<crVars, jobVars>>

\* Mutant: a run is never adopted.
NeverAdopt == FALSE

\* The run that holds the lock has prepared this very generation.
Adoptable == InstallLocked /\ op.new.prepared = op.gen

\* No ready agent, an agent that just went, or the install lock in the way: the
\* next reconcile asks again.
InstallRequestRefused ==
  /\ InstallRequestOpen
  /\ \/ ~agent.up
     \/ InstallLocked /\ ~Adoptable
  /\ EndReconcile(op.new)
  /\ UNCHANGED <<crVars, agentVars, jobVars, faults>>

InstallAdopt ==
  /\ InstallRequestOpen
  /\ agent.up
  /\ Adoptable
  /\ EndReconcile(Requested(op.new))
  /\ UNCHANGED <<crVars, agentVars, jobVars, faults>>

InstallRequested == InstallOpen /\ op.new.requested = op.gen

\* Not prepared: wait, or fail when the timeout has passed or the agent said so.
InstallAwaitPrepared ==
  /\ InstallRequested
  /\ op.new.prepared # op.gen
  /\ LET failed == op.new.result = "Failed" \/ (expired /\ op.new.result = "Running")
     IN  EndReconcile(IF failed
                       THEN [op.new EXCEPT !.result = "Failed", !.observed = op.gen]
                       ELSE op.new)
  /\ UNCHANGED <<crVars, agentVars, jobVars, faults>>

InstallPrepared == InstallRequested /\ op.new.prepared = op.gen

\* What the Job object says: that the script has exited is not in it yet.
JobObject(g) == IF job[g] = "exited" THEN "running" ELSE job[g]

\* What a reconcile reads: its manager's cache of Jobs, or the API server's view.
JobView(g) == IF StaleJobs THEN jobCache[g] ELSE JobObject(g)

\* The cache catches up.
JobCacheSync(g) ==
  /\ StaleJobs
  /\ jobCache[g] # JobObject(g)
  /\ jobCache' = [jobCache EXCEPT ![g] = JobObject(g)]
  /\ UNCHANGED <<crVars, op, agentVars, job, lost, orphans, exitFile, faults>>

\* The Job is created, where there is none yet; its pod first removes an exit code
\* an earlier one left.
InstallCreateJob ==
  /\ InstallPrepared
  /\ JobView(op.gen) = "none"
  /\ op.new.result = "Running"
  /\ IF job[op.gen] = "none"
       THEN /\ job' = [job EXCEPT ![op.gen] = "running"]
            /\ exitFile' = [exitFile EXCEPT ![op.gen] = "none"]
       ELSE UNCHANGED <<job, exitFile>>
  /\ EndReconcile(op.new)
  /\ UNCHANGED <<crVars, agentVars, jobCache, lost, orphans, faults>>

Unfinished(g) == job[g] \in {"running", "exited"}

\* Finish once the result is known and the Job is over, or is not there.  A failed
\* Job fails the install; a successful install's Job is deleted.
InstallCheckJob ==
  /\ InstallPrepared
  /\ ~(JobView(op.gen) = "none" /\ op.new.result = "Running")
  /\ LET view   == JobView(op.gen)
         failed == view = "failed" /\ op.new.result = "Running"
         s      == IF failed THEN [op.new EXCEPT !.result = "Failed"] ELSE op.new
         final  == s.result \in {"Succeeded", "Failed"} /\ view # "running"
     IN  /\ EndReconcile(IF final THEN [s EXCEPT !.observed = op.gen] ELSE s)
         /\ \/ /\ final /\ s.result = "Succeeded" /\ view # "none"
               /\ DeleteJob(op.gen)
               /\ UNCHANGED faults
            \/ /\ IF final /\ s.result = "Succeeded" /\ view # "none" THEN Fault ELSE UNCHANGED faults
               /\ lost' = IF final /\ Unfinished(op.gen) THEN lost \cup {op.gen} ELSE lost
               /\ UNCHANGED <<job, orphans>>
  /\ UNCHANGED <<crVars, agentVars, jobCache, exitFile>>

\* StatusPatch: the fields the reconcile changed, over what is there now.
Changed(old, new, cur) == IF new # old THEN new ELSE cur

Merge(old, new, cur) ==
  [observed  |-> Changed(old.observed, new.observed, cur.observed),
   requested |-> Changed(old.requested, new.requested, cur.requested),
   prepared  |-> Changed(old.prepared, new.prepared, cur.prepared),
   result    |-> Changed(old.result, new.result, cur.result),
   agent     |-> Changed(old.agent, new.agent, cur.agent)]

OpPatch ==
  /\ op.pc = "patch"
  /\ st' = Merge(op.old, op.new, st)
  /\ expired' = IF op.new.requested # op.old.requested THEN FALSE ELSE expired
  /\ op' = NoOp
  /\ UNCHANGED <<specGen, reported, cache, agentVars, jobVars, faults>>

\* The status write fails, or the operator is replaced before it.
OpPatchLost ==
  /\ op.pc = "patch"
  /\ Fault
  /\ op' = NoOp
  /\ UNCHANGED <<crVars, agentVars, jobVars>>

-----------------------------------------------------------------------------
(* The agent: the installer's run, its report, and the gateway's handlers. *)

\* installState: the recorded result, unless the generation asked about is not
\* the current one.
StateOf(g) == IF g # Seen.gen THEN "Superseded" ELSE Seen.result

\* Run reports prepared; installPrepared answers with the current generation and
\* records it.
AgentPrepared ==
  /\ run.phase = "locked"
  /\ run' = [run EXCEPT !.phase = "waiting", !.gen = Seen.gen]
  /\ st' = [st EXCEPT !.prepared = Seen.gen, !.result = "Running"]
  /\ UNCHANGED <<specGen, reported, expired, cache, op, agent, mark, runs, queued, sent, jobVars, faults>>

\* Run returns, leaving a mark when it was superseded.  Wings releases the lock
\* and only then reports.
EndRun(outcome) ==
  /\ PromptPatch => op.pc # "patch"
  /\ mark' = IF outcome = "superseded" THEN run.id ELSE mark
  /\ queued' = queued \cup {[id |-> run.id, gen |-> run.gen, outcome |-> outcome]}
  /\ run' = NoRun
  /\ UNCHANGED <<agent, runs, sent>>

\* The request or its reply is lost: Run fails, with the generation recorded or not.
AgentPreparedLost ==
  /\ run.phase = "locked"
  /\ Fault
  /\ EndRun("failed")
  /\ \/ st' = [st EXCEPT !.prepared = Seen.gen, !.result = "Running"]
     \/ UNCHANGED st
  /\ UNCHANGED <<specGen, reported, expired, cache, op, jobVars>>

\* waitForCompletion finds the exit code and has the gateway confirm it.
AgentReadsExit ==
  /\ run.phase = "waiting"
  /\ exitFile[run.gen] # "none"
  /\ EndRun(CASE StateOf(run.gen) = "Superseded" -> "superseded"
              [] StateOf(run.gen) = "Failed" -> "failed"
              [] StrictExitCode /\ exitFile[run.gen] = "nonzero" -> "failed"
              [] OTHER -> "success")
  /\ UNCHANGED <<crVars, op, jobVars, faults>>

\* waitForCompletion polls the gateway.
AgentPolls ==
  /\ run.phase = "waiting"
  /\ \/ StateOf(run.gen) = "Superseded" /\ EndRun("superseded")
     \/ StateOf(run.gen) = "Failed" /\ EndRun("failed")
  /\ UNCHANGED <<crVars, op, jobVars, faults>>

\* reportFilter.SetInstallationStatus: the mark takes one report with it.
FilterReport(r) ==
  /\ r \in queued
  /\ queued' = queued \ {r}
  /\ mark' = 0
  /\ sent' = IF mark # 0 THEN sent ELSE sent \cup {r}
  /\ UNCHANGED <<crVars, op, agent, run, runs, jobVars, faults>>

\* installResult: recorded against the generation that is current now.
RecordResult(r) ==
  /\ r \in sent
  /\ sent' = sent \ {r}
  /\ st' = [st EXCEPT !.result = IF r.outcome = "success" THEN "Succeeded" ELSE "Failed"]
  /\ reported' = Seen.gen
  /\ UNCHANGED <<specGen, expired, cache, op, agent, run, mark, runs, queued, jobVars, faults>>

\* The status write of installResult fails: it is only logged.
RecordResultLost(r) ==
  /\ r \in sent
  /\ Fault
  /\ sent' = sent \ {r}
  /\ UNCHANGED <<crVars, op, agent, run, mark, runs, queued, jobVars>>

\* The container goes, with the lock, the mark and what it had not sent.
AgentStops ==
  /\ agent.up
  /\ agent.id <= MaxRestarts
  /\ agent' = [agent EXCEPT !.up = FALSE]
  /\ run' = NoRun
  /\ mark' = 0
  /\ queued' = {}
  /\ UNCHANGED <<crVars, op, runs, sent, jobVars, faults>>

AgentStarts ==
  /\ ~agent.up
  /\ agent' = [up |-> TRUE, id |-> agent.id + 1, attached |-> ~GamePod]
  /\ UNCHANGED <<crVars, op, run, mark, runs, queued, sent, jobVars, faults>>

\* The shim of the game pod dials the agent.
ShimAttaches ==
  /\ agent.up
  /\ ~agent.attached
  /\ agent' = [agent EXCEPT !.attached = TRUE]
  /\ UNCHANGED <<crVars, op, run, mark, runs, queued, sent, jobVars, faults>>

-----------------------------------------------------------------------------
(* The Job's pod: install-run.  The pod of a deleted Job goes on until it  *)
(* is terminated; the deadline or an eviction may end any pod.             *)

\* install-run writes the script's exit code and succeeds.
ScriptExits(g, code) ==
  /\ job[g] = "running"
  /\ job' = [job EXCEPT ![g] = "exited"]
  /\ exitFile' = [exitFile EXCEPT ![g] = code]
  /\ UNCHANGED <<crVars, op, agentVars, jobCache, lost, orphans, faults>>

JobCompletes(g) ==
  /\ job[g] = "exited"
  /\ job' = [job EXCEPT ![g] = "complete"]
  /\ UNCHANGED <<crVars, op, agentVars, jobCache, lost, orphans, exitFile, faults>>

\* The pod is terminated: a script it ends leaves no exit code.
JobFails(g) ==
  /\ job[g] \in {"running", "exited"}
  /\ job' = [job EXCEPT ![g] = "failed"]
  /\ UNCHANGED <<crVars, op, agentVars, jobCache, lost, orphans, exitFile, faults>>

\* The script of a deleted Job ends by itself before its pod is terminated ...
OrphanExits(g, code) ==
  /\ g \in orphans
  /\ orphans' = orphans \ {g}
  /\ exitFile' = [exitFile EXCEPT ![g] = code]
  /\ UNCHANGED <<crVars, op, agentVars, jobCache, lost, job, faults>>

\* ... or with it.
OrphanTerminated(g) ==
  /\ g \in orphans
  /\ orphans' = orphans \ {g}
  /\ UNCHANGED <<crVars, op, agentVars, jobCache, lost, job, exitFile, faults>>

-----------------------------------------------------------------------------
Operator ==
  \/ OpRead \/ OpFreshAgent \/ OpFreshAgentFails
  \/ InstallIdle \/ InstallAborts \/ InstallSupersede
  \/ InstallRequest \/ InstallRequestRefused \/ InstallAdopt
  \/ InstallAwaitPrepared \/ InstallCreateJob \/ InstallCheckJob
  \/ OpPatch \/ OpPatchLost

Agent ==
  \/ AgentPrepared \/ AgentPreparedLost \/ AgentReadsExit \/ AgentPolls
  \/ \E r \in queued : FilterReport(r)
  \/ \E r \in sent : RecordResult(r) \/ RecordResultLost(r)
  \/ AgentStops \/ AgentStarts \/ ShimAttaches

Pod ==
  \E g \in Gens :
    \/ \E code \in Codes : ScriptExits(g, code) \/ OrphanExits(g, code)
    \/ JobCompletes(g) \/ JobFails(g) \/ OrphanTerminated(g)

Next ==
  \/ RequestInstall \/ PrepareTimeoutPasses \/ CacheSync \/ \E g \in Gens : JobCacheSync(g)
  \/ Operator \/ Agent \/ Pod

Spec == Init /\ [][Next]_vars

\* The operator requeues every reconcile, the agent's loops and HTTP calls go on,
\* the kubelet runs and ends pods, informers catch up and time passes.  Nothing
\* forces the Panel, a crash or a fault.
Fairness ==
  /\ WF_vars(Operator)
  /\ WF_vars(PrepareTimeoutPasses)
  /\ WF_vars(CacheSync) /\ WF_vars(\E g \in Gens : JobCacheSync(g))
  /\ WF_vars(AgentPrepared)
  /\ WF_vars(AgentReadsExit \/ AgentPolls)
  /\ WF_vars(\E r \in queued : FilterReport(r))
  /\ WF_vars(\E r \in sent : RecordResult(r))
  /\ WF_vars(AgentStarts)
  /\ WF_vars(ShimAttaches)
  /\ WF_vars(Pod)

FairSpec == Spec /\ Fairness

-----------------------------------------------------------------------------
(* Properties.                                                             *)

Status == [observed : Gen0, requested : Gen0, prepared : Gen0,
           result : Results, agent : Nat]
OpType == [pc : {"idle", "read", "install", "patch"}, gen : Gen0, old : Status, new : Status]
JobObjects == {"none", "running", "complete", "failed"}
Reports == [id : Nat, gen : Gen0, outcome : Outcomes]

\* Every variable has its type: a status names no generation the Panel did not ask
\* for, and a run that waits for a script knows its generation.
TypeOK ==
  /\ specGen \in Gens
  /\ st \in Status
  /\ reported \in Gen0
  /\ expired \in BOOLEAN
  /\ cache \in [gen : Gens, result : Results]
  /\ op \in OpType
  /\ agent \in [up : BOOLEAN, id : Nat, attached : BOOLEAN]
  /\ run \in [phase : {"idle", "locked", "waiting"}, id : Nat, gen : Gen0]
  /\ run.phase = "waiting" => run.gen \in Gens
  /\ mark \in Nat
  /\ runs \in Nat
  /\ queued \subseteq Reports
  /\ sent \subseteq Reports
  /\ job \in [Gens -> JobObjects \cup {"exited"}]
  /\ jobCache \in [Gens -> JobObjects]
  /\ lost \subseteq Gens
  /\ orphans \subseteq Gens
  /\ exitFile \in [Gens -> {"none", "zero", "nonzero"}]
  /\ faults \in Nat

\* Two install Jobs are never unfinished at the same time, unless one of them was
\* lost: the operator deletes the Job of a superseded generation, or of a restarted
\* agent's install, before it asks for the next one (reconcileInstall,
\* reconcileProcess).  The pod of a deleted Job may still write (orphans).
OneInstallJob ==
  \A g, h \in Gens : Unfinished(g) /\ Unfinished(h) /\ g # h => g \in lost \/ h \in lost

\* The operator loses sight of a Job that has not ended in one way only, whatever
\* the order of its status writes and the gateway's: it finishes the generation on
\* a cache that does not show the Job yet.  Otherwise the status names the Job's
\* generation as the requested one, and as not finished (reconcileInstall).
JobTracked ==
  \A g \in Gens : Unfinished(g) => g \in lost \/ (st.requested = g /\ st.observed < g)

\* What ARCHITECTURE.md 8.2 says: "The operator records
\* `status.install.observedGeneration` once the agent's result and the Job are
\* final".
ObservedJobsFinal ==
  \A g \in Gens : Unfinished(g) => st.observed < g

\* The mark of a superseded run never swallows the report of a later run: no run
\* starts until the mark is gone (installGuard, Installer.ReportPending).
NewerReportKept ==
  mark # 0 => /\ run.phase # "idle" => run.id <= mark
              /\ \A r \in queued : r.id <= mark

\* Every install the Panel asked for is finished in the end, unless a newer one
\* superseded it: no order of polls, reports and status writes leaves the operator
\* and the agent waiting for each other (reconcileInstall, waitForCompletion).
InstallFinishes == <>[](st.observed = specGen)

\* What ARCHITECTURE.md 8.2 says of the timeout, "the operator marks the install
\* failed in the status": a generation the operator is done with keeps a final
\* result.
FinishedStaysFinal ==
  st.observed = specGen => st.result \in {"Succeeded", "Failed"}

\* What ARCHITECTURE.md 8.2 says: "The operator creates no Job before prepared".
NoJobBeforePrepared ==
  [][\A g \in Gens : ~Unfinished(g) /\ Unfinished(g)' => run.phase # "locked"]_vars
=============================================================================

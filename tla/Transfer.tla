------------------------------ MODULE Transfer ------------------------------
(***************************************************************************)
(* A server that a Panel transfer moves to the cluster.  Another node      *)
(* pushes it to the gateway, which creates a GameServer marked for the     *)
(* transfer, waits for its agent and proxies the push there; the agent     *)
(* reports the result through the gateway to the Panel, and the gateway    *)
(* keeps or removes the server.  Resync settles what these handlers leave  *)
(* behind, from a list of the Panel's servers fetched before it looks at   *)
(* the cluster.  The Panel's own calls create a server, sync it and        *)
(* request its installs.  The gateway reads the GameServer from a cache.   *)
(*                                                                         *)
(* A thread is a handler or a Resync of some gateway replica.  The Panel,  *)
(* the source node, the agent's Wings and the operator are external; the   *)
(* finalizer has a module of its own and is one step here.                 *)
(***************************************************************************)
EXTENDS Naturals, FiniteSets

CONSTANTS
  NoServer,
  MaxPush,   \* bound: pushes of the server
  MaxCalls,  \* bound: calls of the Panel about a server it created here
  Resyncs,   \* gateway replicas that resync
  MaxLost,   \* bound: lost calls, failed writes and handlers that die
  Overlap,   \* a push may start while an earlier one has not been settled
  Timely     \* a push starts and is settled before the mark is a day old

ASSUME TransferAssumption ==
  MaxPush \in Nat /\ MaxCalls \in Nat /\ Resyncs \in Nat /\ MaxLost \in Nat /\ {Overlap, Timely} \subseteq BOOLEAN

VARIABLES
  panel,   \* the node the Panel has the server on, and whether a transfer is open
  gs,      \* the GameServer
  cache,   \* what the gateway's cache says of it
  volume,  \* what is on its volume
  agent,   \* its agent pod is ready
  recv,    \* pushes the agent receives
  source,  \* what the source node does about each push
  th,      \* the threads
  moved,   \* history: the Panel accepted a success
  calls,   \* calls the Panel made, and installs of them that were accepted
  lost

vars == <<panel, gs, cache, volume, agent, recv, source, th, moved, calls, lost>>

Pushes == 1..MaxPush
Push(p) == <<"push", p>>
Report(p) == <<"report", p>>
Resync(r) == <<"resync", r>>
Call(c) == <<"call", c>>
Threads == {Push(p) : p \in Pushes} \cup {Report(p) : p \in Pushes} \cup {Resync(r) : r \in 1..Resyncs}
             \cup {Call(c) : c \in 1..MaxCalls}

\* created: this push created the server; said: the result Wings reports; ok: the
\* result that counts; retry: Wings is answered with a 5xx; listed: the Panel's
\* list has the server; cfg: the allocations the Panel's configuration carries;
\* left: what follows a sync, 1 the install, 2 another sync and the install.
Idle == [at |-> "idle", created |-> FALSE, said |-> FALSE, ok |-> FALSE, retry |-> FALSE,
         listed |-> FALSE, cfg |-> "none", left |-> 0]

Init ==
  /\ panel \in {[node |-> n, open |-> FALSE] : n \in {"old", "here"}}
  /\ gs = NoServer /\ cache = NoServer /\ volume = "absent" /\ agent = FALSE
  /\ recv = {} /\ source = [p \in Pushes |-> "none"]
  /\ th = [t \in Threads |-> Idle]
  /\ moved = FALSE /\ calls = [made |-> 0, accepted |-> 0] /\ lost = MaxLost

At(t, step) == th[t].at = step
Goto(t, step) == th' = [th EXCEPT ![t].at = step]
Done(t) == th' = [th EXCEPT ![t] = Idle]
Lose == lost > 0 /\ lost' = lost - 1

\* The configuration carries the allocations of the node the server is on.
Configuration == IF panel.node = "here" THEN "new" ELSE "old"

build(mark, alloc) ==
  [mark |-> mark, alloc |-> alloc, env |-> FALSE, deleting |-> FALSE, orphan |-> FALSE, install |-> 0,
   scripts |-> {}]

\* By name, whatever server has it; the finalizer does the rest.
Delete == gs' = IF gs = NoServer THEN gs ELSE [gs EXCEPT !.deleting = TRUE]

writeInstallScript(s, gen) == IF s = NoServer THEN s ELSE [s EXCEPT !.scripts = @ \cup {gen}]

writeEnvSecret == gs' = IF gs = NoServer THEN gs ELSE [gs EXCEPT !.env = TRUE]

----------------------------------------------------------------------------
(* transfers and AdoptForTransfer.                                         *)

reusableForTransfer(s) == s.mark # "none" /\ ~s.deleting

withoutAllocations(c) == "none"

Reuse(p) == IF reusableForTransfer(cache) THEN Goto(Push(p), "wait") ELSE Done(Push(p))

PushGet(p) ==
  /\ At(Push(p), "get")
  /\ IF cache # NoServer THEN Reuse(p)
     ELSE IF panel.node = "none" THEN Done(Push(p))
     ELSE th' = [th EXCEPT ![Push(p)].at = "create", ![Push(p)].cfg = withoutAllocations(Configuration)]
  /\ UNCHANGED <<panel, gs, cache, volume, agent, recv, source, moved, calls, lost>>

PushCreate(p) ==
  /\ At(Push(p), "create")
  /\ \/ /\ gs = NoServer
        /\ gs' = build("fresh", th[Push(p)].cfg)
        /\ Goto(Push(p), "env")
     \/ /\ gs # NoServer
        /\ IF cache = NoServer THEN Done(Push(p)) ELSE Reuse(p)
        /\ UNCHANGED gs
  /\ UNCHANGED <<panel, cache, volume, agent, recv, source, moved, calls, lost>>

PushEnv(p) ==
  /\ At(Push(p), "env")
  /\ \/ /\ writeEnvSecret
        /\ th' = [th EXCEPT ![Push(p)].at = "wait", ![Push(p)].created = TRUE]
        /\ UNCHANGED lost
     \/ Lose /\ Delete /\ Done(Push(p))
  /\ UNCHANGED <<panel, cache, volume, agent, recv, source, moved, calls>>

\* The agent registers its own server, and Wings extracts into it.
incomingTransfer(p) == recv' = recv \cup {p} /\ volume' = "partial"

\* WaitFor, then Proxy.
PushProxy(p) ==
  /\ At(Push(p), "wait")
  /\ agent /\ source[p] = "sending"
  /\ incomingTransfer(p)
  /\ Done(Push(p))
  /\ UNCHANGED <<panel, gs, cache, agent, source, moved, calls, lost>>

\* No agent within TransferAgentWait, or the client is gone.
GiveUp(p) ==
  /\ At(Push(p), "wait")
  /\ ~agent \/ source[p] # "sending"
  /\ IF th[Push(p)].created THEN Goto(Push(p), "finish") ELSE Done(Push(p))
  /\ source' = [source EXCEPT ![p] = IF @ = "sending" THEN "failed" ELSE @]
  /\ UNCHANGED <<panel, gs, cache, volume, agent, recv, moved, calls, lost>>

\* The answer to a refused push: the source knows that it failed.
Refused(p) ==
  /\ source[p] = "sending" /\ At(Push(p), "idle") /\ p \notin recv
  /\ source' = [source EXCEPT ![p] = "failed"]
  /\ UNCHANGED <<panel, gs, cache, volume, agent, recv, th, moved, calls, lost>>

----------------------------------------------------------------------------
(* transferResult.                                                         *)

\* SetTransferStatus, as the Panel handles it.
Settle(ok) ==
  /\ panel' = [node |-> IF ok THEN "here" ELSE panel.node, open |-> FALSE]
  /\ moved' = (moved \/ ok)

Tell(p, result) ==
  th' = [th EXCEPT ![Report(p)] = [Idle EXCEPT !.at = "tell", !.said = result, !.ok = result]]

\* Mutant: what the Panel refuses is not looked up in its list.
RefusedFailed(p) == th' = [th EXCEPT ![Report(p)].at = "finish", ![Report(p)].ok = FALSE]

RefusedResult(p) == Goto(Report(p), IF th[Report(p)].ok THEN "list" ELSE "finish")

\* A success without an answer is left to Resync; a failure removes the server.
Unanswered(p) ==
  th' = [th EXCEPT ![Report(p)].at = IF th[Report(p)].ok THEN "again" ELSE "finish",
                   ![Report(p)].retry = TRUE]

TellPanel(p) ==
  /\ At(Report(p), "tell")
  /\ \/ /\ panel.open /\ Settle(th[Report(p)].ok)
        /\ \/ Goto(Report(p), "finish") /\ UNCHANGED lost
           \/ Lose /\ Unanswered(p)
     \/ ~panel.open /\ RefusedResult(p) /\ UNCHANGED <<panel, moved, lost>>
     \/ Lose /\ Unanswered(p) /\ UNCHANGED <<panel, moved>>
  /\ UNCHANGED <<gs, cache, volume, agent, recv, source, calls>>

panelLists(p) ==
  /\ At(Report(p), "list")
  /\ \/ /\ th' = [th EXCEPT ![Report(p)].at = "finish", ![Report(p)].ok = (panel.node = "here")]
        /\ UNCHANGED lost
     \/ Lose /\ Done(Report(p))
  /\ UNCHANGED <<panel, gs, cache, volume, agent, recv, source, moved, calls>>

\* Wings repeats what was answered with a 5xx, for some time.
Again(p) ==
  /\ At(Report(p), "again")
  /\ \/ agent /\ Tell(p, th[Report(p)].said)
     \/ Done(Report(p))
  /\ UNCHANGED <<panel, gs, cache, volume, agent, recv, source, moved, calls, lost>>

----------------------------------------------------------------------------
(* FinishTransfer, called by all three.                                    *)

Finished(t) == IF th[t].retry THEN Goto(t, "again") ELSE Done(t)

FinishGet(t) ==
  /\ At(t, "finish")
  /\ IF cache = NoServer THEN Finished(t)
     ELSE IF cache.mark = "none" THEN Finished(t)
     ELSE Goto(t, IF th[t].ok THEN "unmark" ELSE "delete")
  /\ UNCHANGED <<panel, gs, cache, volume, agent, recv, source, moved, calls, lost>>

FinishDelete(t) ==
  /\ At(t, "delete")
  /\ Delete /\ Finished(t)
  /\ UNCHANGED <<panel, cache, volume, agent, recv, source, moved, calls, lost>>

FinishUnmark(t) ==
  /\ At(t, "unmark")
  /\ \/ /\ gs # NoServer
        /\ gs' = [gs EXCEPT !.mark = "none"] /\ Goto(t, "fetch")
        /\ UNCHANGED lost
     \/ /\ gs = NoServer
        /\ Finished(t) /\ UNCHANGED <<gs, lost>>
     \/ Lose /\ Finished(t) /\ UNCHANGED gs
  /\ UNCHANGED <<panel, cache, volume, agent, recv, source, moved, calls>>

\* Sync.
SyncFetch(t) ==
  /\ At(t, "fetch")
  /\ \/ /\ panel.node # "none"
        /\ th' = [th EXCEPT ![t].at = "apply", ![t].cfg = Configuration] /\ UNCHANGED lost
     \/ panel.node = "none" /\ Finished(t) /\ UNCHANGED lost
     \/ Lose /\ Finished(t)
  /\ UNCHANGED <<panel, gs, cache, volume, agent, recv, source, moved, calls>>

\* What comes after a sync; Resync (ok: the listed server was Orphaned) clears that.
Applied(t) ==
  IF th[t].listed THEN (IF th[t].ok THEN Goto(t, "clear") ELSE Done(t))
  ELSE IF th[t].left = 2 THEN th' = [th EXCEPT ![t].at = "fetch", ![t].left = 1]
  ELSE IF th[t].left = 1 THEN Goto(t, "install")
  ELSE Finished(t)

\* A patch of the fields that differ from the cached server's.
Apply(t) ==
  /\ At(t, "apply")
  /\ gs' = IF cache = NoServer \/ gs = NoServer THEN gs
           ELSE [gs EXCEPT !.env = TRUE, !.alloc = IF cache.alloc = th[t].cfg THEN @ ELSE th[t].cfg]
  /\ IF cache = NoServer /\ th[t].left > 0 THEN Done(t) ELSE Applied(t)
  /\ UNCHANGED <<panel, cache, volume, agent, recv, source, moved, calls, lost>>

----------------------------------------------------------------------------
(* createServer, syncServer and install.                                   *)

\* The Panel creates a server here, then syncs it or installs it again; calls
\* about a server that was moved here are left out.
PanelCalls(c) ==
  /\ panel.node = "here" /\ ~moved
  /\ calls.made = c - 1
  /\ calls' = [calls EXCEPT !.made = c]
  /\ \/ c = 1 /\ Goto(Call(c), "new")
     \/ /\ c > 1
        /\ \E left \in {0, 1} : th' = [th EXCEPT ![Call(c)].at = "fetch", ![Call(c)].left = left]
  /\ UNCHANGED <<panel, gs, cache, volume, agent, recv, source, moved, lost>>

Accepted(c) == Done(Call(c)) /\ calls' = [calls EXCEPT !.accepted = @ + 1]

\* The configuration and the script are fetched.
CreateFetch(c) ==
  /\ At(Call(c), "new")
  /\ \/ /\ panel.node # "none"
        /\ th' = [th EXCEPT ![Call(c)].at = "build", ![Call(c)].cfg = Configuration] /\ UNCHANGED lost
     \/ panel.node = "none" /\ Done(Call(c)) /\ UNCHANGED lost
     \/ Lose /\ Done(Call(c))
  /\ UNCHANGED <<panel, gs, cache, volume, agent, recv, source, moved, calls>>

\* Sync, then RequestInstall.
InstallExisting(c) == th' = [th EXCEPT ![Call(c)].at = "fetch", ![Call(c)].left = 2] /\ UNCHANGED calls

Create(c) ==
  /\ At(Call(c), "build")
  /\ IF gs = NoServer
     THEN /\ gs' = [build("none", th[Call(c)].cfg) EXCEPT !.install = 1]
          /\ Goto(Call(c), "secret") /\ UNCHANGED calls
     ELSE InstallExisting(c) /\ UNCHANGED gs
  /\ UNCHANGED <<panel, cache, volume, agent, recv, source, moved, lost>>

\* The environment and the script of generation 1 follow the server.
CreateRest(c) ==
  /\ \/ /\ At(Call(c), "secret")
        /\ (writeEnvSecret /\ Goto(Call(c), "script") /\ UNCHANGED lost) \/ (Lose /\ Done(Call(c)) /\ UNCHANGED gs)
        /\ UNCHANGED calls
     \/ /\ At(Call(c), "script")
        /\ \/ gs' = writeInstallScript(gs, 1) /\ Accepted(c) /\ UNCHANGED lost
           \/ Lose /\ Done(Call(c)) /\ UNCHANGED <<gs, calls>>
  /\ UNCHANGED <<panel, cache, volume, agent, recv, source, moved>>

\* Mutant: the write is not conditional on the version that was read.
WriteAnyVersion == gs # NoServer

\* A conflict starts over with a fresh read, some times.
UpdateSpec == cache = gs

RequestInstall(c) ==
  /\ At(Call(c), "install")
  /\ \/ /\ cache # NoServer /\ UpdateSpec
        /\ gs' = [writeInstallScript(gs, cache.install + 1) EXCEPT !.install = cache.install + 1]
        /\ Accepted(c) /\ UNCHANGED lost
     \/ /\ cache # gs
        /\ Done(Call(c)) /\ UNCHANGED <<gs, calls, lost>>
     \/ Lose /\ Done(Call(c)) /\ UNCHANGED <<gs, calls>>
  /\ UNCHANGED <<panel, cache, volume, agent, recv, source, moved>>

----------------------------------------------------------------------------
(* Resync.                                                                 *)

ListServers(r) ==
  /\ At(Resync(r), "idle")
  /\ th' = [th EXCEPT ![Resync(r)].at = "list", ![Resync(r)].listed = (panel.node = "here")]
  /\ UNCHANGED <<panel, gs, cache, volume, agent, recv, source, moved, calls, lost>>

\* Mutant: a listed server is left to its own handlers.
LeaveListed(r) ==
  IF ~th[Resync(r)].listed /\ cache.mark = "old" THEN Goto(Resync(r), "delete") ELSE Done(Resync(r))

resyncTransfer(r) ==
  IF th[Resync(r)].listed
  THEN th' = [th EXCEPT ![Resync(r)] = [Idle EXCEPT !.at = "finish", !.ok = TRUE]]
  ELSE IF cache.mark = "old" THEN Goto(Resync(r), "delete") ELSE Done(Resync(r))

\* The configuration of a server that stays is fetched and compared; one that
\* cannot be fetched leaves the server as it is.
ResyncServer(r) ==
  /\ At(Resync(r), "list")
  /\ \/ /\ cache = NoServer
        /\ IF th[Resync(r)].listed THEN Goto(Resync(r), "adopt") ELSE Done(Resync(r))
        /\ UNCHANGED lost
     \/ /\ cache # NoServer /\ cache.mark # "none"
        /\ resyncTransfer(r) /\ UNCHANGED lost
     \/ /\ cache # NoServer /\ cache.mark = "none"
        /\ \/ ~th[Resync(r)].listed /\ Goto(Resync(r), "orphan") /\ UNCHANGED lost
           \/ /\ th[Resync(r)].listed /\ panel.node # "none"
              /\ IF cache.alloc # Configuration
                 THEN th' = [th EXCEPT ![Resync(r)].at = "apply", ![Resync(r)].cfg = Configuration,
                                       ![Resync(r)].ok = cache.orphan]
                 ELSE IF cache.orphan THEN Goto(Resync(r), "clear") ELSE Done(Resync(r))
              /\ UNCHANGED lost
           \/ /\ th[Resync(r)].listed
              /\ (panel.node = "none" /\ UNCHANGED lost) \/ Lose
              /\ Done(Resync(r))
  /\ UNCHANGED <<panel, gs, cache, volume, agent, recv, source, moved, calls>>

SetOrphaned(r) ==
  /\ th[Resync(r)].at \in {"orphan", "clear"}
  /\ gs' = IF gs = NoServer THEN gs ELSE [gs EXCEPT !.orphan = At(Resync(r), "orphan")]
  /\ Done(Resync(r))
  /\ UNCHANGED <<panel, cache, volume, agent, recv, source, moved, calls, lost>>

Adopt(r) ==
  /\ \/ /\ At(Resync(r), "adopt")
        /\ IF panel.node = "none" THEN Done(Resync(r))
           ELSE th' = [th EXCEPT ![Resync(r)].at = "adopting", ![Resync(r)].cfg = Configuration]
        /\ UNCHANGED <<gs, lost>>
     \/ /\ At(Resync(r), "adopting")
        /\ IF gs = NoServer
           THEN gs' = build("none", th[Resync(r)].cfg) /\ Goto(Resync(r), "env")
           ELSE Done(Resync(r)) /\ UNCHANGED gs
        /\ UNCHANGED lost
     \/ /\ At(Resync(r), "env")
        /\ (writeEnvSecret /\ UNCHANGED lost) \/ (Lose /\ UNCHANGED gs)
        /\ Done(Resync(r))
  /\ UNCHANGED <<panel, cache, volume, agent, recv, source, moved, calls>>

\* The gateway replica dies: Wings sees its call fail.
HandlerDies(t) ==
  /\ th[t].at \notin {"idle", "tell", "again"} /\ Lose
  /\ IF t[1] = "report" THEN Goto(t, "again") ELSE Done(t)
  /\ UNCHANGED <<panel, gs, cache, volume, agent, recv, source, moved, calls>>

----------------------------------------------------------------------------
(* The Panel, the source node, the agent and the operator.                 *)

\* A handler, the agent or the source is at work on a push.
Busy ==
  \/ recv # {}
  \/ \E p \in Pushes : ~At(Push(p), "idle") \/ ~At(Report(p), "idle") \/ source[p] \in {"sending", "failed"}

\* The Panel, the source and the agent are done with the earlier pushes; the
\* gateway may still be giving one of them up.
Over ==
  /\ ~panel.open /\ recv = {}
  /\ \A p \in Pushes : At(Report(p), "idle") /\ source[p] \in {"none", "over"}

\* A push takes longer than the gateway needs to give up an earlier one and to
\* make the call it has in hand, its cache to follow, and the pods of a deleted
\* server to stop.
Outlasts(p) ==
  /\ cache = gs /\ gs # NoServer /\ ~gs.deleting
  /\ \A q \in Pushes \ {p} : At(Push(q), "idle")
  /\ \A r \in 1..Resyncs : ~At(Resync(r), "delete")

Outdated == gs # NoServer /\ gs.mark = "old"

StartPush(p) ==
  /\ panel.node = "old" /\ source[p] = "none" /\ \A q \in 1..p - 1 : source[q] # "none"
  /\ ~Overlap => Over
  /\ Timely => ~Outdated
  /\ panel' = [panel EXCEPT !.open = TRUE]
  /\ source' = [source EXCEPT ![p] = "sending"]
  /\ Goto(Push(p), "get")
  /\ UNCHANGED <<gs, cache, volume, agent, recv, moved, calls, lost>>

\* The source tells the Panel of a push that failed for it.
SourceReports(p) ==
  /\ source[p] = "failed"
  /\ panel' = [panel EXCEPT !.open = FALSE]
  /\ source' = [source EXCEPT ![p] = "over"]
  /\ UNCHANGED <<gs, cache, volume, agent, recv, th, moved, calls, lost>>

SourceGone(p) ==
  /\ source[p] = "sending"
  /\ source' = [source EXCEPT ![p] = "failed"]
  /\ UNCHANGED <<panel, gs, cache, volume, agent, recv, th, moved, calls, lost>>

\* The source may miss the answer to a push that the agent took.
Received(p) ==
  /\ p \in recv /\ source[p] = "sending"
  /\ ~Overlap => Outlasts(p)
  /\ recv' = recv \ {p} /\ volume' = "whole"
  /\ \E s \in {"over", "failed"} : source' = [source EXCEPT ![p] = s]
  /\ Tell(p, TRUE)
  /\ UNCHANGED <<panel, gs, cache, agent, moved, calls, lost>>

Broken(p) ==
  /\ p \in recv
  /\ recv' = recv \ {p}
  /\ source' = [source EXCEPT ![p] = IF @ = "sending" THEN "failed" ELSE @]
  /\ Tell(p, FALSE)
  /\ UNCHANGED <<panel, gs, cache, volume, agent, moved, calls, lost>>

\* What an agent had not told the gateway ends with it.
AgentGone ==
  /\ agent' = FALSE /\ recv' = {}
  /\ th' = [t \in Threads |-> IF t[1] = "report" /\ th[t].at = "tell" THEN Idle ELSE th[t]]
  /\ source' = [p \in Pushes |-> IF p \in recv /\ source[p] = "sending" THEN "failed" ELSE source[p]]

AgentRestarts ==
  /\ agent /\ Lose /\ AgentGone
  /\ UNCHANGED <<panel, gs, cache, volume, moved, calls>>

Reconcile ==
  /\ gs # NoServer /\ ~agent
  /\ ~gs.deleting
  /\ agent' = TRUE /\ volume' = IF volume = "absent" THEN "empty" ELSE volume
  /\ UNCHANGED <<panel, gs, cache, recv, source, th, moved, calls, lost>>

\* Mutant: a marked server is deleted by the policy of its class, which retains.
RetainCopy == volume

\* A marked server's volume is deleted; that of another one is retained.
VolumeAfter == IF gs.mark # "none" THEN "absent" ELSE volume

finalize ==
  /\ gs # NoServer
  /\ gs.deleting
  /\ gs' = NoServer /\ volume' = VolumeAfter /\ AgentGone
  /\ UNCHANGED <<panel, cache, moved, calls, lost>>

CacheCatchesUp ==
  /\ cache # gs
  /\ cache' = gs
  /\ UNCHANGED <<panel, gs, volume, agent, recv, source, th, moved, calls, lost>>

\* A day passes, in which no Resync holds on to a list that is out of date.
Age ==
  /\ gs # NoServer /\ cache = gs
  /\ gs.mark = "fresh"
  /\ \A r \in 1..Resyncs :
       At(Resync(r), "idle") \/ (At(Resync(r), "list") /\ th[Resync(r)].listed = (panel.node = "here"))
  /\ Timely => ~Busy
  /\ gs' = [gs EXCEPT !.mark = "old"] /\ cache' = gs'
  /\ UNCHANGED <<panel, volume, agent, recv, source, th, moved, calls, lost>>

\* The Panel deletes the server; its call may not arrive.
PanelDeletes ==
  /\ panel.node = "here"
  /\ panel' = [panel EXCEPT !.node = "none"]
  /\ (Delete /\ UNCHANGED lost) \/ (Lose /\ UNCHANGED gs)
  /\ UNCHANGED <<cache, volume, agent, recv, source, th, moved, calls>>

PushStep(p) == PushGet(p) \/ PushCreate(p) \/ PushEnv(p) \/ PushProxy(p) \/ GiveUp(p)
ReportStep(p) == TellPanel(p) \/ panelLists(p) \/ Again(p)
FinishStep(t) == FinishGet(t) \/ FinishDelete(t) \/ FinishUnmark(t) \/ SyncFetch(t) \/ Apply(t)
CallStep(c) == CreateFetch(c) \/ Create(c) \/ CreateRest(c) \/ RequestInstall(c)
ResyncStep(r) == ListServers(r) \/ ResyncServer(r) \/ SetOrphaned(r) \/ Adopt(r)

Next ==
  \/ \E p \in Pushes :
       PushStep(p) \/ Refused(p) \/ ReportStep(p) \/ StartPush(p) \/ SourceReports(p) \/ SourceGone(p)
         \/ Received(p) \/ Broken(p)
  \/ \E c \in 1..MaxCalls : PanelCalls(c) \/ CallStep(c)
  \/ \E r \in 1..Resyncs : ResyncStep(r)
  \/ \E t \in Threads : FinishStep(t) \/ HandlerDies(t)
  \/ AgentRestarts \/ Reconcile \/ finalize \/ CacheCatchesUp \/ Age \/ PanelDeletes

Spec == Init /\ [][Next]_vars

FairSpec ==
  /\ Spec
  /\ \A p \in Pushes : WF_vars(PushStep(p)) /\ WF_vars(ReportStep(p)) /\ WF_vars(Refused(p) \/ SourceReports(p))
                         /\ WF_vars(Received(p) \/ Broken(p))
  /\ \A c \in 1..MaxCalls : WF_vars(CallStep(c))
  /\ \A r \in 1..Resyncs : WF_vars(ResyncStep(r))
  /\ \A t \in Threads : WF_vars(FinishStep(t))
  /\ WF_vars(Reconcile) /\ WF_vars(finalize) /\ WF_vars(CacheCatchesUp) /\ WF_vars(Age)

----------------------------------------------------------------------------

Servers ==
  [mark : {"none", "fresh", "old"}, alloc : {"none", "old", "new"}, env : BOOLEAN, deleting : BOOLEAN,
   orphan : BOOLEAN, install : 0..MaxCalls, scripts : SUBSET (1..MaxCalls)]

\* Types; only an agent that runs receives, and a thread that ended left nothing
\* for the next handler.
TypeOK ==
  /\ panel \in [node : {"old", "here", "none"}, open : BOOLEAN]
  /\ {gs, cache} \subseteq Servers \cup {NoServer}
  /\ volume \in {"absent", "empty", "partial", "whole"} /\ agent \in BOOLEAN
  /\ recv \subseteq Pushes /\ (recv # {} => agent) /\ source \in [Pushes -> {"none", "sending", "failed", "over"}]
  /\ \A t \in Threads : th[t].cfg \in {"none", "old", "new"} /\ (At(t, "idle") => th[t] = Idle)
  /\ moved \in BOOLEAN /\ lost \in 0..MaxLost /\ calls \in [made : 0..MaxCalls, accepted : 0..MaxCalls]

\* Nothing of a server is exposed before the Panel moved it: a GameServer never
\* carries the old node's allocations, and a marked one carries none
\* (AdoptForTransfer, resyncTransfer).
NothingExposed ==
  gs # NoServer => gs.alloc # "old" /\ (gs.mark # "none" => gs.alloc = "none")

\* A server that the Panel moved here on a success stays here with all its
\* files: no report, lost answer, abandoned push or Resync removes it
\* (transferResult, FinishTransfer, resyncTransfer).
MovedKept ==
  moved /\ panel.node = "here" => gs # NoServer /\ ~gs.deleting /\ volume = "whole"

\* Every install that the gateway accepted has a generation and a script of its
\* own, whichever replicas took the calls and whether Resync adopted the server
\* before it was created (Create, RequestInstall, UpdateSpec).
InstallsCounted ==
  panel.node = "here" /\ calls.accepted > 0 =>
    /\ gs # NoServer
    /\ gs.install >= calls.accepted /\ Cardinality(gs.scripts) >= calls.accepted

\* What resyncTransfer says of a mark that is a day old, "its push ended without
\* a report" (serversync.go:566): nothing is being received when it is removed.
\* It does not hold for a push of more than a day, or one that reuses the mark.
StaleEnded ==
  [][\A r \in 1..Resyncs : At(Resync(r), "delete") /\ ~At(Resync(r), "delete")' => recv = {}]_vars

\* A push that creates its server starts on an empty volume, whatever an
\* earlier attempt left and the class's policy says (finalize, FinishTransfer).
FreshVolume ==
  [][(gs = NoServer /\ gs' # NoServer /\ gs'.mark # "none") => volume = "absent"]_vars

Settled ==
  /\ panel.node = "old" => gs = NoServer
  /\ panel.node = "here" =>
       /\ gs # NoServer
       /\ gs.mark = "none" /\ gs.alloc = "new" /\ ~gs.orphan /\ (moved => gs.env)
  /\ panel.node = "none" => gs = NoServer \/ gs.orphan

\* Whatever is lost on the way, in the end the cluster agrees with the Panel: a
\* server it moved here is unmarked and has its new allocations, a copy of one
\* it did not move is gone, and a server it no longer has is gone or marked
\* Orphaned (transferResult, giveUp, Resync).
Settles == <>[]Settled
=============================================================================

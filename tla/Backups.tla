------------------------------ MODULE Backups ------------------------------
(***************************************************************************)
(* The records of the backups and restores an agent runs                   *)
(* (status.backups.pending).  A gateway replica records a backup before it *)
(* proxies the Panel's request to the agent (backupProxy), lets the        *)
(* agent's calls about it through while it is recorded and clears the      *)
(* record with its result (backup).  While a record is live the agent is   *)
(* not moved and the Panel's server states are not reset                   *)
(* (resetServersState).                                                    *)
(*                                                                         *)
(* A record names the agent instance, a number that grows with every       *)
(* start; a restarted agent keeps the address of its pod, so a request     *)
(* reaches whichever runs when it arrives.  Each replica reads the         *)
(* GameServer and the agent pod from caches that lag, independently of     *)
(* each other and of its own writes; instead of versions the model keeps   *)
(* whether a cache is up to date.  The Panel asks for a backup again (its  *)
(* restore) once nothing is under way for it as far as it has been told.   *)
(*                                                                         *)
(* gap names what can leave a running backup without its record, or a      *)
(* record without its backup:                                              *)
(*   "answer"    the agent took the request but its answer got lost        *)
(*   "instance"  recorded as one agent instance, run by a later one        *)
(*   "pod"       left out by a writer whose pod cache was behind           *)
(*   "cache"     not recorded, as the cache still showed an earlier record *)
(*   "late"      cleared by the result of an earlier run                   *)
(*   "own"       not dropped, as the cache did not show the record yet     *)
(*   "lag"       a call refused, as the cache did not show the record yet  *)
(*   "panel"     cleared though the Panel answered with an error           *)
(*   "error", "crash"   a failed write, a crash of the replica             *)
(***************************************************************************)
EXTENDS Naturals, FiniteSets

CONSTANTS
  Replicas,  \* gateway replicas
  Names,     \* backups
  None,      \* no replica
  MaxRequests, \* bound: requests of the Panel
  MaxTrouble   \* bound: agent restarts, lost answers, errors and crashes together

ASSUME BackupsAssumption == MaxRequests \in Nat /\ MaxTrouble \in Nat /\ None \notin Replicas

VARIABLES
  inst,     \* the agent instance
  up,       \* it runs
  view,     \* the instance each replica's pod cache shows, 0 without a pod
  pending,  \* status.backups.pending: pairs of backup and instance
  cache,    \* pending in each replica's cache
  fresh,    \* the replicas whose cache shows the GameServer as it is
  pc,       \* the request of each backup: where backupProxy is
  at,       \* its replica
  rec,      \* the instance it recorded
  added,    \* it added the record
  run,      \* the agent's side: "no", "running" up to its result, "told": the Panel has it
  post,     \* the result post: where backup is
  to,       \* its replica
  gap,      \* the first gap that opened for each backup, "" without
  requests, trouble

gs == <<pending, cache, fresh>>
agent == <<inst, up, view>>
request == <<pc, at, rec, added>>
result == <<post, to>>
budget == <<requests, trouble>>
vars == <<agent, gs, request, run, result, gap, budget>>

Gaps == {"answer", "instance", "pod", "cache", "late", "own", "lag", "panel", "error", "crash"}
Trouble == trouble > 0 /\ trouble' = trouble - 1 /\ UNCHANGED requests

Init ==
  /\ inst = 1 /\ up = TRUE /\ view = [r \in Replicas |-> 1]
  /\ pending = {} /\ cache = [r \in Replicas |-> {}] /\ fresh = Replicas
  /\ pc = [b \in Names |-> "idle"] /\ at = [b \in Names |-> None]
  /\ rec = [b \in Names |-> 0] /\ added = [b \in Names |-> FALSE]
  /\ run = [b \in Names |-> "no"]
  /\ post = [b \in Names |-> "none"] /\ to = [b \in Names |-> None]
  /\ gap = [b \in Names |-> ""]
  /\ requests = MaxRequests /\ trouble = MaxTrouble

Active(b) == run[b] = "running"
Under(b) == pc[b] \in {"proxy", "answer"} \/ Active(b)
Recorded(b) == <<b, inst>> \in pending

----------------------------------------------------------------------------
(* Store.UpdateBackups.                                                    *)

Live(r) == {p \in cache[r] : view[r] # 0 /\ p[2] = view[r]}

\* What resetServersState and the operator wait for.
busy(r, b) == \E p \in Live(r) : p[1] = b

\* Mutant: the write is not conditional on the version read.
PatchStatus(r, new) ==
  IF new = cache[r] THEN UNCHANGED <<pending, fresh>>
  ELSE pending' = new /\ fresh' = {}

\* Nothing to write, or a write at the version read; after a conflict it is
\* tried again on a later read.
Update(r, new) ==
  IF new = cache[r] THEN UNCHANGED <<pending, fresh>>
  ELSE r \in fresh /\ pending' = new /\ fresh' = {}

with(r, b) == Live(r) \cup {<<b, view[r]>>}
withoutBackup(r, b) == {p \in Live(r) : p[1] # b}

\* What an update at r leaves out because its pod cache is behind.
LeftOut(r, new) == {c \in Names : view[r] # inst /\ Recorded(c) /\ new # cache[r] /\ <<c, inst>> \notin new}

\* The gaps an update at r opens: g for b where open says so.
Open(b, g, open, r, new) ==
  gap' = [c \in Names |-> IF gap[c] # "" THEN gap[c]
                          ELSE IF c = b /\ open THEN g
                          ELSE IF c \in LeftOut(r, new) THEN "pod" ELSE ""]
Name(b, g) == gap' = [gap EXCEPT ![b] = IF @ = "" THEN g ELSE @]

----------------------------------------------------------------------------
(* backupProxy.                                                            *)

\* The Panel asks for a backup or its restore; Agents.Wait finds the agent.
Request(b, r) ==
  /\ pc[b] = "idle" /\ ~Active(b) /\ view[r] # 0
  /\ requests > 0 /\ requests' = requests - 1
  /\ pc' = [pc EXCEPT ![b] = "record"] /\ at' = [at EXCEPT ![b] = r]
  /\ UNCHANGED <<agent, gs, rec, added, run, result, gap, trouble>>

Record(b) ==
  LET r == at[b]  new == with(r, b) IN
  /\ pc[b] = "record"
  /\ Update(r, new)
  /\ pc' = [pc EXCEPT ![b] = "proxy"]
  /\ rec' = [rec EXCEPT ![b] = view[r]]
  /\ added' = [added EXCEPT ![b] = (new # Live(r))]
  /\ Open(b, "cache", new = cache[r] /\ <<b, view[r]>> \notin pending, r, new)
  /\ UNCHANGED <<agent, cache, at, run, result, budget>>

\* The record is not written; the request goes on.
RecordFails(b) ==
  /\ pc[b] = "record"
  /\ Trouble
  /\ pc' = [pc EXCEPT ![b] = "proxy"]
  /\ \E a \in BOOLEAN : added' = [added EXCEPT ![b] = a]
  /\ Name(b, "error")
  /\ UNCHANGED <<agent, gs, at, rec, run, result>>

\* A handler that has returned keeps nothing.
Move(next) ==
  /\ pc' = next
  /\ at' = [b \in Names |-> IF next[b] = "idle" THEN None ELSE at[b]]
  /\ rec' = [b \in Names |-> IF next[b] = "idle" THEN 0 ELSE rec[b]]
  /\ added' = [b \in Names |-> IF next[b] = "idle" THEN FALSE ELSE added[b]]

\* Mutant: a request that fails is over.
Returned(b) == "idle"

\* After an answer other than 2xx.
Refused(b) == IF added[b] THEN "drop" ELSE "idle"

\* The agent takes the request and starts.
Accept(b) ==
  /\ pc[b] = "proxy" /\ up
  /\ pc' = [pc EXCEPT ![b] = "answer"]
  /\ run' = [run EXCEPT ![b] = "running"]
  /\ IF rec[b] # inst THEN Name(b, "instance") ELSE UNCHANGED gap
  /\ UNCHANGED <<agent, gs, at, rec, added, post, to, budget>>

\* The agent refuses, or cannot be reached.
Refuse(b) ==
  /\ pc[b] = "proxy"
  /\ Move([pc EXCEPT ![b] = Refused(b)])
  /\ UNCHANGED <<agent, gs, run, result, gap, budget>>

Answer(b) ==
  /\ pc[b] = "answer"
  /\ \/ Move([pc EXCEPT ![b] = "idle"]) /\ UNCHANGED budget
     \/ Move([pc EXCEPT ![b] = Refused(b)]) /\ Trouble
  /\ UNCHANGED <<agent, gs, run, result, gap>>

Drop(b) ==
  LET r == at[b]  new == withoutBackup(r, b) IN
  /\ pc[b] = "drop"
  /\ Update(r, new)
  /\ Move([pc EXCEPT ![b] = "idle"])
  /\ IF new = cache[r] THEN Open(b, "own", Recorded(b), r, new)
                       ELSE Open(b, "answer", Active(b), r, new)
  /\ UNCHANGED <<agent, cache, run, result, budget>>

DropFails(b) ==
  /\ pc[b] = "drop"
  /\ Trouble
  /\ Move([pc EXCEPT ![b] = "idle"])
  /\ Name(b, "error")
  /\ UNCHANGED <<agent, gs, run, result>>

----------------------------------------------------------------------------
(* backup: the agent posts a result.                                       *)

\* Mutant: only an entry of the instance the pod cache shows counts.
AllowedLive(r, b) == busy(r, b)

Allowed(r, b) == \E p \in cache[r] : p[1] = b

\* The agent has finished.  A call about an unknown backup is refused, and not
\* repeated.
Post(b, r) ==
  /\ Active(b) /\ post[b] = "none"
  /\ IF Allowed(r, b)
       THEN /\ post' = [post EXCEPT ![b] = "forward"] /\ to' = [to EXCEPT ![b] = r]
            /\ UNCHANGED <<run, gap>>
       ELSE /\ run' = [run EXCEPT ![b] = "no"]
            /\ IF Recorded(b) /\ <<b, inst>> \notin cache[r] THEN Name(b, "lag") ELSE UNCHANGED gap
            /\ UNCHANGED <<post, to>>
  /\ UNCHANGED <<agent, gs, request, budget>>

\* Panel.Do: the Panel takes the result, answers with an error, which the
\* agent gets after the record is cleared, or cannot be reached.
Forward(b) ==
  /\ post[b] = "forward"
  /\ \/ /\ post' = [post EXCEPT ![b] = "clear"]
        /\ run' = [run EXCEPT ![b] = IF @ = "running" THEN "told" ELSE @]
        /\ UNCHANGED <<to, gap, budget>>
     \/ /\ Trouble
        /\ post' = [post EXCEPT ![b] = "clear"] /\ Name(b, "panel")
        /\ UNCHANGED <<to, run>>
     \/ /\ Trouble
        /\ post' = [post EXCEPT ![b] = "none"] /\ to' = [to EXCEPT ![b] = None]
        /\ UNCHANGED <<run, gap>>
  /\ UNCHANGED <<agent, gs, request>>

\* backup returns.
Responded(b) ==
  /\ post' = [post EXCEPT ![b] = "none"] /\ to' = [to EXCEPT ![b] = None]
  /\ run' = [run EXCEPT ![b] = IF @ = "told" THEN "no" ELSE @]

Clear(b) ==
  LET r == to[b]  new == withoutBackup(r, b) IN
  /\ post[b] = "clear"
  /\ Update(r, new)
  /\ Responded(b)
  /\ IF new = cache[r] THEN Open(b, "own", Recorded(b), r, new)
                       ELSE Open(b, "late", Under(b), r, new)
  /\ UNCHANGED <<agent, cache, request, budget>>

ClearFails(b) ==
  /\ post[b] = "clear"
  /\ Trouble
  /\ Responded(b)
  /\ Name(b, "error")
  /\ UNCHANGED <<agent, gs, request>>

----------------------------------------------------------------------------
(* Agent, caches, replicas.                                                *)

\* The agent ends, its work with it; a request it has not answered fails, and
\* a result on its way to the Panel arrives or not.
AgentEnds ==
  /\ up /\ Trouble
  /\ up' = FALSE
  /\ run' = [b \in Names |-> IF Active(b) THEN "no" ELSE run[b]]
  /\ Move([b \in Names |-> IF pc[b] = "answer" THEN Refused(b) ELSE pc[b]])
  /\ \E lost \in SUBSET {b \in Names : post[b] = "forward"} :
       /\ post' = [b \in Names |-> IF b \in lost THEN "none" ELSE IF post[b] = "forward" THEN "clear" ELSE post[b]]
       /\ to' = [b \in Names |-> IF b \in lost THEN None ELSE to[b]]
  /\ UNCHANGED <<inst, view, gs, gap>>

AgentBoots ==
  /\ ~up
  /\ up' = TRUE /\ inst' = inst + 1
  /\ UNCHANGED <<view, gs, request, run, result, gap, budget>>

AgentInstance == IF up THEN inst ELSE 0

SeePod(r) ==
  /\ view[r] # AgentInstance
  /\ view' = [view EXCEPT ![r] = AgentInstance]
  /\ UNCHANGED <<inst, up, gs, request, run, result, gap, budget>>

SeeServer(r) ==
  /\ r \notin fresh
  /\ cache' = [cache EXCEPT ![r] = pending] /\ fresh' = fresh \cup {r}
  /\ UNCHANGED <<agent, pending, request, run, result, gap, budget>>

\* A replica crashes and starts again: its requests fail, the agent repeats a
\* post that was not answered.
Crash(r) ==
  /\ Trouble
  /\ Move([b \in Names |-> IF at[b] = r THEN "idle" ELSE pc[b]])
  /\ post' = [b \in Names |-> IF to[b] = r THEN "none" ELSE post[b]]
  /\ to' = [b \in Names |-> IF to[b] = r THEN None ELSE to[b]]
  /\ run' = [b \in Names |-> IF to[b] = r /\ run[b] = "told" THEN "no" ELSE run[b]]
  /\ gap' = [b \in Names |-> IF gap[b] = "" /\ (\/ at[b] = r /\ pc[b] \in {"proxy", "drop"}
                                                \/ to[b] = r /\ post[b] = "clear")
                             THEN "crash" ELSE gap[b]]
  /\ view' = [view EXCEPT ![r] = AgentInstance]
  /\ cache' = [cache EXCEPT ![r] = pending] /\ fresh' = fresh \cup {r}
  /\ UNCHANGED <<inst, up, pending>>

Proxy(b) == Record(b) \/ RecordFails(b) \/ Accept(b) \/ Refuse(b) \/ Answer(b) \/ Drop(b) \/ DropFails(b)
Result(b) == (\E r \in Replicas : Post(b, r)) \/ Forward(b) \/ Clear(b) \/ ClearFails(b)

Progress ==
  \/ \E b \in Names : Proxy(b) \/ Result(b)
  \/ AgentBoots
  \/ \E r \in Replicas : SeePod(r) \/ SeeServer(r)

Next ==
  \/ Progress
  \/ AgentEnds
  \/ \E r \in Replicas : Crash(r) \/ \E b \in Names : Request(b, r)

Spec == Init /\ [][Next]_vars

\* Something that can go on does: a handler, a backup and its report, an agent
\* that ended and is started again, a cache that catches up.
FairSpec == Spec /\ WF_vars(Progress)

----------------------------------------------------------------------------
\* The types; only an agent that is up runs something.
TypeOK ==
  /\ inst \in Nat \ {0} /\ up \in BOOLEAN /\ view \in [Replicas -> 0..inst]
  /\ pending \subseteq Names \X Nat /\ cache \in [Replicas -> SUBSET (Names \X Nat)]
  /\ fresh \subseteq Replicas
  /\ pc \in [Names -> {"idle", "record", "proxy", "answer", "drop"}] /\ at \in [Names -> Replicas \cup {None}]
  /\ rec \in [Names -> 0..inst] /\ added \in [Names -> BOOLEAN]
  /\ run \in [Names -> {"no", "running", "told"}]
  /\ post \in [Names -> {"none", "forward", "clear"}] /\ to \in [Names -> Replicas \cup {None}]
  /\ gap \in [Names -> Gaps \cup {""}] /\ requests \in Nat /\ trouble \in Nat
  /\ \A b \in Names : Active(b) => up

(***************************************************************************)
(* A backup the agent runs, up to its result, is recorded for that very    *)
(* instance, which protects the agent from being moved and lets its calls  *)
(* through (backupProxy: "Recorded before the agent sees the request";     *)
(* UpdateBackups: "concurrent writers on several gateway replicas never    *)
(* drop or bring back each other's entries"), however requests, results    *)
(* and agent restarts interleave over several replicas.  The ways out are  *)
(* the named gaps of this backup.                                          *)
(***************************************************************************)
RunningRecorded == \A b \in Names : Active(b) => Recorded(b) \/ gap[b] # ""

(***************************************************************************)
(* The agent's result reaches the Panel: a post about a backup is given up *)
(* (a 404 of the remote API) only when the Panel has it, when one of the   *)
(* gaps of this backup opened or when the agent has ended.                 *)
(***************************************************************************)
ResultForwarded ==
  [][\A b \in Names : Active(b) /\ run'[b] = "no" /\ up' => gap'[b] # ""]_vars

(***************************************************************************)
(* No record outlives its backup: once requests and agent restarts end,    *)
(* each has been refused, reported or lost with its agent and is no longer *)
(* live at any replica, up to the gaps of its backup (backupProxy: an      *)
(* agent that refuses "runs nothing, so its record is dropped again";      *)
(* UpdateBackups: "entries of an earlier one ended with it").  A record    *)
(* that stayed live would keep the agent from moving and the gateway from  *)
(* its reset of the Panel's server states.                                 *)
(***************************************************************************)
RecordsEnd == <>[](\A r \in Replicas, b \in Names : busy(r, b) => gap[b] # "")

(***************************************************************************)
(* What UpdateBackups says without exception: "concurrent writers on       *)
(* several gateway replicas never drop or bring back each other's          *)
(* entries".  The entry of the instance that runs is dropped for its own   *)
(* backup only, refused or reported.                                       *)
(***************************************************************************)
EntriesKept ==
  [][\A b \in Names : Recorded(b) /\ inst' = inst /\ ~Recorded(b)' =>
       (pc[b] = "drop" /\ pc'[b] # "drop") \/ (post[b] = "clear" /\ post'[b] # "clear")]_vars
=============================================================================

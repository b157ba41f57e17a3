---------------------------- MODULE ProcessState ----------------------------
(***************************************************************************)
(* How the gateway's replicas keep status.process: every change of the     *)
(* process is posted by the agent from a goroutine of its own, to any      *)
(* replica and in any order (remoteapi.containerStatus).  A handler takes  *)
(* its replica's lock, reads the GameServer from a cache that may lag,     *)
(* polls the agent and writes conditionally on the version it read; when   *)
(* the poll fails it writes the posted state and a background repoll of    *)
(* that replica goes on until the agent answers.                           *)
(*                                                                         *)
(* The n-th state of the process is the number n: what the properties tell *)
(* apart is which state is newer.  A thread is a post, named by the number *)
(* of the state it carries, or the repoll of a replica, named by it.       *)
(* Not here: the operator's settleProcess, which writes the same field for *)
(* a server without a game pod, and the derived stop (module Power).       *)
(***************************************************************************)
EXTENDS Naturals

CONSTANTS
  Replicas,    \* gateway replicas
  NoAnswer,    \* a poll that failed
  Steps,       \* attempts of a state write (stateWriteBackoff.Steps)
  Rounds,      \* polls of a repoll before its deadline (RepollFor / RepollEvery)
  MaxChanges,  \* bound: changes of the process
  MaxFails,    \* bound: polls that fail
  MaxStale,    \* bound: reads of a lagging cache
  MaxOther,    \* bound: other writes of the GameServer
  MaxErrors,   \* bound: calls of the API server that fail
  MaxCrashes   \* bound: replicas that crash

ASSUME ReplicasAssumption == Replicas \cap Nat = {} /\ NoAnswer \notin Nat
ASSUME BoundsAssumption ==
  /\ {MaxChanges, MaxFails, MaxStale, MaxOther, MaxErrors, MaxCrashes} \subseteq Nat
  /\ {Steps, Rounds} \subseteq Nat \ {0}

VARIABLES
  changes,   \* the state of the process, as the number of its changes
  recorded,  \* status.process.state
  claimed,   \* recorded comes from a post, no answer has confirmed it
  rv,        \* the resourceVersion of the GameServer
  pc,        \* where each thread is
  at,        \* the replica a post was sent to
  seen,      \* the resourceVersion each thread read
  got,       \* what each thread's poll answered
  tries,     \* attempts of the current writeState
  rounds,    \* polls of the current repoll
  repolling, \* Handler.repolling of each replica
  gaps,      \* ways in which the last state may have gone unrecorded
  budget     \* what is left of the bounds

gs == <<recorded, claimed, rv>>
thread == <<pc, at, seen, got, tries, rounds>>
vars == <<changes, gs, thread, repolling, gaps, budget>>

Posts == 1..MaxChanges
Threads == Posts \cup Replicas
Kinds == {"fail", "stale", "other", "error", "crash"}
Gaps == {"deadline", "window", "tries", "error", "crash"}

At(t) == IF t \in Replicas THEN t ELSE at[t]

\* The stripe of statusMu: one thread of a replica is past Lock at a time.
Holding == {"read", "poll", "write", "unlock"}
Free(r) == \A t \in Threads : At(t) = r => pc[t] \notin Holding

Spend(k) == budget[k] > 0 /\ budget' = [budget EXCEPT ![k] = @ - 1]
Goto(t, l) == pc' = [pc EXCEPT ![t] = l]

Init ==
  /\ changes = 0 /\ recorded = 0 /\ claimed = FALSE /\ rv = 0
  /\ pc = [t \in Threads |-> "idle"]
  /\ at \in [Posts -> Replicas]
  /\ seen = [t \in Threads |-> 0]
  /\ got = [t \in Threads |-> NoAnswer]
  /\ tries = [t \in Threads |-> 0]
  /\ rounds = [r \in Replicas |-> 0]
  /\ repolling = [r \in Replicas |-> FALSE]
  /\ gaps = {}
  /\ budget = [k \in Kinds |-> CASE k = "fail" -> MaxFails [] k = "stale" -> MaxStale
                                 [] k = "other" -> MaxOther [] k = "error" -> MaxErrors
                                 [] k = "crash" -> MaxCrashes]

----------------------------------------------------------------------------
\* The process changes and its post goes out, to the replica at says.
Change ==
  /\ changes < MaxChanges
  /\ changes' = changes + 1
  /\ Goto(changes + 1, "lock")
  /\ UNCHANGED <<gs, at, seen, got, tries, rounds, repolling, gaps, budget>>

\* Mutant: a post that finds the lock taken leaves it to the one that has it.
LockOrSkip(t) ==
  /\ pc[t] = "lock"
  /\ Free(At(t)) \/ t \in Posts
  /\ Goto(t, IF Free(At(t)) THEN "read" ELSE "done")
  /\ rounds' = IF t \in Replicas THEN [rounds EXCEPT ![t] = @ + 1] ELSE rounds
  /\ UNCHANGED <<changes, gs, at, seen, got, tries, repolling, gaps, budget>>

\* recordState and a round of repollState take the lock.
Lock(t) ==
  /\ pc[t] = "lock"
  /\ Free(At(t))
  /\ Goto(t, "read")
  /\ rounds' = IF t \in Replicas THEN [rounds EXCEPT ![t] = @ + 1] ELSE rounds
  /\ UNCHANGED <<changes, gs, at, seen, got, tries, repolling, gaps, budget>>

\* Store.Get: the informer cache may show an earlier version.
Get(t) ==
  /\ pc[t] = "read"
  /\ Goto(t, "poll")
  /\ \/ seen' = [seen EXCEPT ![t] = rv] /\ UNCHANGED budget
     \/ rv > 0 /\ seen' = [seen EXCEPT ![t] = rv - 1] /\ Spend("stale")
  /\ UNCHANGED <<changes, gs, at, got, tries, rounds, repolling, gaps>>

\* The read or the write fails other than by a conflict: writeState gives up.
\* A repoll goes on unless an attempt of this round has been answered.
Fails(t) ==
  /\ pc[t] \in {"read", "write"}
  /\ Spend("error")
  /\ Goto(t, "unlock")
  /\ gaps' = IF t \in Replicas /\ got[t] = NoAnswer THEN gaps ELSE gaps \cup {"error"}
  /\ UNCHANGED <<changes, gs, at, seen, got, tries, rounds, repolling>>

\* Resolver.State with force: what the agent says now, never the cached state.
State == changes

\* agentState answers.
Answer(t) ==
  /\ pc[t] = "poll"
  /\ got' = [got EXCEPT ![t] = State]
  /\ Goto(t, "write")
  /\ UNCHANGED <<changes, gs, at, seen, tries, rounds, repolling, gaps, budget>>

\* Mutant: a post whose poll fails starts no repoll.
PostFailsOnly(t) ==
  /\ t \in Posts /\ pc[t] = "poll"
  /\ Spend("fail")
  /\ got' = [got EXCEPT ![t] = NoAnswer]
  /\ Goto(t, "write")
  /\ UNCHANGED <<changes, gs, at, seen, tries, rounds, repolling, gaps>>

\* agentState fails in recordState: the posted state is picked, and a repoll
\* starts unless one is registered already.  One that has answered but has
\* not deregistered yet will not poll again.
PostFails(t) ==
  /\ t \in Posts /\ pc[t] = "poll"
  /\ Spend("fail")
  /\ got' = [got EXCEPT ![t] = NoAnswer]
  /\ LET r == at[t] IN
       IF repolling[r]
         THEN /\ Goto(t, "write")
              /\ gaps' = IF pc[r] = "exit" THEN gaps \cup {"window"} ELSE gaps
              /\ UNCHANGED repolling
         ELSE /\ pc' = [pc EXCEPT ![t] = "write", ![r] = "lock"]
              /\ repolling' = [repolling EXCEPT ![r] = TRUE]
              /\ UNCHANGED gaps
  /\ UNCHANGED <<changes, gs, at, seen, tries, rounds>>

\* agentState fails in repollState: pick declines and nothing is written.
RepollFails(t) ==
  /\ t \in Replicas /\ pc[t] = "poll"
  /\ Spend("fail")
  /\ got' = [got EXCEPT ![t] = NoAnswer]
  /\ Goto(t, "unlock")
  /\ UNCHANGED <<changes, gs, at, seen, tries, rounds, repolling, gaps>>

\* What pick makes of the poll.
Picked(t) == IF got[t] = NoAnswer THEN t ELSE got[t]

\* Mutant: the write is not conditional.
PatchStatus(t) == TRUE

\* PatchStatusAt: applied only at the version read, otherwise a conflict.
PatchStatusAt(t) == seen[t] = rv

\* writeState: the conditional write; a conflict starts over with a fresh
\* read and poll until the attempts are used up.
Write(t) ==
  /\ pc[t] = "write"
  /\ IF PatchStatusAt(t)
       THEN /\ recorded' = Picked(t)
            /\ claimed' = (got[t] = NoAnswer)
            /\ rv' = rv + 1
            /\ Goto(t, "unlock")
            /\ UNCHANGED <<tries, gaps>>
       ELSE /\ tries' = [tries EXCEPT ![t] = @ + 1]
            /\ Goto(t, IF tries[t] + 1 < Steps THEN "read" ELSE "unlock")
            /\ gaps' = IF tries[t] + 1 < Steps THEN gaps ELSE gaps \cup {"tries"}
            /\ UNCHANGED gs
  /\ UNCHANGED <<changes, at, seen, got, rounds, repolling, budget>>

\* The locals of a writeState that has returned.
Forget(t) ==
  /\ seen' = [seen EXCEPT ![t] = 0]
  /\ got' = [got EXCEPT ![t] = NoAnswer]
  /\ tries' = [tries EXCEPT ![t] = 0]

\* The lock is released.  A repoll that was answered ends, also when its
\* write lost every attempt; one without an answer goes on to its deadline.
Unlock(t) ==
  /\ pc[t] = "unlock"
  /\ Forget(t)
  /\ \/ /\ t \in Posts
        /\ Goto(t, "done")
        /\ UNCHANGED gaps
     \/ /\ t \in Replicas /\ got[t] # NoAnswer
        /\ Goto(t, "exit")
        /\ UNCHANGED gaps
     \/ /\ t \in Replicas /\ got[t] = NoAnswer /\ rounds[t] < Rounds
        /\ Goto(t, "lock")
        /\ UNCHANGED gaps
     \/ /\ t \in Replicas /\ got[t] = NoAnswer /\ rounds[t] >= Rounds
        /\ Goto(t, "exit")
        /\ gaps' = gaps \cup {"deadline"}
  /\ UNCHANGED <<changes, gs, at, rounds, repolling, budget>>

\* The deferred repolling.Delete, after the lock is free again.
Deregister(r) ==
  /\ pc[r] = "exit"
  /\ Goto(r, "idle")
  /\ repolling' = [repolling EXCEPT ![r] = FALSE]
  /\ rounds' = [rounds EXCEPT ![r] = 0]
  /\ UNCHANGED <<changes, gs, at, seen, got, tries, gaps, budget>>

\* Any other write of the GameServer: the operator's, the Panel's.
OtherWrite ==
  /\ Spend("other")
  /\ rv' = rv + 1
  /\ UNCHANGED <<changes, recorded, claimed, thread, repolling, gaps>>

\* A replica crashes: the posts it was handling and its repoll are gone.
Crash(r) ==
  /\ Spend("crash")
  /\ pc' = [t \in Threads |-> IF At(t) # r THEN pc[t]
                              ELSE IF t \in Posts /\ pc[t] # "idle" THEN "done" ELSE "idle"]
  /\ repolling' = [repolling EXCEPT ![r] = FALSE]
  /\ rounds' = [rounds EXCEPT ![r] = 0]
  /\ seen' = [t \in Threads |-> IF At(t) = r THEN 0 ELSE seen[t]]
  /\ got' = [t \in Threads |-> IF At(t) = r THEN NoAnswer ELSE got[t]]
  /\ tries' = [t \in Threads |-> IF At(t) = r THEN 0 ELSE tries[t]]
  /\ gaps' = gaps \cup {"crash"}
  /\ UNCHANGED <<changes, gs, at>>

Step(t) ==
  Lock(t) \/ Get(t) \/ Fails(t) \/ Answer(t) \/ PostFails(t) \/ RepollFails(t) \/ Write(t) \/ Unlock(t)

Next ==
  \/ Change
  \/ OtherWrite
  \/ \E t \in Threads : Step(t)
  \/ \E r \in Replicas : Deregister(r) \/ Crash(r)

Spec == Init /\ [][Next]_vars

\* A handler and a repoll that can go on do: they only wait for the lock, for
\* the agent and for the API server, each of which answers or times out.
FairSpec ==
  /\ Spec
  /\ \A t \in Threads : WF_vars(Step(t))
  /\ \A r \in Replicas : WF_vars(Deregister(r))

----------------------------------------------------------------------------
TypeOK ==
  /\ changes \in 0..MaxChanges /\ rv \in Nat
  /\ recorded \in 0..MaxChanges /\ claimed \in BOOLEAN
  /\ pc \in [Threads -> {"idle", "lock", "exit", "done"} \cup Holding]
  /\ at \in [Posts -> Replicas]
  /\ seen \in [Threads -> Nat]
  /\ got \in [Threads -> 0..MaxChanges \cup {NoAnswer}]
  /\ tries \in [Threads -> Nat] /\ rounds \in [Replicas -> Nat]
  /\ repolling \in [Replicas -> BOOLEAN]
  /\ gaps \subseteq Gaps
  /\ budget \in [Kinds -> Nat]

(***************************************************************************)
(* The detailed gateway implements the register: a state the agent         *)
(* answered never replaces a newer one, whichever replica polled it and    *)
(* however its read, poll and write interleave with another's              *)
(* (writeState: "a poll that lost the race to a newer one is retried       *)
(* rather than written over it"), and only a post whose poll failed may    *)
(* put an older state back.                                                *)
(***************************************************************************)
Register == INSTANCE ProcessRegister
RegisterSpec == Register!Spec

\* A registered repoll that will still poll, or has polled and not yet written.
Owes(r) ==
  /\ repolling[r]
  /\ \/ pc[r] \in {"lock", "read", "poll", "write"}
     \/ pc[r] = "unlock" /\ got[r] = NoAnswer

(***************************************************************************)
(* A state recorded on a post's word alone is owed a poll: a repoll of     *)
(* some replica is registered and has not had its answer yet (recordState: *)
(* "the agent is polled again in the background until it answers").  The   *)
(* ways out are named: the repoll ran into its deadline, lost every        *)
(* attempt of its write or met an error, crashed with its replica, or had  *)
(* its answer but was still registered when the post came.                 *)
(***************************************************************************)
ClaimIsOwedPoll == claimed => gaps # {} \/ \E r \in Replicas : Owes(r)

(***************************************************************************)
(* Once the process stays put, its last state ends up recorded, after any  *)
(* order of posts, failed polls, lagging reads and conflicts, unless one   *)
(* of the named gaps opened.                                               *)
(***************************************************************************)
LastStateRecorded == <>[](recorded = changes \/ gaps # {})

(***************************************************************************)
(* What the comment of recordState says without exception: polls are       *)
(* repeated "until it answers, because no further post comes while its     *)
(* state stays put", so with attempts and time to spare and no crash a     *)
(* state recorded on a post's word is confirmed in the end.                *)
(***************************************************************************)
ClaimConfirmed == claimed ~> (~claimed \/ gaps \cap {"deadline", "tries", "error", "crash"} # {})
=============================================================================

------------------------- MODULE ProcessStateProofs -------------------------
(***************************************************************************)
(* What the gateway's replicas keep in status.process, for any number of   *)
(* replicas, posts, failed polls, conflicts, lagging reads and crashes:    *)
(* they implement the register, and a state recorded on the word of a post *)
(* is owed a poll or one of the named gaps opened.                         *)
(***************************************************************************)
EXTENDS ProcessState, TLAPS

\* An answer at hand for a write that would be applied is not older than what
\* is recorded: a newer one would have moved the version on.
AnswersNewer ==
  \A t \in Threads :
    pc[t] = "write" /\ got[t] # NoAnswer =>
      got[t] <= changes /\ (seen[t] = rv => recorded <= got[t])

\* What was read is not ahead of the GameServer.
SeenPast == \A t \in Threads : pc[t] \in {"poll", "write"} => seen[t] <= rv

\* Nothing is posted or recorded before it happened, and a repoll writes only
\* answers.
Past ==
  /\ recorded <= changes
  /\ \A t \in Posts : pc[t] # "idle" => t <= changes
  /\ \A r \in Replicas : pc[r] = "write" => got[r] # NoAnswer

\* The inductive invariant of the refinement.
RInv == TypeOK /\ AnswersNewer /\ SeenPast /\ Past

\* The lock has one holder in each replica, and a repoll is registered while it
\* runs.
OneHolder ==
  \A t, u \in Threads :
    At(t) = At(u) /\ pc[t] \in Holding /\ pc[u] \in Holding => t = u
Registered == \A r \in Replicas : pc[r] # "done" /\ (repolling[r] <=> pc[r] # "idle")

\* A post about to write its own state is owed a poll by the replica it holds.
PostIsOwedPoll ==
  \A t \in Posts : pc[t] = "write" /\ got[t] = NoAnswer => gaps # {} \/ Owes(at[t])

\* The inductive invariant of ClaimIsOwedPoll.
OInv == RInv /\ OneHolder /\ Registered /\ PostIsOwedPoll /\ ClaimIsOwedPoll

----------------------------------------------------------------------------

\* Threads of the two kinds are told apart.
LEMMA ThreadKinds ==
  /\ \A t \in Posts : t \in Nat /\ t \notin Replicas /\ At(t) = at[t] /\ t >= 1 /\ t <= MaxChanges
  /\ \A r \in Replicas : r \notin Posts /\ At(r) = r
  BY ReplicasAssumption, BoundsAssumption DEF Posts, At

\* What is spent of a bound leaves a bound.
LEMMA SpendType ==
  ASSUME TypeOK, NEW k \in Kinds, Spend(k)
  PROVE  budget' \in [Kinds -> Nat]
  BY DEF TypeOK, Spend

\* The initial states satisfy the types.
LEMMA InitType == Init => TypeOK
  <1> SUFFICES ASSUME Init PROVE TypeOK OBVIOUS
  <1>1. budget \in [Kinds -> Nat]
    <2>1. ASSUME NEW k \in Kinds
          PROVE  (CASE k = "fail" -> MaxFails [] k = "stale" -> MaxStale [] k = "other" -> MaxOther
                    [] k = "error" -> MaxErrors [] k = "crash" -> MaxCrashes) \in Nat
      BY BoundsAssumption DEF Kinds
    <2>2. QED BY <2>1 DEF Init
  <1>2. QED
    <2>1. MaxChanges \in Nat BY BoundsAssumption
    <2>2. changes \in 0..MaxChanges /\ rv \in Nat /\ recorded \in 0..MaxChanges BY <2>1 DEF Init
    <2>3. claimed \in BOOLEAN /\ repolling \in [Replicas -> BOOLEAN] /\ gaps \subseteq Gaps BY DEF Init
    <2>4. /\ pc \in [Threads -> {"idle", "lock", "exit", "done"} \cup Holding]
          /\ at \in [Posts -> Replicas]
          /\ got \in [Threads -> 0..MaxChanges \cup {NoAnswer}]
      BY DEF Init
    <2>5. /\ seen \in [Threads -> Nat]
          /\ tries \in [Threads -> Nat] /\ rounds \in [Replicas -> Nat]
      BY DEF Init
    <2>6. QED BY <1>1, <2>2, <2>3, <2>4, <2>5 DEF TypeOK

\* Every step preserves the types.
LEMMA NextType == TypeOK /\ Past /\ [Next]_vars => TypeOK'
  <1> SUFFICES ASSUME TypeOK, Past, [Next]_vars PROVE TypeOK' OBVIOUS
  <1> USE BoundsAssumption
  <1>1. CASE Change
    BY <1>1 DEF Change, Goto, TypeOK, Threads, Posts, Holding, gs
  <1>2. CASE OtherWrite
    <2>1. budget' \in [Kinds -> Nat] BY <1>2, SpendType DEF OtherWrite, Kinds
    <2>2. QED BY <1>2, <2>1 DEF OtherWrite, TypeOK, thread
  <1>3. ASSUME NEW t \in Threads, Step(t) PROVE TypeOK'
    <2>1. CASE Lock(t)
      BY <2>1 DEF Lock, Goto, TypeOK, Holding, gs
    <2>2. CASE Get(t)
      <3>1. budget' \in [Kinds -> Nat] BY <2>2, SpendType DEF Get, Kinds, TypeOK
      <3>2. seen' \in [Threads -> Nat] BY <2>2 DEF Get, TypeOK
      <3>3. QED BY <2>2, <3>1, <3>2 DEF Get, Goto, TypeOK, Holding, gs
    <2>3. CASE Fails(t)
      <3>1. budget' \in [Kinds -> Nat] BY <2>3, SpendType DEF Fails, Kinds
      <3>2. QED BY <2>3, <3>1 DEF Fails, Goto, TypeOK, Holding, gs, Gaps
    <2>4. CASE Answer(t)
      BY <2>4 DEF Answer, State, Goto, TypeOK, Holding, gs
    <2>5. CASE PostFails(t)
      <3>1. budget' \in [Kinds -> Nat] BY <2>5, SpendType DEF PostFails, Kinds
      <3>2. at[t] \in Replicas /\ at[t] \in Threads BY <2>5 DEF PostFails, TypeOK, Threads
      <3>3. QED BY <2>5, <3>1, <3>2 DEF PostFails, Goto, TypeOK, Holding, gs, Gaps
    <2>6. CASE RepollFails(t)
      <3>1. budget' \in [Kinds -> Nat] BY <2>6, SpendType DEF RepollFails, Kinds
      <3>2. QED BY <2>6, <3>1 DEF RepollFails, Goto, TypeOK, Holding, gs
    <2>7. CASE Write(t)
      <3>1. Picked(t) \in 0..MaxChanges
        BY <2>7, ThreadKinds DEF Write, Picked, TypeOK, Past, Threads
      <3>2. claimed' \in BOOLEAN BY <2>7 DEF Write, TypeOK, gs
      <3>3. recorded' \in 0..MaxChanges /\ rv' \in Nat BY <2>7, <3>1 DEF Write, TypeOK, gs
      <3>4. pc' \in [Threads -> {"idle", "lock", "exit", "done"} \cup Holding]
        BY <2>7 DEF Write, Goto, TypeOK, Holding
      <3>5. tries' \in [Threads -> Nat]
        <4>1. CASE PatchStatusAt(t) BY <2>7, <4>1 DEF Write, TypeOK
        <4>2. CASE ~PatchStatusAt(t) BY <2>7, <4>2 DEF Write, TypeOK
        <4>3. QED BY <4>1, <4>2
      <3>6. gaps' \subseteq Gaps BY <2>7 DEF Write, TypeOK, Gaps
      <3>7. QED BY <2>7, <3>2, <3>3, <3>4, <3>5, <3>6 DEF Write, TypeOK
    <2>8. CASE Unlock(t)
      BY <2>8 DEF Unlock, Forget, Goto, TypeOK, Holding, gs, Gaps
    <2>9. QED BY <1>3, <2>1, <2>2, <2>3, <2>4, <2>5, <2>6, <2>7, <2>8 DEF Step
  <1>4. ASSUME NEW r \in Replicas, Deregister(r) PROVE TypeOK'
    BY <1>4 DEF Deregister, Goto, TypeOK, Holding, gs, Threads
  <1>5. ASSUME NEW r \in Replicas, Crash(r) PROVE TypeOK'
    <2>1. budget' \in [Kinds -> Nat] BY <1>5, SpendType DEF Crash, Kinds
    <2>2. QED BY <1>5, <2>1 DEF Crash, TypeOK, Holding, gs, Gaps
  <1>6. CASE UNCHANGED vars
    BY <1>6 DEF vars, gs, thread, TypeOK
  <1>7. QED BY <1>1, <1>2, <1>3, <1>4, <1>5, <1>6 DEF Next

\* The order of reads, answers and writes is kept by every step.
LEMMA NextOrder ==
  ASSUME RInv, [Next]_vars
  PROVE  AnswersNewer' /\ SeenPast' /\ Past'
  <1> USE DEF RInv
  <1> USE ThreadKinds
  <1>1. CASE Change
    <2>1. changes + 1 \in Posts /\ changes' = changes + 1 /\ changes \in Nat
      BY <1>1, BoundsAssumption DEF Change, Posts, TypeOK
    <2>2. AnswersNewer' BY <1>1, <2>1 DEF Change, Goto, AnswersNewer, TypeOK, gs, Threads
    <2>3. SeenPast' BY <1>1, <2>1 DEF Change, Goto, SeenPast, TypeOK, gs, Threads
    <2>4. Past' BY <1>1, <2>1 DEF Change, Goto, Past, TypeOK, gs, Threads
    <2>5. QED BY <2>2, <2>3, <2>4
  <1>2. CASE OtherWrite
    <2>1. AnswersNewer' BY <1>2 DEF OtherWrite, AnswersNewer, SeenPast, TypeOK, thread
    <2>2. SeenPast' BY <1>2 DEF OtherWrite, SeenPast, TypeOK, thread
    <2>3. Past' BY <1>2 DEF OtherWrite, Past, TypeOK, thread
    <2>4. QED BY <2>1, <2>2, <2>3
  <1>3. ASSUME NEW t \in Threads, Step(t) PROVE AnswersNewer' /\ SeenPast' /\ Past'
    <2>1. CASE Lock(t)
      <3>1. AnswersNewer' BY <2>1 DEF Lock, Goto, AnswersNewer, SeenPast, Past, TypeOK, gs, Threads
      <3>2. SeenPast' BY <2>1 DEF Lock, Goto, SeenPast, TypeOK, gs, Threads
      <3>3. Past' BY <2>1 DEF Lock, Goto, Past, TypeOK, gs, Threads
      <3>4. QED BY <3>1, <3>2, <3>3
    <2>2. CASE Get(t)
      <3>1. AnswersNewer' BY <2>2 DEF Get, Goto, AnswersNewer, SeenPast, Past, TypeOK, gs, Threads
      <3>2. SeenPast' BY <2>2 DEF Get, Goto, SeenPast, TypeOK, gs, Threads
      <3>3. Past' BY <2>2 DEF Get, Goto, Past, TypeOK, gs, Threads
      <3>4. QED BY <3>1, <3>2, <3>3
    <2>3. CASE Fails(t)
      <3>1. AnswersNewer' BY <2>3 DEF Fails, Goto, AnswersNewer, SeenPast, Past, TypeOK, gs, Threads
      <3>2. SeenPast' BY <2>3 DEF Fails, Goto, SeenPast, TypeOK, gs, Threads
      <3>3. Past' BY <2>3 DEF Fails, Goto, Past, TypeOK, gs, Threads
      <3>4. QED BY <3>1, <3>2, <3>3
    <2>4. CASE Answer(t)
      <3>1. AnswersNewer' BY <2>4 DEF Answer, State, Goto, AnswersNewer, SeenPast, Past, TypeOK, gs, Threads
      <3>2. SeenPast' BY <2>4 DEF Answer, State, Goto, SeenPast, TypeOK, gs, Threads
      <3>3. Past' BY <2>4, ReplicasAssumption, BoundsAssumption DEF Answer, State, Goto, Past, TypeOK, gs, Threads
      <3>4. QED BY <3>1, <3>2, <3>3
    <2>5. CASE PostFails(t)
      <3>0. at[t] \in Replicas /\ t \in Posts /\ at[t] \in Threads BY <2>5 DEF PostFails, TypeOK, Threads
      <3>1. AnswersNewer' BY <2>5, <3>0 DEF PostFails, Goto, AnswersNewer, TypeOK, gs
      <3>2. SeenPast' BY <2>5, <3>0 DEF PostFails, Goto, SeenPast, TypeOK, gs
      <3>3. Past' BY <2>5, <3>0 DEF PostFails, Goto, Past, TypeOK, gs, Threads
      <3>4. QED BY <3>1, <3>2, <3>3
    <2>6. CASE RepollFails(t)
      <3>1. AnswersNewer' BY <2>6 DEF RepollFails, Goto, AnswersNewer, SeenPast, Past, TypeOK, gs, Threads
      <3>2. SeenPast' BY <2>6 DEF RepollFails, Goto, SeenPast, TypeOK, gs, Threads
      <3>3. Past' BY <2>6 DEF RepollFails, Goto, Past, TypeOK, gs, Threads
      <3>4. QED BY <3>1, <3>2, <3>3
    <2>7. CASE Write(t)
      <3>1. CASE PatchStatusAt(t)
        <4>1. Picked(t) <= changes
          BY <2>7 DEF Write, Picked, Past, AnswersNewer, TypeOK, Threads
        <4>2. recorded' = Picked(t) /\ rv' = rv + 1 /\ changes' = changes /\ got' = got /\ seen' = seen
              /\ pc' = [pc EXCEPT ![t] = "unlock"]
          BY <2>7, <3>1 DEF Write, Goto
        <4>3. AnswersNewer' BY <4>1, <4>2 DEF AnswersNewer, SeenPast, TypeOK
        <4>4. SeenPast' BY <4>2 DEF SeenPast, TypeOK
        <4>5. Past' BY <2>7, <4>1, <4>2 DEF Write, Past, TypeOK, Threads
        <4>6. QED BY <4>3, <4>4, <4>5
      <3>2. CASE ~PatchStatusAt(t)
        <4>1. /\ recorded' = recorded /\ rv' = rv /\ changes' = changes /\ got' = got /\ seen' = seen
              /\ pc' \in {[pc EXCEPT ![t] = "read"], [pc EXCEPT ![t] = "unlock"]}
          BY <2>7, <3>2 DEF Write, Goto, gs
        <4>2. AnswersNewer' BY <4>1 DEF AnswersNewer, TypeOK
        <4>3. SeenPast' BY <4>1 DEF SeenPast, TypeOK
        <4>4. Past' BY <2>7, <4>1 DEF Write, Past, TypeOK, Threads
        <4>5. QED BY <4>2, <4>3, <4>4
      <3>3. QED BY <3>1, <3>2
    <2>8. CASE Unlock(t)
      <3>1. AnswersNewer' BY <2>8 DEF Unlock, Goto, AnswersNewer, SeenPast, Past, TypeOK, gs, Threads, Forget
      <3>2. SeenPast' BY <2>8 DEF Unlock, Goto, SeenPast, TypeOK, gs, Threads, Forget
      <3>3. Past' BY <2>8 DEF Unlock, Goto, Past, TypeOK, gs, Threads, Forget
      <3>4. QED BY <3>1, <3>2, <3>3
    <2>9. QED BY <1>3, <2>1, <2>2, <2>3, <2>4, <2>5, <2>6, <2>7, <2>8 DEF Step
  <1>4. ASSUME NEW r \in Replicas, Deregister(r) PROVE AnswersNewer' /\ SeenPast' /\ Past'
    <2>1. AnswersNewer' BY <1>4 DEF Deregister, Goto, AnswersNewer, TypeOK, gs
    <2>2. SeenPast' BY <1>4 DEF Deregister, Goto, SeenPast, TypeOK, gs
    <2>3. Past' BY <1>4 DEF Deregister, Goto, Past, TypeOK, gs, Threads
    <2>4. QED BY <2>1, <2>2, <2>3
  <1>5. ASSUME NEW r \in Replicas, Crash(r) PROVE AnswersNewer' /\ SeenPast' /\ Past'
    <2>1. ASSUME NEW t \in Threads
          PROVE  \/ pc'[t] = pc[t] /\ got'[t] = got[t] /\ seen'[t] = seen[t]
                 \/ pc'[t] = "idle"
                 \/ t \in Posts /\ pc[t] # "idle" /\ pc'[t] = "done"
      <3>1. CASE At(t) # r BY <1>5, <3>1 DEF Crash
      <3>2. CASE At(t) = r BY <1>5, <3>2 DEF Crash
      <3>3. QED BY <3>1, <3>2
    <2>2. UNCHANGED <<changes, recorded, rv>> BY <1>5 DEF Crash, gs
    <2>3. AnswersNewer' BY <2>1, <2>2 DEF AnswersNewer
    <2>4. SeenPast' BY <2>1, <2>2 DEF SeenPast
    <2>5. Past' BY <2>1, <2>2 DEF Past, Threads
    <2>6. QED BY <2>3, <2>4, <2>5
  <1>6. CASE UNCHANGED vars
    BY <1>6 DEF vars, gs, thread, AnswersNewer, SeenPast, Past
  <1>7. QED BY <1>1, <1>2, <1>3, <1>4, <1>5, <1>6 DEF Next

\* The inductive invariant of the refinement holds in every state.
LEMMA RInvHolds == Spec => []RInv
  <1>1. Init => RInv
    <2> SUFFICES ASSUME Init PROVE RInv OBVIOUS
    <2>1. TypeOK BY InitType
    <2>2. AnswersNewer /\ SeenPast /\ Past BY ThreadKinds DEF Init, AnswersNewer, SeenPast, Past, Threads
    <2>3. QED BY <2>1, <2>2 DEF RInv
  <1>2. RInv /\ [Next]_vars => RInv'
    BY NextType, NextOrder DEF RInv
  <1>3. QED BY <1>1, <1>2, PTL DEF Spec

\* Every step of the gateway is a step of the register, or leaves it alone.
LEMMA StepRefines == RInv /\ [Next]_vars => [Register!Next]_(Register!vars)
  <1> SUFFICES ASSUME RInv, [Next]_vars, ~UNCHANGED Register!vars PROVE Register!Next OBVIOUS
  <1> USE ThreadKinds DEF RInv, Register!vars
  <1>1. CASE Change
    BY <1>1 DEF Change, gs, Register!Next, Register!Change
  <1>2. ASSUME NEW t \in Threads, Write(t) PROVE Register!Next
    <2>1. PatchStatusAt(t) BY <1>2 DEF Write, gs
    <2>2. recorded' = Picked(t) /\ changes' = changes BY <1>2, <2>1 DEF Write
    <2>3. CASE got[t] # NoAnswer
      <3>1. claimed' = FALSE BY <1>2, <2>1, <2>3 DEF Write
      <3>2. recorded' \in recorded..changes
        <4>1. got[t] \in Nat /\ recorded \in Nat /\ changes \in Nat BY <2>3, BoundsAssumption DEF TypeOK
        <4>2. recorded <= got[t] /\ got[t] <= changes
          BY <1>2, <2>1, <2>3 DEF Write, PatchStatusAt, AnswersNewer
        <4>3. QED BY <2>2, <2>3, <4>1, <4>2 DEF Picked
      <3>3. QED BY <2>2, <3>1, <3>2 DEF Register!Next, Register!Confirm
    <2>4. CASE got[t] = NoAnswer
      <3>1. claimed' = TRUE BY <1>2, <2>1, <2>4 DEF Write
      <3>2. t \in Posts /\ pc[t] = "write" BY <1>2, <2>4 DEF Write, Past, Threads
      <3>3. recorded' \in 1..changes
        BY <2>2, <2>4, <3>2, BoundsAssumption DEF Picked, Past, TypeOK
      <3>4. QED BY <2>2, <3>1, <3>3 DEF Register!Next, Register!Claim
    <2>5. QED BY <2>3, <2>4
  <1>3. ASSUME NEW t \in Threads, Step(t), ~Write(t) PROVE UNCHANGED Register!vars
    BY <1>3 DEF Step, Lock, Get, Fails, Answer, State, PostFails, RepollFails, Unlock, gs
  <1>4. CASE OtherWrite
    BY <1>4 DEF OtherWrite
  <1>5. ASSUME NEW r \in Replicas, Deregister(r) \/ Crash(r) PROVE UNCHANGED Register!vars
    BY <1>5 DEF Deregister, Crash, gs
  <1>6. CASE UNCHANGED vars
    BY <1>6 DEF vars, gs
  <1>7. QED BY <1>1, <1>2, <1>3, <1>4, <1>5, <1>6 DEF Next

\* The replicas implement the register, whatever is posted, polled, lost, read
\* late or crashes: no answer of the agent ever replaces a newer state, and
\* only a post whose poll failed may put an older one back (writeState).
THEOREM Refines == Spec => RegisterSpec
  <1>1. Init => Register!Init
    BY DEF Init, Register!Init
  <1>2. QED BY <1>1, RInvHolds, StepRefines, PTL DEF Spec, RegisterSpec, Register!Spec

\* Every variable has its type, whatever the bounds.
THEOREM Types == Spec => []TypeOK
  <1>1. RInv => TypeOK BY DEF RInv
  <1>2. QED BY <1>1, RInvHolds, PTL

----------------------------------------------------------------------------

\* No step moves a post to another replica.
LEMMA SameReplica == [Next]_vars => at' = at /\ \A t \in Threads : At(t)' = At(t)
  BY DEF Next, vars, thread, Change, OtherWrite, Step, Lock, Get, Fails, Answer, State, PostFails,
         RepollFails, Write, Unlock, Deregister, Crash, At

\* A thread enters the lock only when it is free, and no step but Lock takes it.
LEMMA NextHolder ==
  ASSUME RInv, OneHolder, [Next]_vars
  PROVE  OneHolder'
  <1> USE ThreadKinds DEF RInv
  <1>1. ASSUME NEW l \in Threads, Lock(l) PROVE OneHolder'
    BY <1>1, SameReplica DEF Lock, Goto, Free, OneHolder, TypeOK, Holding
  <1>2. ASSUME \A t \in Threads : pc'[t] \in Holding => pc[t] \in Holding PROVE OneHolder'
    BY <1>2, SameReplica DEF OneHolder
  <1>3. CASE Change
    <2>1. changes + 1 \in Threads BY <1>3, BoundsAssumption DEF Change, Posts, TypeOK, Threads
    <2>2. QED BY <1>2, <1>3, <2>1 DEF Change, Goto, TypeOK, Holding
  <1>4. CASE OtherWrite \/ UNCHANGED vars
    BY <1>2, <1>4 DEF OtherWrite, vars, thread
  <1>5. ASSUME NEW t \in Threads, Step(t), ~Lock(t) PROVE OneHolder'
    <2>1. CASE PostFails(t)
      <3>1. at[t] \in Threads BY <2>1 DEF PostFails, TypeOK, Threads
      <3>2. QED BY <1>2, <2>1, <3>1 DEF PostFails, Goto, TypeOK, Holding
    <2>2. CASE ~PostFails(t)
      BY <1>2, <1>5, <2>2 DEF Step, Get, Fails, Answer, State, RepollFails, Write, Unlock, Goto, TypeOK, Holding
    <2>3. QED BY <2>1, <2>2
  <1>6. ASSUME NEW r \in Replicas, Deregister(r) PROVE OneHolder'
    BY <1>2, <1>6 DEF Deregister, Goto, TypeOK, Holding, Threads
  <1>7. ASSUME NEW r \in Replicas, Crash(r) PROVE OneHolder'
    BY <1>2, <1>7 DEF Crash, Holding
  <1>8. QED BY <1>1, <1>3, <1>4, <1>5, <1>6, <1>7 DEF Next

\* A repoll is registered from the post that starts it to its deregistration.
LEMMA NextRegistered ==
  ASSUME RInv, Registered, [Next]_vars
  PROVE  Registered'
  <1> USE ThreadKinds DEF RInv
  <1>1. CASE Change
    <2>1. changes + 1 \in Posts BY <1>1, BoundsAssumption DEF Change, Posts, TypeOK
    <2>2. QED BY <1>1, <2>1 DEF Change, Goto, TypeOK, Registered, Threads
  <1>2. CASE OtherWrite \/ UNCHANGED vars
    BY <1>2 DEF OtherWrite, vars, thread, Registered
  <1>3. ASSUME NEW t \in Threads, Step(t) PROVE Registered'
    <2>1. CASE PostFails(t)
      <3>1. at[t] \in Replicas /\ at[t] \in Threads BY <2>1 DEF PostFails, TypeOK, Threads
      <3>2. CASE repolling[at[t]] BY <2>1, <3>1, <3>2 DEF PostFails, Goto, TypeOK, Registered, Threads
      <3>3. CASE ~repolling[at[t]] BY <2>1, <3>1, <3>3 DEF PostFails, TypeOK, Registered, Threads
      <3>4. QED BY <3>2, <3>3
    <2>2. CASE Unlock(t)
      BY <2>2 DEF Unlock, Goto, TypeOK, Registered, Threads
    <2>3. CASE ~PostFails(t) /\ ~Unlock(t)
      <3>1. PICK l \in Holding : pc' = [pc EXCEPT ![t] = l]
        BY <1>3, <2>3 DEF Step, Lock, Get, Fails, Answer, State, RepollFails, Write, Goto, Holding
      <3>2. repolling' = repolling /\ pc[t] \notin {"idle", "done"}
        BY <1>3, <2>3 DEF Step, Lock, Get, Fails, Answer, State, RepollFails, Write
      <3>3. QED BY <3>1, <3>2 DEF TypeOK, Registered, Threads, Holding
    <2>4. QED BY <2>1, <2>2, <2>3
  <1>4. ASSUME NEW r \in Replicas, Deregister(r) PROVE Registered'
    BY <1>4 DEF Deregister, Goto, TypeOK, Registered, Threads
  <1>5. ASSUME NEW r \in Replicas, Crash(r) PROVE Registered'
    <2>1. ASSUME NEW q \in Replicas
          PROVE  pc'[q] = (IF q = r THEN "idle" ELSE pc[q]) /\ repolling'[q] = (q # r /\ repolling[q])
      BY <1>5 DEF Crash, TypeOK, Threads
    <2>2. QED BY <2>1 DEF Registered
  <1>6. QED BY <1>1, <1>2, <1>3, <1>4, <1>5 DEF Next

\* A gap that opened stays open.
LEMMA GapsStay == [Next]_vars => gaps \subseteq gaps'
  BY DEF Next, vars, Change, OtherWrite, Step, Lock, Get, Fails, Answer, State, PostFails,
         RepollFails, Write, Unlock, Deregister, Crash

\* Another thread's step, not a crash, leaves a repoll that owes a poll owing.
LEMMA OthersLeaveOwed ==
  ASSUME RInv, NEW r \in Replicas, Owes(r),
         \/ \E t \in Threads \ {r} : Step(t)
         \/ \E q \in Replicas : Deregister(q)
         \/ Change \/ OtherWrite \/ UNCHANGED vars
  PROVE  Owes(r)'
  <1> USE ThreadKinds DEF RInv
  <1>1. ASSUME NEW t \in Threads \ {r}, PostFails(t) PROVE Owes(r)'
    <2>1. t \in Posts /\ at[t] \in Replicas /\ at[t] \in Threads
      BY <1>1 DEF PostFails, TypeOK, Threads
    <2>2. repolling[r] BY DEF Owes
    <2>3. pc'[r] = pc[r] /\ repolling'[r] = repolling[r] /\ got'[r] = got[r]
      BY <1>1, <2>1, <2>2 DEF PostFails, Goto, TypeOK, Threads
    <2>4. QED BY <2>3 DEF Owes
  <1>2. ASSUME NEW t \in Threads \ {r}, Step(t), ~PostFails(t) PROVE Owes(r)'
    <2>1. pc'[r] = pc[r] /\ repolling'[r] = repolling[r] /\ got'[r] = got[r]
      BY <1>2 DEF Step, Lock, Get, Fails, Answer, State, RepollFails, Write, Unlock, Forget, Goto, TypeOK, Threads
    <2>2. QED BY <2>1 DEF Owes
  <1>3. ASSUME NEW q \in Replicas, Deregister(q) PROVE Owes(r)'
    <2>1. q # r BY <1>3 DEF Deregister, Owes
    <2>2. QED BY <1>3, <2>1 DEF Deregister, Goto, Owes, TypeOK, Threads
  <1>4. CASE Change
    <2>1. changes + 1 \in Posts BY <1>4, BoundsAssumption DEF Change, Posts, TypeOK
    <2>2. QED BY <1>4, <2>1 DEF Change, Goto, Owes, TypeOK, Threads
  <1>5. CASE OtherWrite \/ UNCHANGED vars
    BY <1>5 DEF OtherWrite, vars, thread, Owes
  <1>6. QED BY <1>1, <1>2, <1>3, <1>4, <1>5

\* A repoll's own step leaves it owing a poll, opens a gap or records an answer.
LEMMA OwnStepOwed ==
  ASSUME RInv, NEW r \in Replicas, Owes(r), Step(r)
  PROVE  Owes(r)' \/ gaps' # {} \/ ~claimed'
  <1> USE ThreadKinds DEF RInv
  <1> r \in Threads BY DEF Threads
  <1>1. CASE Lock(r) BY <1>1 DEF Lock, Goto, Owes, TypeOK
  <1>2. CASE Get(r) BY <1>2 DEF Get, Goto, Owes, TypeOK
  <1>3. CASE Fails(r) BY <1>3 DEF Fails, Goto, Owes, TypeOK
  <1>4. CASE Answer(r) BY <1>4 DEF Answer, State, Goto, Owes, TypeOK
  <1>5. CASE PostFails(r) BY <1>5 DEF PostFails
  <1>6. CASE RepollFails(r) BY <1>6 DEF RepollFails, Goto, Owes, TypeOK
  <1>7. CASE Write(r)
    <2>1. CASE PatchStatusAt(r) BY <1>7, <2>1 DEF Write, Past
    <2>2. CASE ~PatchStatusAt(r) BY <1>7, <2>2 DEF Write, Goto, Owes, TypeOK
    <2>3. QED BY <2>1, <2>2
  <1>8. CASE Unlock(r) BY <1>8 DEF Unlock, Forget, Goto, Owes, TypeOK
  <1>9. QED BY <1>1, <1>2, <1>3, <1>4, <1>5, <1>6, <1>7, <1>8 DEF Step

\* A crash is a gap.
LEMMA CrashIsGap == ASSUME NEW r \in Replicas, Crash(r) PROVE gaps' # {}
  BY DEF Crash

\* A post that goes to its write without an answer has a repoll waiting for the
\* lock the post holds, so that nothing can answer that repoll before the write.
LEMMA NextPostOwed ==
  ASSUME OInv, [Next]_vars
  PROVE  PostIsOwedPoll'
  <1> USE ThreadKinds DEF OInv, RInv
  <1> SUFFICES ASSUME NEW t \in Posts, pc'[t] = "write", got'[t] = NoAnswer, gaps' = {}
               PROVE  Owes(at[t])'
    BY SameReplica DEF PostIsOwedPoll
  <1>0. PICK r \in Replicas : at[t] = r BY DEF TypeOK
  <1>1. t \in Threads /\ r \in Threads /\ r # t /\ gaps = {} /\ At(t) = At(r) /\ at[t] = r /\ at'[t] = r
    <2>1. gaps = {} BY GapsStay
    <2>2. at'[t] = r BY <1>0, SameReplica
    <2>3. QED BY <1>0, <2>1, <2>2 DEF Threads
  <1>2. CASE PostFails(t)
    <2>1. pc[r] \notin Holding BY <1>1, <1>2 DEF PostFails, OneHolder, Holding
    <2>2. CASE repolling[r]
      <3>1. pc[r] = "lock" BY <1>1, <1>2, <2>1, <2>2 DEF PostFails, Registered, TypeOK
      <3>2. QED BY <1>1, <1>2, <2>2, <3>1 DEF PostFails, Goto, Owes, TypeOK
    <2>3. CASE ~repolling[r] BY <1>1, <1>2, <2>3 DEF PostFails, Owes, TypeOK
    <2>4. QED BY <2>2, <2>3
  <1>3. CASE pc[t] = "write" /\ got[t] = NoAnswer
    <2>1. Owes(r) BY <1>1, <1>3 DEF PostIsOwedPoll
    <2>2. pc[r] \notin Holding BY <1>1, <1>3 DEF OneHolder, Holding
    <2>3. pc[r] = "lock" BY <2>1, <2>2 DEF Owes, Holding
    <2>4. ~Step(r)
      BY <1>1, <1>3, <2>3 DEF Step, Lock, Free, Get, Fails, Answer, State, PostFails, RepollFails, Write, Unlock, Holding
    <2>5. \A q \in Replicas : ~Crash(q) BY CrashIsGap
    <2>6. Owes(r)' BY <1>1, <2>1, <2>4, <2>5, OthersLeaveOwed DEF Next
    <2>7. QED BY <1>1, <2>6
  <1>4. CASE ~PostFails(t) /\ ~(pc[t] = "write" /\ got[t] = NoAnswer)
    <2>1. \A q \in Replicas : ~Crash(q) BY CrashIsGap
    <2>2. ASSUME NEW q \in Replicas, Deregister(q) PROVE FALSE
      BY <1>1, <1>4, <2>2 DEF Deregister, Goto, TypeOK, Threads
    <2>3. ASSUME Change PROVE FALSE
      <3>1. changes + 1 \in Threads BY <2>3, BoundsAssumption DEF Change, Posts, TypeOK, Threads
      <3>2. QED BY <1>1, <1>4, <2>3, <3>1 DEF Change, Goto, TypeOK
    <2>4. ASSUME OtherWrite \/ UNCHANGED vars PROVE FALSE
      BY <1>4, <2>4 DEF OtherWrite, vars, thread
    <2>5. ASSUME NEW u \in Threads, Step(u) PROVE FALSE
      <3>1. CASE u = t
        BY <1>1, <1>4, <2>5, <3>1, ReplicasAssumption, BoundsAssumption
           DEF Step, Lock, Get, Fails, Answer, State, RepollFails, Write, Unlock, Goto, TypeOK
      <3>2. CASE u # t /\ PostFails(u)
        <4>1. at[u] \in Replicas BY <3>2 DEF PostFails, TypeOK
        <4>2. pc'[t] = pc[t] /\ got'[t] = got[t]
          BY <1>1, <3>2, <4>1 DEF PostFails, Goto, TypeOK, Threads
        <4>3. QED BY <1>4, <4>2
      <3>3. CASE u # t /\ ~PostFails(u)
        <4>1. pc'[t] = pc[t] /\ got'[t] = got[t]
          BY <1>1, <2>5, <3>3 DEF Step, Lock, Get, Fails, Answer, State, RepollFails, Write, Unlock, Forget, Goto, TypeOK
        <4>2. QED BY <1>4, <4>1
      <3>4. QED BY <3>1, <3>2, <3>3
    <2>6. QED BY <2>1, <2>2, <2>3, <2>4, <2>5 DEF Next
  <1>5. QED BY <1>2, <1>3, <1>4

\* A claim is written while a repoll of that replica waits for the lock, and a
\* repoll stops owing only by recording its answer or by a gap.
LEMMA NextClaimOwed ==
  ASSUME OInv, [Next]_vars
  PROVE  ClaimIsOwedPoll'
  <1> USE ThreadKinds DEF OInv, RInv
  <1> SUFFICES ASSUME claimed', gaps' = {} PROVE \E r \in Replicas : Owes(r)'
    BY DEF ClaimIsOwedPoll
  <1>1. gaps = {} /\ \A q \in Replicas : ~Crash(q) BY GapsStay, CrashIsGap
  <1>2. CASE claimed
    <2>1. PICK r \in Replicas : Owes(r) BY <1>1, <1>2 DEF ClaimIsOwedPoll
    <2>2. CASE Step(r) BY <2>1, <2>2, OwnStepOwed
    <2>3. CASE ~Step(r)
      BY <1>1, <2>1, <2>3, OthersLeaveOwed DEF Next
    <2>4. QED BY <2>2, <2>3
  <1>3. CASE ~claimed
    <2>1. PICK t \in Threads : Write(t) /\ PatchStatusAt(t)
      BY <1>1, <1>3 DEF Next, vars, gs, Change, OtherWrite, Step, Lock, Get, Fails, Answer, State, PostFails,
                        RepollFails, Write, Unlock, Deregister
    <2>2. got[t] = NoAnswer /\ pc[t] = "write" BY <2>1 DEF Write
    <2>3. t \in Posts /\ at[t] \in Replicas BY <2>2 DEF Past, Threads, TypeOK
    <2>4. Owes(at[t]) BY <1>1, <2>2, <2>3 DEF PostIsOwedPoll
    <2>5. Step(t) /\ t # at[t] BY <2>1, <2>3 DEF Step
    <2>6. QED BY <2>3, <2>4, <2>5, OthersLeaveOwed
  <1>4. QED BY <1>2, <1>3

\* A state recorded on the word of a post is owed a poll by some replica, or one
\* of the named gaps opened (recordState, repollState), for any number of
\* replicas, changes, failed polls, conflicts and crashes.
THEOREM OwedPoll == Spec => []ClaimIsOwedPoll
  <1>1. Init /\ RInv => OInv
    BY DEF Init, OInv, OneHolder, Registered, PostIsOwedPoll, ClaimIsOwedPoll, Holding, Threads
  <1>2. RInv' /\ OInv /\ [Next]_vars => OInv'
    BY NextHolder, NextRegistered, NextPostOwed, NextClaimOwed DEF OInv
  <1>3. OInv => ClaimIsOwedPoll BY DEF OInv
  <1>4. QED BY <1>1, <1>2, <1>3, RInvHolds, PTL DEF Spec
=============================================================================

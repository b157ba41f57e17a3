------------------------ MODULE ShimListenerProofs --------------------------
(***************************************************************************)
(* connectLoop never gets a connection after it used a newer one, for any  *)
(* number of connections, handshake slots and environments.                *)
(***************************************************************************)
EXTENDS ShimListener, FiniteSetTheorems, TLAPS

\* Connections that have become current at some time and were not given up.
Ordered == {"replaced", "offer", "queued", "taken"}

\* The ready channel holds queued connections, each once.
QueueInv ==
  /\ \A i \in 1..Len(ready) : conn[ready[i]] = "queued"
  /\ \A i, j \in 1..Len(ready) : ready[i] = ready[j] => i = j

\* Connections that became current are numbered apart, up to count; all of them except
\* the last are marked.
OrderInv ==
  /\ \A c \in Conns : seq[c] <= count
  /\ \A c, d \in Conns : seq[c] = seq[d] /\ seq[c] > 0 => c = d
  /\ \A c \in Conns : conn[c] \in {"new", "handshake", "proven"} => seq[c] = 0
  /\ \A c \in Conns : conn[c] \in Ordered => seq[c] > 0
  /\ \A c \in Conns : seq[c] > 0 => c \in superseded \/ c \in current
  /\ \A c \in current : seq[c] = count

\* What an environment used last is not waiting anywhere, and what passed the check of
\* the mark is newer than it.
HandInv ==
  /\ \A e \in Envs : taker[e].last <= count
  /\ \A e \in Envs, c \in Conns :
       conn[c] \in {"replaced", "offer", "queued"} => taker[e].last # seq[c]
  /\ \A e \in Envs : taker[e].at \in {"mark", "done"} =>
       \A c \in taker[e].hand : conn[c] = "taken" /\ taker[e].last # seq[c]
  /\ \A e \in Envs : taker[e].at = "done" =>
       \A c \in taker[e].hand : seq[c] > taker[e].last

ListenerInv == TypeOK /\ QueueInv /\ OrderInv /\ HandInv

\* What is known of one taker.
LEMMA TakerFacts ==
  ASSUME TypeOK, NEW e \in Envs
  PROVE  /\ taker[e] \in TakerStates
         /\ taker[e].at \in TakerSteps /\ taker[e].hand \in SUBSET Conns
         /\ taker[e].last \in Nat
  BY DEF TypeOK, TakerStates

\* What a step of connectLoop does to the takers.
LEMMA TakerSet ==
  ASSUME TypeOK, NEW e \in Envs, NEW at \in TakerSteps,
         NEW hand \in SUBSET Conns, NEW last \in Nat, SetTaker(e, at, hand, last)
  PROVE  /\ taker' \in [Envs -> TakerStates]
         /\ taker'[e].at = at /\ taker'[e].hand = hand /\ taker'[e].last = last
         /\ \A d \in Envs : d # e => taker'[d] = taker[d]
  BY DEF TypeOK, SetTaker, TakerStates

\* What a step of connectLoop that hands out nothing does to the takers.
LEMMA TakerMoved ==
  ASSUME TypeOK, NEW e \in Envs, NEW at \in TakerSteps,
         NEW hand \in SUBSET Conns, MoveTaker(e, at, hand)
  PROVE  /\ taker' \in [Envs -> TakerStates]
         /\ taker'[e].at = at /\ taker'[e].hand = hand /\ taker'[e].last = taker[e].last
         /\ \A d \in Envs : d # e => taker'[d] = taker[d]
  BY TakerFacts, TakerSet DEF MoveTaker

\* Init satisfies the invariant: nothing is connected yet.
LEMMA ListenerInit == Init => ListenerInv
<1> SUFFICES ASSUME Init PROVE ListenerInv
  OBVIOUS
<1>1. TypeOK
  BY ListenerAssumption DEF Init, ListenerAssumption, TypeOK, States, TakerStates, TakerSteps
<1>2. QueueInv
  BY DEF Init, QueueInv
<1>3. OrderInv
  BY DEF Init, OrderInv, Ordered
<1>4. HandInv
  BY DEF Init, HandInv
<1> QED
  BY <1>1, <1>2, <1>3, <1>4 DEF ListenerInv

\* Every step keeps the types.
LEMMA ListenerTypes == TypeOK /\ [Next]_vars => TypeOK'
<1> SUFFICES ASSUME TypeOK, [Next]_vars PROVE TypeOK'
  OBVIOUS
<1> USE ListenerAssumption DEF ListenerAssumption, TypeOK, States
<1>1. ASSUME NEW c \in Conns, AcceptLoop(c) \/ Challenge(c) \/ Reject(c) PROVE TypeOK'
  BY <1>1 DEF AcceptLoop, Challenge, Reject
<1>2. ASSUME NEW c \in Conns, Replace(c) PROVE TypeOK'
  BY <1>2 DEF Replace
<1>3. ASSUME NEW c \in Conns, ClosePrevious(c) \/ OfferClosed(c) PROVE TypeOK'
  BY <1>3 DEF ClosePrevious, OfferClosed
<1>4. ASSUME NEW c \in Conns, Offer(c) PROVE TypeOK'
  BY <1>4 DEF Offer
<1>5. ASSUME NEW c \in Conns, PeerCloses(c) \/ ReadLoopEnds(c) PROVE TypeOK'
  BY <1>5 DEF PeerCloses, ReadLoopEnds
<1>6. ASSUME NEW e \in Envs, BuildEnvironment(e) \/ Release(e) \/ Stop(e) PROVE TypeOK'
  <2>1. MoveTaker(e, "accept", {}) \/ MoveTaker(e, "ended", {})
    BY <1>6 DEF BuildEnvironment, Release, Stop
  <2>2. taker' \in [Envs -> TakerStates]
    BY <2>1, TakerMoved DEF TakerSteps
  <2> QED
    BY <1>6, <2>2 DEF BuildEnvironment, Release, Stop
<1>7. ASSUME NEW e \in Envs, CloseReplaced(e) \/ LetGo(e) PROVE TypeOK'
  BY <1>7 DEF CloseReplaced, LetGo
<1>8. ASSUME NEW e \in Envs, Take(e) PROVE TypeOK'
  <2>1. Head(ready) \in Conns /\ Tail(ready) \in Seq(Conns) /\ Len(Tail(ready)) <= ReadyCap
    BY <1>8 DEF Take
  <2>2. taker' \in [Envs -> TakerStates]
    BY <1>8, <2>1, TakerMoved DEF Take, TakerSteps
  <2>3. conn' \in [Conns -> States]
    BY <1>8, <2>1 DEF Take
  <2> QED
    BY <1>8, <2>1, <2>2, <2>3 DEF Take
<1>9. ASSUME NEW e \in Envs, CheckMark(e) \/ CheckDone(e) PROVE TypeOK'
  <2>1. taker' \in [Envs -> TakerStates]
    <3>1. PICK c \in taker[e].hand :
            \/ MoveTaker(e, "accept", {}) \/ MoveTaker(e, "done", {c})
            \/ SetTaker(e, "use", {c}, seq[c])
      BY <1>9 DEF CheckMark, CheckDone
    <3>2. c \in Conns /\ seq[c] \in Nat
      BY TakerFacts
    <3> QED
      <4>1. CASE MoveTaker(e, "accept", {})
        BY <4>1, TakerMoved DEF TakerSteps
      <4>2. CASE MoveTaker(e, "done", {c})
        BY <3>2, <4>2, TakerMoved DEF TakerSteps
      <4>3. CASE SetTaker(e, "use", {c}, seq[c])
        BY <3>2, <4>3, TakerSet DEF TakerSteps
      <4> QED
        BY <3>1, <4>1, <4>2, <4>3
  <2> QED
    BY <1>9, <2>1 DEF CheckMark, CheckDone
<1>10. CASE Close
  BY <1>10 DEF Close
<1>11. CASE UNCHANGED vars
  BY <1>11 DEF vars
<1> QED
  BY <1>1, <1>2, <1>3, <1>4, <1>5, <1>6, <1>7, <1>8, <1>9, <1>10, <1>11
     DEF Next, Connection, Authenticate, ConnectLoop

\* Every step keeps the queue's invariant: only authenticate adds to it, once, and only
\* Take removes from it.
LEMMA ListenerQueue == ListenerInv /\ [Next]_vars => QueueInv'
<1> SUFFICES ASSUME ListenerInv, [Next]_vars PROVE QueueInv'
  OBVIOUS
<1> USE DEF ListenerInv, TypeOK, QueueInv, States
<1>1. ASSUME NEW c \in Conns, AcceptLoop(c) \/ Challenge(c) \/ Reject(c) PROVE QueueInv'
  BY <1>1 DEF AcceptLoop, Challenge, Reject
<1>2. ASSUME NEW c \in Conns, Replace(c) \/ ClosePrevious(c) \/ OfferClosed(c) PROVE QueueInv'
  BY <1>2 DEF Replace, ClosePrevious, OfferClosed
<1>3. ASSUME NEW c \in Conns, Offer(c) PROVE QueueInv'
  <2>1. /\ Len(ready') = Len(ready) + 1
        /\ ready'[Len(ready) + 1] = c
        /\ \A i \in 1..Len(ready) : ready'[i] = ready[i]
    BY <1>3 DEF Offer
  <2>2. \A i \in 1..Len(ready) : ready[i] # c
    BY <1>3 DEF Offer
  <2>3. conn' = [conn EXCEPT ![c] = "queued"]
    BY <1>3 DEF Offer
  <2>4. Len(ready) \in Nat /\ \A i \in 1..Len(ready) : ready[i] \in Conns
    OBVIOUS
  <2>5. \A i \in 1..Len(ready') : i \in 1..Len(ready) \/ i = Len(ready) + 1
    BY <2>1, <2>4
  <2>6. ASSUME NEW i \in 1..Len(ready') PROVE conn'[ready'[i]] = "queued"
    <3>1. CASE i \in 1..Len(ready)
      BY <2>1, <2>2, <2>3, <2>4, <3>1
    <3>2. CASE i = Len(ready) + 1
      BY <2>1, <2>3, <3>2
    <3> QED
      BY <2>5, <3>1, <3>2
  <2>7. ASSUME NEW i \in 1..Len(ready'), NEW j \in 1..Len(ready'), ready'[i] = ready'[j]
        PROVE i = j
    <3>1. CASE i \in 1..Len(ready) /\ j \in 1..Len(ready)
      BY <2>1, <2>7, <3>1
    <3>2. CASE i = Len(ready) + 1 /\ j \in 1..Len(ready)
      BY <2>1, <2>2, <2>7, <3>2
    <3>3. CASE i \in 1..Len(ready) /\ j = Len(ready) + 1
      BY <2>1, <2>2, <2>7, <3>3
    <3> QED
      BY <2>5, <3>1, <3>2, <3>3
  <2> QED
    BY <2>6, <2>7
<1>4. ASSUME NEW c \in Conns, PeerCloses(c) \/ ReadLoopEnds(c) PROVE QueueInv'
  BY <1>4 DEF PeerCloses, ReadLoopEnds
<1>5. ASSUME NEW e \in Envs,
             BuildEnvironment(e) \/ CloseReplaced(e) \/ CheckMark(e) \/ CheckDone(e)
      PROVE QueueInv'
  BY <1>5 DEF BuildEnvironment, CloseReplaced, CheckMark, CheckDone
<1>6. ASSUME NEW e \in Envs, Release(e) \/ Stop(e) \/ LetGo(e) PROVE QueueInv'
  BY <1>6 DEF Release, Stop, LetGo
<1>7. ASSUME NEW e \in Envs, Take(e) PROVE QueueInv'
  <2>1. /\ Len(ready) > 0
        /\ Len(ready') = Len(ready) - 1
        /\ \A i \in 1..Len(ready') : ready'[i] = ready[i + 1]
        /\ Head(ready) = ready[1]
    BY <1>7 DEF Take
  <2>4. Len(ready) \in Nat /\ \A i \in 1..Len(ready) : ready[i] \in Conns
    OBVIOUS
  <2>5. \A i \in 1..Len(ready') : i + 1 \in 1..Len(ready) /\ i + 1 # 1
    BY <2>1, <2>4
  <2>6. 1 \in 1..Len(ready)
    BY <2>1, <2>4
  <2>2. \A i \in 1..Len(ready') : ready'[i] # ready[1] /\ ready'[i] \in Conns
    BY <2>1, <2>4, <2>5, <2>6, ZenonT(60)
  <2>3. conn' = [conn EXCEPT ![ready[1]] = "taken"]
    BY <1>7, <2>1 DEF Take
  <2>7. ASSUME NEW i \in 1..Len(ready') PROVE conn'[ready'[i]] = "queued"
    <3>1. conn[ready[i + 1]] = "queued" /\ ready'[i] = ready[i + 1]
      BY <2>1, <2>5
    <3> QED
      BY <2>2, <2>3, <3>1
  <2>8. \A i, j \in 1..Len(ready') : ready'[i] = ready'[j] => i = j
    <3> TAKE i, j \in 1..Len(ready')
    <3>1. ready'[i] = ready'[j] => i + 1 = j + 1
      <4>1. ready'[i] = ready[i + 1] /\ ready'[j] = ready[j + 1]
        BY <2>1
      <4>2. i + 1 \in 1..Len(ready) /\ j + 1 \in 1..Len(ready)
        BY <2>5
      <4> QED
        BY <4>1, <4>2
    <3>2. i \in Int /\ j \in Int
      BY <2>1, <2>4
    <3> QED
      BY <3>1, <3>2
  <2> QED
    BY <2>7, <2>8
<1>8. CASE Close
  BY <1>8 DEF Close
<1>9. CASE UNCHANGED vars
  BY <1>9 DEF vars
<1> QED
  BY <1>1, <1>2, <1>3, <1>4, <1>5, <1>6, <1>7, <1>8, <1>9
     DEF Next, Connection, Authenticate, ConnectLoop

\* Every step keeps the numbering: Replace gives the next number to the connection that
\* becomes current and marks the one that was.
LEMMA ListenerOrdered == ListenerInv /\ [Next]_vars => OrderInv'
<1> SUFFICES ASSUME ListenerInv, [Next]_vars PROVE OrderInv'
  OBVIOUS
<1> USE DEF ListenerInv, TypeOK, OrderInv, States, Ordered
<1>1. ASSUME NEW c \in Conns, AcceptLoop(c) \/ Challenge(c) \/ Reject(c) PROVE OrderInv'
  BY <1>1 DEF AcceptLoop, Challenge, Reject
<1>2. ASSUME NEW c \in Conns, Replace(c) PROVE OrderInv'
  BY <1>2 DEF Replace
<1>3. ASSUME NEW c \in Conns, ClosePrevious(c) \/ OfferClosed(c) \/ Offer(c) PROVE OrderInv'
  BY <1>3 DEF ClosePrevious, OfferClosed, Offer
<1>4. ASSUME NEW c \in Conns, PeerCloses(c) \/ ReadLoopEnds(c) PROVE OrderInv'
  BY <1>4 DEF PeerCloses, ReadLoopEnds
<1>5. ASSUME NEW e \in Envs,
             BuildEnvironment(e) \/ CloseReplaced(e) \/ CheckMark(e) \/ CheckDone(e)
      PROVE OrderInv'
  BY <1>5 DEF BuildEnvironment, CloseReplaced, CheckMark, CheckDone
<1>6. ASSUME NEW e \in Envs, Release(e) \/ Stop(e) \/ LetGo(e) PROVE OrderInv'
  BY <1>6 DEF Release, Stop, LetGo
<1>7. ASSUME NEW e \in Envs, Take(e) PROVE OrderInv'
  <2>1. Head(ready) \in Conns /\ conn[Head(ready)] = "queued"
    BY <1>7 DEF Take, QueueInv
  <2> QED
    BY <1>7, <2>1 DEF Take
<1>8. CASE Close
  BY <1>8 DEF Close
<1>9. CASE UNCHANGED vars
  BY <1>9 DEF vars
<1> QED
  BY <1>1, <1>2, <1>3, <1>4, <1>5, <1>6, <1>7, <1>8, <1>9
     DEF Next, Connection, Authenticate, ConnectLoop

\* An environment that lets go of what it has in hand keeps HandInv.
LEMMA HandEmpty ==
  ASSUME TypeOK, HandInv, NEW e \in Envs, NEW at \in {"accept", "ended"},
         MoveTaker(e, at, {}), UNCHANGED <<conn, seq, count>>
  PROVE  HandInv'
<1>1. /\ taker'[e].at = at /\ taker'[e].hand = {} /\ taker'[e].last = taker[e].last
      /\ \A d \in Envs : d # e => taker'[d] = taker[d]
  BY TakerMoved DEF TakerSteps
<1> QED
  BY <1>1 DEF HandInv

\* Every step keeps what is known of the connections in hand.
LEMMA ListenerHands == ListenerInv /\ [Next]_vars => HandInv'
<1> SUFFICES ASSUME ListenerInv, [Next]_vars PROVE HandInv'
  OBVIOUS
<1> USE DEF ListenerInv
<1> TypeOK /\ OrderInv /\ HandInv
  OBVIOUS
<1>0. /\ conn \in [Conns -> States] /\ seq \in [Conns -> Nat] /\ count \in Nat
      /\ \A e \in Envs : taker[e].last \in Nat /\ taker[e].hand \subseteq Conns
  BY TakerFacts DEF TypeOK
<1> HIDE DEF ListenerInv
<1>1. ASSUME NEW c \in Conns, AcceptLoop(c) \/ Challenge(c) \/ Reject(c) PROVE HandInv'
  BY <1>0, <1>1 DEF AcceptLoop, Challenge, Reject, HandInv, States
<1>2. ASSUME NEW c \in Conns, Replace(c) PROVE HandInv'
  BY <1>0, <1>2 DEF Replace, HandInv, States, OrderInv
<1>3. ASSUME NEW c \in Conns, ClosePrevious(c) \/ OfferClosed(c) \/ Offer(c) PROVE HandInv'
  BY <1>0, <1>3 DEF ClosePrevious, OfferClosed, Offer, HandInv, States
<1>4. ASSUME NEW c \in Conns, PeerCloses(c) \/ ReadLoopEnds(c) PROVE HandInv'
  BY <1>4 DEF PeerCloses, ReadLoopEnds, HandInv
<1>5. ASSUME NEW e \in Envs, BuildEnvironment(e) \/ Release(e) \/ Stop(e) PROVE HandInv'
  <2>1. /\ MoveTaker(e, "accept", {}) \/ MoveTaker(e, "ended", {})
        /\ UNCHANGED <<conn, seq, count>>
    BY <1>5 DEF BuildEnvironment, Release, Stop
  <2> QED
    BY <2>1, HandEmpty
<1>6. ASSUME NEW e \in Envs, CloseReplaced(e) \/ LetGo(e) PROVE HandInv'
  BY <1>6 DEF CloseReplaced, LetGo, HandInv
<1>7. ASSUME NEW e \in Envs, Take(e) PROVE HandInv'
  <2> DEFINE c == Head(ready)
  <2>1. c \in Conns /\ conn[c] = "queued"
    <3>1. Len(ready) \in Nat /\ Len(ready) > 0 /\ c = ready[1] /\ c \in Conns
      BY <1>7 DEF Take, TypeOK
    <3> QED
      BY <3>1 DEF QueueInv, ListenerInv
  <2>2. /\ conn' = [conn EXCEPT ![c] = "taken"]
        /\ MoveTaker(e, "mark", {c})
        /\ UNCHANGED <<seq, count>>
    BY <1>7 DEF Take
  <2> HIDE DEF c
  <2>3. /\ taker'[e].at = "mark" /\ taker'[e].hand = {c} /\ taker'[e].last = taker[e].last
        /\ \A d \in Envs : d # e => taker'[d] = taker[d]
    BY <2>1, <2>2, TakerMoved DEF TakerSteps
  <2> QED
    BY <1>0, <2>1, <2>2, <2>3 DEF HandInv, States
<1>8. ASSUME NEW e \in Envs, CheckMark(e) PROVE HandInv'
  <2>1. PICK c \in taker[e].hand :
          IF c \in superseded THEN MoveTaker(e, "accept", {}) ELSE MoveTaker(e, "done", {c})
    BY <1>8 DEF CheckMark
  <2>2. c \in Conns /\ conn[c] = "taken" /\ taker[e].last # seq[c] /\ taker[e].last <= count
    BY <1>0, <1>8 DEF CheckMark, HandInv
  <2>3. c \notin superseded => seq[c] > taker[e].last
    BY <1>0, <2>2 DEF OrderInv, Ordered
  <2>4. UNCHANGED <<conn, seq, count>>
    BY <1>8 DEF CheckMark
  <2>5. CASE MoveTaker(e, "done", {c}) /\ c \notin superseded
    <3>1. /\ taker'[e].at = "done" /\ taker'[e].hand = {c} /\ taker'[e].last = taker[e].last
          /\ \A d \in Envs : d # e => taker'[d] = taker[d]
      BY <2>2, <2>5, TakerMoved DEF TakerSteps
    <3> QED
      BY <2>2, <2>3, <2>4, <2>5, <3>1 DEF HandInv
  <2> QED
    BY <2>1, <2>4, <2>5, HandEmpty
<1>9. ASSUME NEW e \in Envs, CheckDone(e) PROVE HandInv'
  <2>1. PICK c \in taker[e].hand :
          MoveTaker(e, "accept", {}) \/ SetTaker(e, "use", {c}, seq[c])
    BY <1>9 DEF CheckDone
  <2>2. c \in Conns /\ conn[c] = "taken"
    BY <1>0, <1>9 DEF CheckDone, HandInv
  <2>3. seq[c] <= count /\ \A d \in Conns : d # c => seq[d] # seq[c]
    BY <1>0, <2>2 DEF OrderInv, Ordered
  <2>4. UNCHANGED <<conn, seq, count>>
    BY <1>9 DEF CheckDone
  <2>5. CASE SetTaker(e, "use", {c}, seq[c])
    <3>1. /\ taker'[e].at = "use" /\ taker'[e].hand = {c} /\ taker'[e].last = seq[c]
          /\ \A d \in Envs : d # e => taker'[d] = taker[d]
      BY <1>0, <2>2, <2>5, TakerSet DEF TakerSteps
    <3> QED
      BY <1>0, <2>2, <2>3, <2>4, <3>1 DEF HandInv
  <2> QED
    BY <2>1, <2>4, <2>5, HandEmpty
<1>10. CASE Close
  BY <1>10 DEF Close, HandInv
<1>11. CASE UNCHANGED vars
  BY <1>11 DEF vars, HandInv
<1> QED
  BY <1>1, <1>2, <1>3, <1>4, <1>5, <1>6, <1>7, <1>8, <1>9, <1>10, <1>11
     DEF Next, Connection, Authenticate, ConnectLoop

\* The invariant holds in every state.
LEMMA ListenerInvariant == Spec => []ListenerInv
<1>1. ListenerInv /\ [Next]_vars => ListenerInv'
  BY ListenerTypes, ListenerQueue, ListenerOrdered, ListenerHands DEF ListenerInv
<1> QED
  BY ListenerInit, <1>1, PTL DEF Spec

\* The types hold, and authenticate never puts more than its capacity into the ready
\* channel, whatever the numbers of connections and environments.
THEOREM ListenerTypesHold == Spec => []TypeOK
  BY ListenerInvariant, PTL DEF ListenerInv

\* connectLoop never gets a connection after it used a newer one: Accept hands out only
\* a connection that was unmarked after the last one used, and of those that became
\* current only the newest is unmarked.
THEOREM NeverAnOlderConnection == Spec => NewerNeverFollowedByOlder
<1> DEFINE A == \A e \in Envs : taker'[e].at = "use" /\ taker[e].at # "use"
                                 => taker'[e].last > taker[e].last
<1>1. ListenerInv /\ [Next]_vars => [A]_vars
  <2> SUFFICES ASSUME ListenerInv, Next, NEW e \in Envs,
                      taker'[e].at = "use", taker[e].at # "use"
               PROVE  taker'[e].last > taker[e].last
    OBVIOUS
  <2> TypeOK /\ HandInv
    BY DEF ListenerInv
  <2>1. ASSUME NEW c \in Conns, Connection(c) PROVE FALSE
    BY <2>1 DEF Connection, Authenticate, AcceptLoop, Challenge, Reject, Replace,
                ClosePrevious, Offer, OfferClosed, PeerCloses, ReadLoopEnds
  <2>2. ASSUME NEW d \in Envs, CloseReplaced(d) \/ LetGo(d) PROVE FALSE
    BY <2>2 DEF CloseReplaced, LetGo
  <2>3. ASSUME NEW d \in Envs, NEW at \in TakerSteps \ {"use"}, NEW hand \in SUBSET Conns,
               MoveTaker(d, at, hand)
        PROVE FALSE
    BY <2>3, TakerMoved
  <2>4. ASSUME NEW d \in Envs, BuildEnvironment(d) \/ Release(d) \/ Stop(d) PROVE FALSE
    BY <2>3, <2>4 DEF BuildEnvironment, Release, Stop, TakerSteps
  <2>5. ASSUME NEW d \in Envs, Take(d) PROVE FALSE
    <3>1. Head(ready) \in Conns
      BY <2>5 DEF Take, TypeOK
    <3> QED
      BY <2>3, <2>5, <3>1 DEF Take, TakerSteps
  <2>7. ASSUME NEW d \in Envs, CheckMark(d) PROVE FALSE
    <3>1. PICK c \in taker[d].hand : MoveTaker(d, "accept", {}) \/ MoveTaker(d, "done", {c})
      BY <2>7 DEF CheckMark
    <3> QED
      BY <2>3, <3>1, TakerFacts DEF TakerSteps
  <2>8. ASSUME NEW d \in Envs, CheckDone(d) PROVE taker'[e].last > taker[e].last
    <3>1. PICK c \in taker[d].hand : MoveTaker(d, "accept", {}) \/ SetTaker(d, "use", {c}, seq[c])
      BY <2>8 DEF CheckDone
    <3>2. c \in Conns /\ seq[c] \in Nat
      BY TakerFacts DEF TypeOK
    <3>3. SetTaker(d, "use", {c}, seq[c])
      BY <2>3, <3>1 DEF TakerSteps
    <3>5. "use" \in TakerSteps /\ {c} \in SUBSET Conns
      BY <3>2 DEF TakerSteps
    <3>6. d = e
      <4> SUFFICES ASSUME d # e PROVE FALSE
        OBVIOUS
      <4>1. taker'[e] = taker[e]
        BY <3>2, <3>3, <3>5, TakerSet
      <4> QED
        BY <4>1
    <3>4. d = e /\ taker'[e].last = seq[c]
      BY <3>2, <3>3, <3>5, <3>6, TakerSet
    <3> QED
      BY <2>8, <3>4 DEF CheckDone, HandInv
  <2>6. ASSUME Close PROVE FALSE
    BY <2>6 DEF Close
  <2> QED
    BY <2>1, <2>2, <2>4, <2>5, <2>6, <2>7, <2>8 DEF Next, ConnectLoop
<1> QED
  BY ListenerInvariant, <1>1, PTL DEF Spec, NewerNeverFollowedByOlder

\* The slots taken are finitely many, of however many connections.
PendingInv == IsFiniteSet(Pending) /\ Cardinality(Pending) <= MaxPending

\* No more than MaxPending connections are being authenticated at once: acceptLoop takes
\* a slot before it accepts, and authenticate gives it back after the handshake.
THEOREM PendingAlwaysBounded == Spec => []PendingBounded
<1>1. Init => PendingInv
  <2> SUFFICES ASSUME Init PROVE PendingInv
    OBVIOUS
  <2>1. Pending = {}
    BY DEF Init, Pending
  <2> QED
    BY <2>1, FS_EmptySet, ListenerAssumption DEF PendingInv, ListenerAssumption
<1>2. TypeOK /\ PendingInv /\ [Next]_vars => PendingInv'
  <2> SUFFICES ASSUME TypeOK, PendingInv, [Next]_vars PROVE PendingInv'
    OBVIOUS
  <2>1. ASSUME Pending' \subseteq Pending PROVE PendingInv'
    <3>1. IsFiniteSet(Pending') /\ Cardinality(Pending') <= Cardinality(Pending)
      BY <2>1, FS_Subset DEF PendingInv
    <3>2. Cardinality(Pending') \in Nat /\ Cardinality(Pending) \in Nat
      BY <3>1, FS_CardinalityType DEF PendingInv
    <3> QED
      BY <3>1, <3>2, ListenerAssumption DEF PendingInv, ListenerAssumption
  <2>2. ASSUME NEW c \in Conns, AcceptLoop(c) PROVE PendingInv'
    <3>1. Pending' = Pending \cup {c} /\ c \notin Pending
      BY <2>2 DEF AcceptLoop, Pending, TypeOK
    <3>2. /\ IsFiniteSet(Pending \cup {c})
          /\ Cardinality(Pending \cup {c}) = Cardinality(Pending) + 1
      BY <3>1, FS_AddElement DEF PendingInv
    <3>3. Cardinality(Pending) < MaxPending /\ Cardinality(Pending) \in Nat
      BY <2>2, FS_CardinalityType DEF AcceptLoop, PendingInv
    <3> QED
      BY <3>1, <3>2, <3>3, ListenerAssumption DEF PendingInv, ListenerAssumption
  <2>3. ASSUME NEW c \in Conns, Challenge(c) \/ Reject(c) \/ Authenticate(c)
        PROVE Pending' \subseteq Pending
    BY <2>3 DEF Challenge, Reject, Authenticate, Replace, ClosePrevious, Offer,
                OfferClosed, Pending, TypeOK
  <2>4. ASSUME NEW c \in Conns, PeerCloses(c) \/ ReadLoopEnds(c)
        PROVE Pending' \subseteq Pending
    BY <2>4 DEF PeerCloses, ReadLoopEnds, Pending
  <2>5. ASSUME NEW e \in Envs, Take(e) PROVE Pending' \subseteq Pending
    BY <2>5 DEF Take, Pending, TypeOK
  <2>6. ASSUME NEW e \in Envs, CheckMark(e) \/ CheckDone(e) \/ Release(e) \/ Stop(e) \/ LetGo(e)
        PROVE Pending' \subseteq Pending
    BY <2>6 DEF CheckMark, CheckDone, Release, Stop, LetGo, Pending
  <2>7. ASSUME NEW e \in Envs, BuildEnvironment(e) \/ CloseReplaced(e)
        PROVE Pending' \subseteq Pending
    BY <2>7 DEF BuildEnvironment, CloseReplaced, Pending
  <2>8. ASSUME Close \/ UNCHANGED vars PROVE Pending' \subseteq Pending
    BY <2>8 DEF Close, vars, Pending
  <2> QED
    BY <2>1, <2>2, <2>3, <2>4, <2>5, <2>6, <2>7, <2>8 DEF Next, Connection, ConnectLoop
<1>3. PendingInv => PendingBounded
  BY DEF PendingInv, PendingBounded
<1> QED
  BY ListenerTypesHold, <1>1, <1>2, <1>3, PTL DEF Spec
=============================================================================

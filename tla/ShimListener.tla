---------------------------- MODULE ShimListener ----------------------------
(***************************************************************************)
(* The agent's end of the shim connection: a listener that authenticates   *)
(* every connection on its own goroutine, lets a newer one replace the     *)
(* previous one, and hands them to the connectLoop of an environment one   *)
(* at a time.  Building the server object again makes a new environment,   *)
(* whose connectLoop runs before the previous one is closed.  The          *)
(* goroutines interleave at every lock, channel operation and close.       *)
(***************************************************************************)
EXTENDS Integers, Sequences, FiniteSets

CONSTANTS
  Conns,       \* connections that may be made, genuine or not
  MaxPending,  \* MaxPendingHandshakes
  ReadyCap,    \* capacity of the ready channel
  MaxEnvs      \* environments the factory builds for the server

ASSUME ListenerAssumption ==
  /\ MaxPending \in Nat \ {0}
  /\ ReadyCap \in Nat \ {0}
  /\ MaxEnvs \in Nat \ {0}

Envs == 1..MaxEnvs

VARIABLES
  conn,        \* where the goroutine of each connection is
  open,        \* connections whose socket is open at both ends
  done,        \* connections whose read loop has seen the end
  superseded,  \* connections a newer one has replaced
  current,     \* Listener.current: a set of at most one connection
  prev,        \* the connection each goroutine found in current
  count,       \* connections that became current so far
  seq,         \* which of them each connection was, 0 before
  ready,       \* the ready channel
  closed,      \* Listener.Close: not called, the channel closed, the socket too
  cancelled,   \* environments that were closed
  taker        \* connectLoop of each environment: what it is at, the connection in
               \* hand, the last one it used

vars == <<conn, open, done, superseded, current, prev, count, seq, ready, closed,
          cancelled, taker>>

\* Connections that hold a slot of the pending channel.
Pending == {c \in Conns : conn[c] = "handshake"}

Init ==
  /\ conn = [c \in Conns |-> "new"]
  /\ open = {}
  /\ done = {}
  /\ superseded = {}
  /\ current = {}
  /\ prev = [c \in Conns |-> {}]
  /\ count = 0
  /\ seq = [c \in Conns |-> 0]
  /\ ready = <<>>
  /\ closed = "no"
  /\ cancelled = {}
  /\ taker = [e \in Envs |-> [at |-> "none", hand |-> {}, last |-> 0]]

-----------------------------------------------------------------------------
(* acceptLoop and authenticate.                                            *)

\* acceptLoop takes a slot, accepts and starts the handshake.
AcceptLoop(c) ==
  /\ closed # "both"
  /\ Cardinality(Pending) < MaxPending
  /\ conn[c] = "new"
  /\ conn' = [conn EXCEPT ![c] = "handshake"]
  /\ open' = open \cup {c}
  /\ UNCHANGED <<done, superseded, current, prev, count, seq, ready, closed, cancelled, taker>>

\* The peer proves the token; the read loop of its Client starts.
Challenge(c) ==
  /\ conn[c] = "handshake"
  /\ c \in open
  /\ conn' = [conn EXCEPT ![c] = "proven"]
  /\ UNCHANGED <<open, done, superseded, current, prev, count, seq, ready, closed, cancelled, taker>>

\* The proof is wrong, the peer is gone or the handshake timed out.
Reject(c) ==
  /\ conn[c] = "handshake"
  /\ conn' = [conn EXCEPT ![c] = "over"]
  /\ open' = open \ {c}
  /\ UNCHANGED <<done, superseded, current, prev, count, seq, ready, closed, cancelled, taker>>

\* Mutant: the previous connection is closed but not marked.
ReplaceUnmarked(c) ==
  /\ conn[c] = "proven"
  /\ prev' = [prev EXCEPT ![c] = current]
  /\ current' = {c}
  /\ count' = count + 1
  /\ seq' = [seq EXCEPT ![c] = count + 1]
  /\ conn' = [conn EXCEPT ![c] = "replaced"]
  /\ UNCHANGED <<open, done, superseded, ready, closed, cancelled, taker>>

\* Under the lock: the newer connection takes the place of the previous one,
\* which is marked.
Replace(c) ==
  /\ conn[c] = "proven"
  /\ prev' = [prev EXCEPT ![c] = current]
  /\ superseded' = superseded \cup current
  /\ current' = {c}
  /\ count' = count + 1
  /\ seq' = [seq EXCEPT ![c] = count + 1]
  /\ conn' = [conn EXCEPT ![c] = "replaced"]
  /\ UNCHANGED <<open, done, ready, closed, cancelled, taker>>

\* Mutant: the previous connection is left open.
KeepPrevious(c) ==
  /\ conn[c] = "replaced"
  /\ conn' = [conn EXCEPT ![c] = "offer"]
  /\ UNCHANGED <<open, done, superseded, current, prev, count, seq, ready, closed, cancelled, taker>>

\* Outside the lock: the previous connection is closed.
ClosePrevious(c) ==
  /\ conn[c] = "replaced"
  /\ open' = open \ prev[c]
  /\ conn' = [conn EXCEPT ![c] = "offer"]
  /\ UNCHANGED <<done, superseded, current, prev, count, seq, ready, closed, cancelled, taker>>

\* The connection goes into the ready channel.
Offer(c) ==
  /\ conn[c] = "offer"
  /\ Len(ready) < ReadyCap
  /\ ready' = Append(ready, c)
  /\ conn' = [conn EXCEPT ![c] = "queued"]
  /\ UNCHANGED <<open, done, superseded, current, prev, count, seq, closed, cancelled, taker>>

\* The listener was closed meanwhile.
OfferClosed(c) ==
  /\ conn[c] = "offer"
  /\ closed # "no"
  /\ open' = open \ {c}
  /\ conn' = [conn EXCEPT ![c] = "over"]
  /\ UNCHANGED <<done, superseded, current, prev, count, seq, ready, closed, cancelled, taker>>

-----------------------------------------------------------------------------
(* The connection itself: either end may close it, and the Client's read   *)
(* loop notices later.                                                     *)

PeerCloses(c) ==
  /\ c \in open
  /\ open' = open \ {c}
  /\ UNCHANGED <<conn, done, superseded, current, prev, count, seq, ready, closed, cancelled, taker>>

ReadLoopEnds(c) ==
  /\ conn[c] \notin {"new", "handshake"}
  /\ c \notin open
  /\ c \notin done
  /\ done' = done \cup {c}
  /\ UNCHANGED <<conn, open, superseded, current, prev, count, seq, ready, closed, cancelled, taker>>

-----------------------------------------------------------------------------
(* Environments: Registry.Factory, and Accept as connectLoop calls it.     *)

SetTaker(e, at, hand, last) ==
  taker' = [taker EXCEPT ![e] = [at |-> at, hand |-> hand, last |-> last]]

MoveTaker(e, at, hand) == SetTaker(e, at, hand, taker[e].last)

\* New: connectLoop of the environment starts.
BuildEnvironment(e) ==
  /\ taker[e].at = "none"
  /\ \A d \in Envs : d < e => taker[d].at # "none"
  /\ \A d \in Envs : d < e - 1 => d \in cancelled
  /\ MoveTaker(e, "accept", {})
  /\ UNCHANGED <<conn, open, done, superseded, current, prev, count, seq, ready, closed, cancelled>>

\* The factory closes the environment the new one replaces.
CloseReplaced(e) ==
  /\ e + 1 \in Envs
  /\ taker[e + 1].at # "none"
  /\ e \notin cancelled
  /\ cancelled' = cancelled \cup {e}
  /\ UNCHANGED <<conn, open, done, superseded, current, prev, count, seq, ready, closed, taker>>

\* Accept takes a connection from the channel.
Take(e) ==
  /\ taker[e].at = "accept"
  /\ ready # <<>>
  /\ MoveTaker(e, "mark", {Head(ready)})
  /\ ready' = Tail(ready)
  /\ conn' = [conn EXCEPT ![Head(ready)] = "taken"]
  /\ UNCHANGED <<open, done, superseded, current, prev, count, seq, closed, cancelled>>

\* It was replaced before it was picked up, or not.
CheckMark(e) ==
  /\ taker[e].at = "mark"
  /\ \E c \in taker[e].hand :
       IF c \in superseded THEN MoveTaker(e, "accept", {}) ELSE MoveTaker(e, "done", {c})
  /\ UNCHANGED <<conn, open, done, superseded, current, prev, count, seq, ready, closed, cancelled>>

\* It was dropped before it was picked up, or it is handed out.
CheckDone(e) ==
  /\ taker[e].at = "done"
  /\ \E c \in taker[e].hand :
       IF c \in done THEN MoveTaker(e, "accept", {}) ELSE SetTaker(e, "use", {c}, seq[c])
  /\ UNCHANGED <<conn, open, done, superseded, current, prev, count, seq, ready, closed, cancelled>>

\* connectLoop is done with a connection when its events end.
Release(e) ==
  /\ taker[e].at = "use"
  /\ taker[e].hand \subseteq done
  /\ MoveTaker(e, "accept", {})
  /\ UNCHANGED <<conn, open, done, superseded, current, prev, count, seq, ready, closed, cancelled>>

\* Mutant: a closed environment keeps its connection.
KeepHold(e) ==
  /\ e \in cancelled
  /\ taker[e].at = "use"
  /\ UNCHANGED vars

\* A closed environment closes the connection it uses, if it got that far.
LetGo(e) ==
  /\ e \in cancelled
  /\ taker[e].at = "use"
  /\ taker[e].hand \subseteq open
  /\ open' = open \ taker[e].hand
  /\ UNCHANGED <<conn, done, superseded, current, prev, count, seq, ready, closed, cancelled, taker>>

\* A closed environment takes no further connection, unless Accept already waits
\* (Take, when both channels are ready).
Stop(e) ==
  /\ e \in cancelled
  /\ taker[e].at = "accept"
  /\ MoveTaker(e, "ended", {})
  /\ UNCHANGED <<conn, open, done, superseded, current, prev, count, seq, ready, closed, cancelled>>

\* Close, when the agent ends: first the channel, then the socket.  Accept then fails
\* and connectLoop tries again after a pause.
Close ==
  /\ closed # "both"
  /\ closed' = IF closed = "no" THEN "channel" ELSE "both"
  /\ UNCHANGED <<conn, open, done, superseded, current, prev, count, seq, ready, cancelled, taker>>

-----------------------------------------------------------------------------
Authenticate(c) == Replace(c) \/ ClosePrevious(c) \/ Offer(c) \/ OfferClosed(c)

Connection(c) ==
  \/ AcceptLoop(c) \/ Challenge(c) \/ Reject(c) \/ Authenticate(c)
  \/ PeerCloses(c) \/ ReadLoopEnds(c)

ConnectLoop(e) ==
  \/ Take(e) \/ CheckMark(e) \/ CheckDone(e) \/ Release(e) \/ Stop(e)

Next ==
  \/ \E c \in Conns : Connection(c)
  \/ \E e \in Envs : \/ BuildEnvironment(e) \/ CloseReplaced(e)
                      \/ ConnectLoop(e) \/ LetGo(e)
  \/ Close

Spec == Init /\ [][Next]_vars

\* Goroutines run, the handshake has a deadline, a closed socket ends its read loop,
\* the server is built once and a replaced environment is closed.  Nobody has to
\* connect, to prove the token or to hang up.
Fairness ==
  /\ \A c \in Conns :
       WF_vars(Reject(c)) /\ WF_vars(Authenticate(c)) /\ WF_vars(ReadLoopEnds(c))
  /\ \A e \in Envs :
       WF_vars(ConnectLoop(e)) /\ WF_vars(LetGo(e)) /\ WF_vars(CloseReplaced(e))
  /\ WF_vars(BuildEnvironment(1))

FairSpec == Spec /\ Fairness

-----------------------------------------------------------------------------
(* Properties.                                                             *)

States == {"new", "handshake", "proven", "replaced", "offer", "queued", "taken", "over"}

TakerSteps == {"none", "accept", "mark", "done", "use", "ended"}

TakerStates == [at : TakerSteps, hand : SUBSET Conns, last : Nat]

\* Every variable has its type, and the ready channel never holds more than its
\* capacity (authenticate blocks while it is full).
TypeOK ==
  /\ conn \in [Conns -> States]
  /\ open \subseteq Conns
  /\ done \subseteq Conns
  /\ superseded \subseteq Conns
  /\ current \subseteq Conns
  /\ prev \in [Conns -> SUBSET Conns]
  /\ count \in Nat
  /\ seq \in [Conns -> Nat]
  /\ ready \in Seq(Conns)
  /\ Len(ready) <= ReadyCap
  /\ closed \in {"no", "channel", "both"}
  /\ cancelled \subseteq Envs
  /\ taker \in [Envs -> TakerStates]

\* However many peers connect, no more than MaxPending of them are being
\* authenticated at once (acceptLoop takes a slot before it accepts).
PendingBounded == Cardinality(Pending) <= MaxPending

\* connectLoop never gets a connection after it used a newer one, however the
\* handshakes interleave: authenticate marks the one it replaces before it offers its
\* own, and Accept skips a marked one.
NewerNeverFollowedByOlder ==
  [][\A e \in Envs : taker'[e].at = "use" /\ taker[e].at # "use"
                       => taker'[e].last > taker[e].last]_vars

\* An environment that was replaced ends up without a connection for good (Factory:
\* it "must not keep taking shim connections"), even one it took just as it was closed.
ReplacedLetsGo ==
  \A e \in Envs : <>[](e \in cancelled => taker[e].hand = {})

\* A shim that proved the token and keeps its connection is handed to the agent: what
\* it replaced is closed, so connectLoop lets go of it and comes back.
NewestIsUsed ==
  \A c \in Conns :
    current = {c} ~> \/ \E e \in Envs : taker[e].hand = {c} /\ taker[e].at = "use"
                     \/ current # {c} \/ c \notin open \/ closed # "no"
=============================================================================

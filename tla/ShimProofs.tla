----------------------------- MODULE ShimProofs -----------------------------
(***************************************************************************)
(* The supervisor never runs two games and never takes a foreign exit      *)
(* status, for any number of starts.                                       *)
(***************************************************************************)
EXTENDS Shim, TLAPS

SrvSteps == {"idle", "spawn", "record", "launch", "sample", "ready"}
WaitSteps == {"none", "wait", "list", "kill", "clear", "sample", "ready", "tell", "close", "done"}
ShutSteps == {"none", "ready", "stop", "term", "kill", "killed", "returned", "gaveup"}
ProcStates == {"none", "alive", "zombie", "reaped"}

\* waitLoop has cleared the pid.
Past == {"sample", "ready", "tell", "close", "done"}

\* Nothing of a start is alive.
Gone(n) == \A k \in Kinds : proc[<<n, k>>] # "alive"

\* A start is over: its waitLoop has cleared the pid and nothing of it is alive.
Over(n) == wait[n].at \in Past /\ Gone(n)

\* Starts that did not happen yet have no process and no waitLoop.
FutureInv ==
  \A n \in Starts : n > starts =>
    wait[n].at = "none" /\ \A k \in Kinds : proc[<<n, k>>] = "none"

\* Every start before the last one is over, and the last one too when no pid is recorded
\* and none is about to be.
OverInv ==
  /\ \A n \in Starts : n < starts => Over(n)
  /\ pid = 0 /\ srv.at # "record" /\ starts # 0 => Over(starts)

\* What the handler's place says of the pid and of the last start's waitLoop.
HandlerInv ==
  /\ pid # 0 => pid = starts
  /\ srv.at \in {"spawn", "record"} => pid = 0
  /\ srv.at = "spawn" => starts < MaxStarts
  /\ srv.at = "launch" => pid # 0
  /\ srv.at \in {"record", "launch"} => starts # 0 /\ wait[starts].at = "none"
  /\ pid # 0 /\ srv.at # "launch" => wait[starts].at \in {"wait", "list", "kill", "clear"}

\* What the place of the last start's waitLoop says of its processes.
KillInv ==
  starts # 0 =>
    /\ wait[starts].at \in {"list", "kill", "clear"} => proc[<<starts, "main">>] = "reaped"
    /\ wait[starts].at = "kill" =>
         \A k \in Kinds : proc[<<starts, k>>] = "alive" => <<starts, k>> \in listed
    /\ wait[starts].at = "clear" => Gone(starts)

\* The channel is empty or holds the exit of the supervised process, which its waitLoop
\* has not read yet.
ExitInv ==
  \/ childExit = <<>>
  \/ /\ pid # 0
     /\ childExit = << <<pid, "main">> >>
     /\ proc[<<pid, "main">>] = "reaped"
     /\ wait[pid].at \in {"none", "wait"}

GameInv == FutureInv /\ OverInv /\ HandlerInv /\ KillInv /\ ExitInv

ShimInv == TypeOK /\ GameInv

\* Starts are numbers, and the processes of a start are told apart by their kind.
LEMMA StartFacts ==
  /\ MaxStarts \in Nat /\ \A n \in Starts : n \in Nat /\ n > 0 /\ n <= MaxStarts
  /\ \A n \in Nat : n > 0 /\ n <= MaxStarts => n \in Starts
  /\ \A n \in Starts, k \in Kinds : <<n, k>> \in Procs
  /\ \A p \in Procs : p[1] \in Starts /\ p[2] \in Kinds /\ p = <<p[1], p[2]>>
  /\ "main" \in Kinds /\ "escaped" \in Kinds
  BY ShimAssumption DEF ShimAssumption, Starts, Procs, Kinds

\* The kill of a set changes no more than alive to zombie.
LEMMA KilledFacts ==
  ASSUME TypeOK, NEW set
  PROVE  /\ Killed(set) \in [Procs -> ProcStates]
         /\ \A p \in Procs : Killed(set)[p] = proc[p] \/ (p \in set /\ Killed(set)[p] = "zombie")
         /\ \A p \in Procs : p \in set => Killed(set)[p] # "alive"
         /\ \A p \in Procs : proc[p] # "alive" => Killed(set)[p] = proc[p]
  BY DEF TypeOK, Killed, ProcStates

\* A step of waitLoop touches nothing of the other ones.
LEMMA WaitFacts ==
  ASSUME TypeOK, NEW n \in Starts, NEW step \in WaitSteps, WaitGoes(n, step)
  PROVE  /\ wait' \in [Starts -> [at : WaitSteps, ready : BOOLEAN]]
         /\ wait'[n].at = step
         /\ \A m \in Starts : m # n => wait'[m] = wait[m]
  BY DEF TypeOK, WaitGoes, WaitSteps

\* The number of starts and the pid are numbers of starts, or zero.
LEMMA NumberFacts ==
  ASSUME TypeOK
  PROVE  /\ starts \in Nat /\ starts <= MaxStarts /\ pid \in Nat /\ pid <= starts
         /\ starts # 0 => starts \in Starts
         /\ pid # 0 => pid \in Starts
<1>1. MaxStarts \in Nat /\ starts \in 0..MaxStarts /\ pid \in 0..starts
  BY ShimAssumption DEF TypeOK, ShimAssumption
<1> QED
  BY <1>1 DEF Starts

\* Init satisfies the invariant: nothing was started.
LEMMA ShimInit == Init => ShimInv
<1> SUFFICES ASSUME Init PROVE ShimInv
  OBVIOUS
<1>1. TypeOK
  <2>1. /\ proc \in [Procs -> ProcStates]
        /\ wait \in [Starts -> [at : WaitSteps, ready : BOOLEAN]]
    BY DEF Init, ProcStates, WaitSteps
  <2>2. /\ srv \in [at : SrvSteps, ready : BOOLEAN]
        /\ shut \in [at : ShutSteps, pid : 0..MaxStarts]
        /\ starts \in 0..MaxStarts /\ pid \in 0..starts
    BY StartFacts DEF Init, SrvSteps, ShutSteps
  <2>3. childExit \in Seq(Procs)
    BY DEF Init
  <2> QED
    BY <2>1, <2>2, <2>3 DEF Init, TypeOK, ProcStates, WaitSteps, SrvSteps, ShutSteps
<1>2. FutureInv /\ OverInv /\ HandlerInv /\ KillInv /\ ExitInv
  BY StartFacts DEF Init, FutureInv, OverInv, HandlerInv, KillInv, ExitInv
<1> QED
  BY <1>1, <1>2 DEF ShimInv, GameInv

\* Every step keeps the types.
LEMMA ShimTypes == ShimInv /\ [Next]_vars => TypeOK'
<1> SUFFICES ASSUME ShimInv, [Next]_vars PROVE TypeOK'
  OBVIOUS
<1> TypeOK
  BY DEF ShimInv
<1> USE StartFacts, NumberFacts
<1>1. CASE StartRequest \/ SpawnFails
  BY <1>1 DEF StartRequest, SpawnFails, TypeOK
<1>2. CASE Spawn
  <2>1. starts + 1 \in Starts
    BY <1>2 DEF Spawn, ShimInv, GameInv, HandlerInv
  <2>2. starts + 1 \in 0..MaxStarts /\ pid \in 0..(starts + 1)
    BY <2>1
  <2>3. proc' \in [Procs -> ProcStates]
    BY <1>2, <2>1 DEF Spawn, TypeOK, ProcStates
  <2> QED
    BY <1>2, <2>2, <2>3 DEF Spawn, TypeOK, ProcStates
<1>3. CASE Record
  BY <1>3 DEF Record, TypeOK
<1>4. CASE Launch
  <2>1. starts \in Starts
    BY <1>4 DEF Launch, ShimInv, GameInv, HandlerInv
  <2>2. wait' \in [Starts -> [at : WaitSteps, ready : BOOLEAN]]
    BY <1>4, <2>1, WaitFacts DEF Launch, WaitSteps
  <2> QED
    BY <1>4, <2>2 DEF Launch, TypeOK, WaitSteps
<1>5. ASSUME NEW running \in BOOLEAN, StateRequest(running) PROVE TypeOK'
  BY <1>5 DEF StateRequest, TypeOK
<1>6. CASE StateSample
  <2>1. Ready \in BOOLEAN
    BY DEF Ready, TypeOK
  <2> QED
    BY <1>6, <2>1 DEF StateSample, TypeOK
<1>7. CASE StateReady
  BY <1>7 DEF StateReady, TypeOK
<1>8. CASE KillRequest
  BY <1>8, KilledFacts DEF KillRequest, TypeOK, ProcStates
<1>9. ASSUME NEW p \in Procs, Exits(p) PROVE TypeOK'
  <2>1. proc' \in [Procs -> ProcStates]
    BY <1>9 DEF Exits, TypeOK, ProcStates
  <2> QED
    BY <1>9, <2>1 DEF Exits, TypeOK, ProcStates
<1>10. ASSUME NEW p \in Procs, Reap(p) PROVE TypeOK'
  <2>1. proc' \in [Procs -> ProcStates]
    BY <1>10 DEF Reap, TypeOK, ProcStates
  <2>2. childExit' \in Seq(Procs)
    <3>1. CASE childExit' = Append(childExit, p)
      BY <3>1 DEF TypeOK
    <3>2. CASE UNCHANGED childExit
      BY <3>2 DEF TypeOK
    <3> QED
      BY <1>10, <3>1, <3>2 DEF Reap
  <2> QED
    BY <1>10, <2>1, <2>2 DEF Reap, TypeOK, ProcStates
<1>11. ASSUME NEW n \in Starts, Escapes(n) PROVE TypeOK'
  <2>1. proc' \in [Procs -> ProcStates]
    BY <1>11 DEF Escapes, TypeOK, ProcStates
  <2> QED
    BY <1>11, <2>1 DEF Escapes, TypeOK, ProcStates
<1>12. ASSUME NEW n \in Starts, WaitExit(n) PROVE TypeOK'
  <2>1. wait' \in [Starts -> [at : WaitSteps, ready : BOOLEAN]]
    <3>1. CASE WaitGoes(n, "list")
      BY <3>1, WaitFacts DEF WaitSteps
    <3>2. CASE UNCHANGED wait
      BY <3>2 DEF TypeOK, WaitSteps
    <3> QED
      BY <1>12, <3>1, <3>2 DEF WaitExit
  <2>2. childExit' \in Seq(Procs)
    BY <1>12 DEF WaitExit, TypeOK
  <2> QED
    BY <1>12, <2>1, <2>2 DEF WaitExit, TypeOK, WaitSteps
<1>13. ASSUME NEW n \in Starts, List(n) \/ KillStragglers(n) \/ Clear(n) \/ WriteReady(n) \/ TellExit(n)
       PROVE TypeOK'
  <2>1. PICK step \in WaitSteps : WaitGoes(n, step)
    BY <1>13 DEF List, KillStragglers, Clear, WriteReady, TellExit, WaitSteps
  <2>2. wait' \in [Starts -> [at : WaitSteps, ready : BOOLEAN]]
    BY <2>1, WaitFacts
  <2>3. Alive \subseteq Procs
    BY DEF Alive
  <2>4. CASE List(n)
    BY <2>2, <2>3, <2>4 DEF List, TypeOK, WaitSteps
  <2>5. CASE KillStragglers(n)
    BY <2>2, <2>5, KilledFacts DEF KillStragglers, TypeOK, WaitSteps, ProcStates
  <2>6. CASE Clear(n)
    BY <2>2, <2>6 DEF Clear, TypeOK, WaitSteps
  <2>7. CASE WriteReady(n)
    <3>1. wait[n].ready \in BOOLEAN
      BY DEF TypeOK
    <3> QED
      BY <2>2, <2>7, <3>1 DEF WriteReady, TypeOK, WaitSteps
  <2>8. CASE TellExit(n)
    BY <2>2, <2>8 DEF TellExit, TypeOK, WaitSteps
  <2> QED
    BY <1>13, <2>4, <2>5, <2>6, <2>7, <2>8
<1>14. ASSUME NEW n \in Starts, Sample(n) PROVE TypeOK'
  <2>1. Ready \in BOOLEAN
    BY DEF Ready, TypeOK
  <2> QED
    BY <1>14, <2>1 DEF Sample, TypeOK
<1>15. CASE Terminate
  BY <1>15 DEF Terminate, TypeOK
<1>16. CASE Unready \/ Stop \/ SeeExit \/ GiveUp
  BY <1>16 DEF Unready, Stop, SeeExit, GiveUp, TypeOK
<1>17. CASE StopKill
  BY <1>17, KilledFacts DEF StopKill, TypeOK, ProcStates
<1>18. CASE UNCHANGED vars
  BY <1>18 DEF vars, TypeOK
<1> QED
  BY <1>1, <1>2, <1>3, <1>4, <1>5, <1>6, <1>7, <1>8, <1>9, <1>10, <1>11, <1>12, <1>13,
     <1>14, <1>15, <1>16, <1>17, <1>18
     DEF Next, Agent, Handle, WaitLoop, Shutdown

\* A step that leaves the processes, the pid, the channel and the waitLoops alone, and
\* moves the handler at most among its harmless places, keeps the invariant.
LEMMA GameFrame ==
  ASSUME GameInv, UNCHANGED <<proc, starts, pid, childExit, wait, listed>>,
         \/ srv'.at = srv.at
         \/ srv.at \in {"idle", "sample", "ready", "spawn"} /\ srv'.at \in {"idle", "sample", "ready"}
  PROVE  GameInv'
  BY DEF GameInv, FutureInv, OverInv, Over, Gone, HandlerInv, KillInv, ExitInv

\* Processes may die at any time.
LEMMA GameDies ==
  ASSUME ShimInv, UNCHANGED <<starts, pid, childExit, wait, listed, srv>>,
         \A p \in Procs : proc'[p] = proc[p] \/ (proc[p] = "alive" /\ proc'[p] = "zombie")
  PROVE  GameInv'
<1> USE StartFacts, NumberFacts DEF ShimInv, GameInv
<1>1. FutureInv'
  BY DEF FutureInv
<1>2. OverInv'
  BY DEF OverInv, Over, Gone
<1>3. HandlerInv'
  BY DEF HandlerInv
<1>4. KillInv'
  BY DEF KillInv, Gone
<1>5. ExitInv'
  BY DEF ExitInv
<1> QED
  BY <1>1, <1>2, <1>3, <1>4, <1>5

\* Every step of the handler keeps the invariant.
LEMMA GameHandler == ShimInv /\ (Agent \/ Handle) => GameInv'
<1> SUFFICES ASSUME ShimInv, Agent \/ Handle PROVE GameInv'
  OBVIOUS
<1> TypeOK /\ GameInv
  BY DEF ShimInv
<1>1. CASE StartRequest
  <2>1. srv'.at = "spawn" /\ srv.at = "idle" /\ starts < MaxStarts /\ pid = 0
    BY <1>1 DEF StartRequest, TypeOK
  <2>2. UNCHANGED <<proc, starts, pid, childExit, wait, listed>>
    BY <1>1 DEF StartRequest
  <2> QED
    BY <2>1, <2>2 DEF GameInv, FutureInv, OverInv, Over, Gone, HandlerInv, KillInv, ExitInv
<1>2. CASE Spawn
  <2> DEFINE n == starts + 1
  <2>1. n \in Starts /\ srv.at = "spawn" /\ pid = 0 /\ starts \in Nat
    BY <1>2, StartFacts, NumberFacts DEF Spawn, GameInv, HandlerInv
  <2>2. /\ starts' = n /\ srv'.at = "record"
        /\ UNCHANGED <<pid, childExit, wait, listed>>
        /\ proc'[<<n, "main">>] = "alive"
        /\ \A p \in Procs : p # <<n, "main">> => proc'[p] = proc[p]
    BY <1>2, <2>1, StartFacts DEF Spawn, TypeOK
  <2>3. \A m \in Starts : m # n => \A k \in Kinds : proc'[<<m, k>>] = proc[<<m, k>>]
    BY <2>2, StartFacts
  <2>4. wait[n].at = "none"
    BY <2>1 DEF GameInv, FutureInv
  <2> HIDE DEF n
  <2>5. \A m \in Starts : m < n => m <= starts
    BY <2>1, StartFacts DEF n
  <2>6. n > starts /\ n # 0
    BY <2>1 DEF n
  <2>7. FutureInv'
    BY <2>1, <2>2, <2>3, <2>6, StartFacts DEF GameInv, FutureInv
  <2>8. OverInv'
    <3>1. \A m \in Starts : m <= starts => Over(m)
      BY <2>1, StartFacts DEF GameInv, OverInv
    <3>2. ASSUME NEW m \in Starts, m < n PROVE Over(m)'
      <4>1. Over(m) /\ m # n
        BY <2>5, <3>1, <3>2, StartFacts
      <4> QED
        BY <2>2, <2>3, <4>1 DEF Over, Gone
    <3> QED
      BY <2>2, <3>2 DEF OverInv
  <2>9. HandlerInv' /\ KillInv' /\ ExitInv'
    BY <2>1, <2>2, <2>4, <2>6 DEF GameInv, HandlerInv, KillInv, ExitInv
  <2> QED
    BY <2>7, <2>8, <2>9 DEF GameInv
<1>3. CASE SpawnFails
  BY <1>3, GameFrame DEF SpawnFails, TypeOK
<1>4. CASE Record
  <2>1. pid = 0 /\ srv.at = "record" /\ starts # 0 /\ starts \in Nat
    BY <1>4, NumberFacts DEF Record, GameInv, HandlerInv
  <2>2. pid' = starts /\ srv'.at = "launch" /\ UNCHANGED <<proc, starts, childExit, wait, listed>>
    BY <1>4 DEF Record, TypeOK
  <2> QED
    BY <2>1, <2>2 DEF GameInv, FutureInv, OverInv, Over, Gone, HandlerInv, KillInv, ExitInv
<1>5. CASE Launch
  <2>1. pid = starts /\ pid # 0 /\ srv.at = "launch" /\ starts \in Starts /\ wait[starts].at = "none"
    BY <1>5, NumberFacts DEF Launch, GameInv, HandlerInv
  <2>2. srv'.at = "idle" /\ UNCHANGED <<proc, starts, pid, childExit, listed>>
    BY <1>5 DEF Launch, TypeOK
  <2>3. wait'[starts].at = "wait" /\ \A m \in Starts : m # starts => wait'[m] = wait[m]
    BY <1>5, <2>1, WaitFacts DEF Launch, WaitSteps
  <2>4. FutureInv' /\ OverInv'
    BY <2>1, <2>2, <2>3, StartFacts, NumberFacts DEF GameInv, FutureInv, OverInv, Over, Gone
  <2>5. HandlerInv' /\ KillInv' /\ ExitInv'
    BY <2>1, <2>2, <2>3 DEF GameInv, HandlerInv, KillInv, ExitInv
  <2> QED
    BY <2>4, <2>5 DEF GameInv
<1>6. ASSUME NEW running \in BOOLEAN, StateRequest(running) PROVE GameInv'
  BY <1>6, GameFrame DEF StateRequest, TypeOK
<1>7. CASE StateSample
  BY <1>7, GameFrame DEF StateSample, TypeOK
<1>8. CASE StateReady
  BY <1>8, GameFrame DEF StateReady, TypeOK
<1>9. CASE KillRequest
  BY <1>9, GameDies, KilledFacts DEF KillRequest
<1> QED
  BY <1>1, <1>2, <1>3, <1>4, <1>5, <1>6, <1>7, <1>8, <1>9 DEF Agent, Handle

\* The processes of the game and the reaper keep the invariant.
LEMMA GameProcesses ==
  ASSUME ShimInv,
         \/ \E p \in Procs : Exits(p) \/ Reap(p)
         \/ \E n \in Starts : Escapes(n)
  PROVE  GameInv'
<1> TypeOK /\ GameInv
  BY DEF ShimInv
<1>1. ASSUME NEW p \in Procs, Exits(p) PROVE GameInv'
  BY <1>1, GameDies DEF Exits, TypeOK
<1>2. ASSUME NEW p \in Procs, Reap(p) PROVE GameInv'
  <2>1. /\ proc[p] = "zombie" /\ proc'[p] = "reaped"
        /\ \A q \in Procs : q # p => proc'[q] = proc[q]
        /\ UNCHANGED <<starts, pid, srv, wait, listed>>
        /\ srv.at # "record"
    BY <1>2 DEF Reap, TypeOK, SpawnLocked
  <2>2. \A q \in Procs : proc'[q] = "alive" <=> proc[q] = "alive"
    BY <2>1
  <2>3. \A q \in Procs : (proc[q] = "reaped" => proc'[q] = "reaped")
                         /\ (proc[q] = "none" => proc'[q] = "none")
    BY <2>1
  <2>4. FutureInv' /\ OverInv' /\ HandlerInv' /\ KillInv'
    BY <2>1, <2>2, <2>3, StartFacts, NumberFacts
       DEF GameInv, FutureInv, OverInv, Over, Gone, HandlerInv, KillInv
  <2>5. CASE p = <<pid, "main">>
    <3>1. pid # 0 /\ pid = starts /\ pid \in Starts
      <4>1. pid \in Starts
        BY <2>5 DEF Procs
      <4> QED
        BY <4>1, StartFacts DEF GameInv, HandlerInv
    <3>2. childExit = <<>>
      BY <2>1, <2>5 DEF GameInv, ExitInv
    <3>3. childExit' = <<p>>
      BY <1>2, <2>5, <3>2 DEF Reap
    <3>4. wait[pid].at \in {"none", "wait"}
      BY <2>1, <2>5, <3>1 DEF GameInv, HandlerInv, KillInv
    <3> QED
      BY <2>1, <2>4, <2>5, <3>1, <3>3, <3>4 DEF GameInv, ExitInv
  <2>6. CASE p # <<pid, "main">>
    <3>1. UNCHANGED childExit
      BY <1>2, <2>6 DEF Reap
    <3>2. ExitInv'
      BY <2>1, <2>3, <3>1, StartFacts, NumberFacts DEF GameInv, ExitInv
    <3> QED
      BY <2>4, <3>2 DEF GameInv
  <2> QED
    BY <2>5, <2>6
<1>3. ASSUME NEW n \in Starts, Escapes(n) PROVE GameInv'
  <2>1. /\ proc[<<n, "main">>] # "none" /\ wait[n].at \in {"none", "wait", "list"}
        /\ proc[<<n, "escaped">>] = "none"
        /\ proc'[<<n, "escaped">>] = "alive"
        /\ \A q \in Procs : q # <<n, "escaped">> => proc'[q] = proc[q]
        /\ UNCHANGED <<starts, pid, srv, childExit, wait, listed>>
    BY <1>3, StartFacts DEF Escapes, TypeOK
  <2>2. n = starts /\ (pid # 0 \/ srv.at = "record")
    <3>1. ~ (n > starts)
      BY <2>1, StartFacts DEF GameInv, FutureInv
    <3>2. ~ (n < starts)
      BY <2>1 DEF GameInv, OverInv, Over, Past
    <3>3. n = starts
      BY <3>1, <3>2, StartFacts, NumberFacts
    <3> QED
      BY <2>1, <3>3, StartFacts DEF GameInv, OverInv, Over, Past
  <2>3. \A m \in Starts, k \in Kinds : m # n => proc'[<<m, k>>] = proc[<<m, k>>]
    BY <2>1, StartFacts
  <2>4. proc'[<<n, "main">>] = proc[<<n, "main">>]
    BY <2>1, StartFacts
  <2>5. FutureInv' /\ OverInv'
    BY <2>1, <2>2, <2>3, StartFacts, NumberFacts DEF GameInv, FutureInv, OverInv, Over, Gone
  <2>6. HandlerInv' /\ KillInv'
    BY <2>1, <2>2, <2>4 DEF GameInv, HandlerInv, KillInv
  <2>7. ExitInv'
    BY <2>1, <2>2, <2>4 DEF GameInv, HandlerInv, ExitInv
  <2> QED
    BY <2>5, <2>6, <2>7 DEF GameInv
<1> QED
  BY <1>1, <1>2, <1>3

\* Every step of a waitLoop keeps the invariant: it kills everything before it clears
\* the pid.
LEMMA GameWaitLoop ==
  ASSUME ShimInv, NEW n \in Starts, WaitLoop(n)
  PROVE  GameInv'
<1> TypeOK /\ GameInv
  BY DEF ShimInv
<1>0. n \in Nat /\ n # 0 /\ starts \in Nat
  BY StartFacts, NumberFacts
<1>1. wait[n].at \in {"wait", "list", "kill", "clear"} =>
        n = starts /\ pid = n /\ srv.at \notin {"spawn", "record", "launch"}
  <2> SUFFICES ASSUME wait[n].at \in {"wait", "list", "kill", "clear"}
               PROVE  n = starts /\ pid = n /\ srv.at \notin {"spawn", "record", "launch"}
    OBVIOUS
  <2>1. ~ (n > starts) /\ ~ (n < starts)
    BY DEF GameInv, FutureInv, OverInv, Over, Gone, Past
  <2>2. n = starts
    BY <1>0, <2>1
  <2>3. pid # 0
    BY <1>0, <2>2 DEF GameInv, OverInv, Over, Past, HandlerInv
  <2> QED
    BY <2>2, <2>3 DEF GameInv, HandlerInv
<1>2. CASE WaitExit(n)
  <2>1. /\ n = starts /\ pid = n /\ wait[n].at = "wait" /\ childExit # <<>>
        /\ srv.at \notin {"spawn", "record", "launch"}
    BY <1>1, <1>2 DEF WaitExit
  <2>2. childExit = << <<n, "main">> >> /\ proc[<<n, "main">>] = "reaped"
    BY <2>1 DEF GameInv, ExitInv
  <2>3. childExit' = <<>> /\ WaitGoes(n, "list") /\ UNCHANGED <<proc, starts, pid, srv, listed>>
    BY <1>2, <2>2 DEF WaitExit
  <2>4. wait'[n].at = "list" /\ \A m \in Starts : m # n => wait'[m] = wait[m]
    BY <2>3, WaitFacts DEF WaitSteps
  <2>5. FutureInv' /\ OverInv'
    BY <1>0, <2>1, <2>3, <2>4 DEF GameInv, FutureInv, OverInv, Over, Gone
  <2>6. HandlerInv' /\ KillInv' /\ ExitInv'
    BY <1>0, <2>1, <2>2, <2>3, <2>4 DEF GameInv, HandlerInv, KillInv, ExitInv
  <2> QED
    BY <2>5, <2>6 DEF GameInv
<1>3. CASE List(n)
  <2>1. /\ n = starts /\ pid = n /\ wait[n].at = "list"
        /\ srv.at \notin {"spawn", "record", "launch"}
    BY <1>1, <1>3 DEF List
  <2>2. /\ WaitGoes(n, "kill") /\ UNCHANGED <<proc, starts, pid, srv, childExit>>
        /\ \A k \in Kinds : proc[<<n, k>>] = "alive" => <<n, k>> \in listed'
    BY <1>3, StartFacts DEF List, Alive
  <2>3. wait'[n].at = "kill" /\ \A m \in Starts : m # n => wait'[m] = wait[m]
    BY <2>2, WaitFacts DEF WaitSteps
  <2>4. FutureInv' /\ OverInv'
    BY <1>0, <2>1, <2>2, <2>3 DEF GameInv, FutureInv, OverInv, Over, Gone
  <2>5. HandlerInv' /\ KillInv' /\ ExitInv'
    BY <1>0, <2>1, <2>2, <2>3 DEF GameInv, HandlerInv, KillInv, ExitInv
  <2> QED
    BY <2>4, <2>5 DEF GameInv
<1>4. CASE KillStragglers(n)
  <2>1. /\ n = starts /\ pid = n /\ wait[n].at = "kill"
        /\ srv.at \notin {"spawn", "record", "launch"}
    BY <1>1, <1>4 DEF KillStragglers
  <2>2. /\ WaitGoes(n, "clear") /\ UNCHANGED <<starts, pid, srv, childExit>>
        /\ proc' = Killed(listed)
    BY <1>4 DEF KillStragglers
  <2>3. wait'[n].at = "clear" /\ \A m \in Starts : m # n => wait'[m] = wait[m]
    BY <2>2, WaitFacts DEF WaitSteps
  <2>4. /\ \A p \in Procs : proc[p] # "alive" => proc'[p] = proc[p]
        /\ \A p \in Procs : p \in listed => proc'[p] # "alive"
    BY <2>2, KilledFacts
  <2>5. Gone(n)'
    BY <1>0, <2>1, <2>4, StartFacts DEF GameInv, KillInv, Gone
  <2>6. FutureInv'
    BY <1>0, <2>1, <2>2, <2>3, <2>4, StartFacts DEF GameInv, FutureInv
  <2>7. OverInv'
    BY <1>0, <2>1, <2>2, <2>3, <2>4, StartFacts DEF GameInv, OverInv, Over, Gone
  <2>8. HandlerInv' /\ KillInv'
    BY <1>0, <2>1, <2>2, <2>3, <2>4, <2>5, StartFacts DEF GameInv, HandlerInv, KillInv
  <2>9. ExitInv'
    BY <1>0, <2>1, <2>2 DEF GameInv, ExitInv
  <2> QED
    BY <2>6, <2>7, <2>8, <2>9 DEF GameInv
<1>5. CASE Clear(n)
  <2>1. /\ n = starts /\ pid = n /\ wait[n].at = "clear"
        /\ srv.at \notin {"spawn", "record", "launch"}
    BY <1>1, <1>5 DEF Clear
  <2>2. WaitGoes(n, "sample") /\ pid' = 0 /\ UNCHANGED <<proc, starts, srv, childExit, listed>>
    BY <1>5 DEF Clear
  <2>3. wait'[n].at = "sample" /\ \A m \in Starts : m # n => wait'[m] = wait[m]
    BY <2>2, WaitFacts DEF WaitSteps
  <2>4. Gone(n)
    BY <1>0, <2>1 DEF GameInv, KillInv
  <2>5. childExit = <<>>
    BY <2>1 DEF GameInv, ExitInv
  <2>6. FutureInv' /\ OverInv'
    BY <1>0, <2>1, <2>2, <2>3, <2>4 DEF GameInv, FutureInv, OverInv, Over, Gone, Past
  <2>7. HandlerInv' /\ KillInv' /\ ExitInv'
    BY <1>0, <2>1, <2>2, <2>3, <2>5 DEF GameInv, HandlerInv, KillInv, ExitInv
  <2> QED
    BY <2>6, <2>7 DEF GameInv
<1>6. ASSUME wait[n].at \in Past, UNCHANGED <<proc, starts, pid, srv, childExit, listed>>,
             NEW step \in Past, wait'[n].at = step,
             \A m \in Starts : m # n => wait'[m] = wait[m]
      PROVE GameInv'
  <2>1. ~ (n > starts) /\ (n = starts => pid = 0 /\ srv.at \notin {"record", "launch"})
    BY <1>0, <1>6 DEF GameInv, FutureInv, HandlerInv, Past
  <2>2. FutureInv'
    BY <1>0, <1>6, <2>1 DEF GameInv, FutureInv
  <2>3. OverInv'
    <3>1. ASSUME NEW m \in Starts, Over(m) PROVE Over(m)'
      <4>1. wait'[m].at \in Past
        BY <1>6, <3>1 DEF Over
      <4> QED
        BY <1>6, <3>1, <4>1 DEF Over, Gone
    <3>2. starts # 0 => starts \in Starts
      BY NumberFacts
    <3> QED
      BY <1>6, <3>1, <3>2 DEF GameInv, OverInv
  <2>4. HandlerInv'
    <3>1. starts # 0 /\ n # starts => starts \in Starts /\ wait'[starts] = wait[starts]
      BY <1>6, NumberFacts
    <3> QED
      BY <1>0, <1>6, <2>1, <3>1 DEF GameInv, HandlerInv
  <2>5. KillInv'
    <3>1. starts # 0 /\ n # starts => starts \in Starts /\ wait'[starts] = wait[starts]
      BY <1>6, NumberFacts
    <3> QED
      BY <1>0, <1>6, <2>1, <3>1 DEF GameInv, KillInv, Gone, Past
  <2>6. ExitInv'
    <3>1. pid # 0 => pid \in Starts /\ (pid # n => wait'[pid] = wait[pid])
      BY <1>6, NumberFacts
    <3> QED
      BY <1>0, <1>6, <2>1, <3>1 DEF GameInv, ExitInv, HandlerInv
  <2> QED
    BY <2>2, <2>3, <2>4, <2>5, <2>6 DEF GameInv
<1>7. CASE Sample(n)
  <2>1. /\ wait[n].at \in Past /\ wait'[n].at = "ready"
        /\ \A m \in Starts : m # n => wait'[m] = wait[m]
        /\ UNCHANGED <<proc, starts, pid, srv, childExit, listed>>
    BY <1>7 DEF Sample, TypeOK, Past
  <2> QED
    BY <1>6, <2>1 DEF Past
<1>8. CASE WriteReady(n) \/ TellExit(n)
  <2>1. PICK step \in Past : WaitGoes(n, step)
    BY <1>8 DEF WriteReady, TellExit, Past
  <2>2. wait'[n].at = step /\ \A m \in Starts : m # n => wait'[m] = wait[m]
    BY <2>1, WaitFacts DEF WaitSteps, Past
  <2>3. wait[n].at \in Past /\ UNCHANGED <<proc, starts, pid, srv, childExit, listed>>
    BY <1>8 DEF WriteReady, TellExit, Past
  <2> QED
    BY <1>6, <2>2, <2>3
<1> QED
  BY <1>2, <1>3, <1>4, <1>5, <1>7, <1>8 DEF WaitLoop

\* The invariant holds in every state.
LEMMA ShimInvariant == Spec => []ShimInv
<1>1. ShimInv /\ [Next]_vars => ShimInv'
  <2> SUFFICES ASSUME ShimInv, [Next]_vars PROVE GameInv'
    BY ShimTypes DEF ShimInv
  <2> TypeOK /\ GameInv
    BY DEF ShimInv
  <2>1. CASE Agent \/ Handle
    BY <2>1, GameHandler
  <2>2. CASE (\E p \in Procs : Exits(p) \/ Reap(p)) \/ (\E n \in Starts : Escapes(n))
    BY <2>2, GameProcesses
  <2>3. CASE \E n \in Starts : WaitLoop(n)
    BY <2>3, GameWaitLoop
  <2>4. CASE Terminate \/ Unready \/ Stop \/ SeeExit \/ GiveUp
    <3>1. UNCHANGED <<proc, starts, pid, srv, childExit, wait, listed>>
      BY <2>4 DEF Terminate, Unready, Stop, SeeExit, GiveUp
    <3> QED
      BY <3>1, GameFrame
  <2>5. CASE StopKill
    BY <2>5, GameDies, KilledFacts DEF StopKill
  <2>6. CASE UNCHANGED vars
    BY <2>6, GameFrame DEF vars
  <2> QED
    BY <2>1, <2>2, <2>3, <2>4, <2>5, <2>6 DEF Next, Shutdown
<1> QED
  BY ShimInit, <1>1, PTL DEF Spec

\* Two games never run at once, whatever the number of starts: killStragglers runs before
\* the pid is cleared, and start refuses while it is recorded.
THEOREM NeverTwoGames == Spec => []OneGame
<1>1. ShimInv => OneGame
  <2> SUFFICES ASSUME ShimInv, NEW p \in Alive, NEW q \in Alive PROVE p[1] = q[1]
    BY DEF OneGame
  <2>1. ASSUME NEW r \in Alive PROVE r[1] = starts
    <3>1. r \in Procs /\ proc[r] = "alive" /\ r[1] \in Starts /\ r[2] \in Kinds /\ r = <<r[1], r[2]>>
      BY StartFacts DEF Alive
    <3>2. ~ (r[1] > starts)
      BY <3>1 DEF ShimInv, GameInv, FutureInv
    <3>3. ~ (r[1] < starts)
      BY <3>1 DEF ShimInv, GameInv, OverInv, Over, Gone
    <3> QED
      BY <3>1, <3>2, <3>3, StartFacts, NumberFacts DEF ShimInv
  <2> QED
    BY <2>1
<1> QED
  BY ShimInvariant, <1>1, PTL

\* The reaper forwards the supervised process's exit and nothing else, once, and waitLoop
\* has read it before the pid is cleared.
THEOREM ExitsAreOwn == Spec => []ChildExitOwn
<1>1. ShimInv => ChildExitOwn
  BY DEF ShimInv, GameInv, ExitInv, ChildExitOwn
<1> QED
  BY ShimInvariant, <1>1, PTL

\* The types hold, and the supervised pid is one that was started.
THEOREM ShimTypesHold == Spec => []TypeOK
<1>1. ShimInv => TypeOK
  BY DEF ShimInv
<1> QED
  BY ShimInvariant, <1>1, PTL
=============================================================================

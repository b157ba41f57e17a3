-------------------------------- MODULE Shim --------------------------------
(***************************************************************************)
(* The shim's process supervisor, PID 1 of the game container: it starts   *)
(* the game on request, reaps every child, reports the exit and, when the  *)
(* container is terminated, stops the game by itself.  Its goroutines (the *)
(* connection's handler, the reaper, one waitLoop per start, Run and its   *)
(* shutdown) share mu and spawnMu and interleave wherever they let go of   *)
(* them.  Pids are the numbers of the starts: the kernel's reuse of a pid  *)
(* is left out.                                                            *)
(***************************************************************************)
EXTENDS Integers, Sequences, FiniteSets

CONSTANTS
  MaxStarts,  \* bound on the starts
  ExitCap     \* capacity of the childExit channel

ASSUME ShimAssumption ==
  /\ MaxStarts \in Nat
  /\ ExitCap \in Nat \ {0}

Starts == 1..MaxStarts

\* The direct child of a start, and a process that left its process group with setsid.
Kinds == {"main", "escaped"}
Procs == Starts \X Kinds

VARIABLES
  proc,       \* state of each process: none, alive, zombie, reaped
  starts,     \* starts so far
  pid,        \* Supervisor.pid, 0 when no process is supervised
  stopping,   \* Supervisor.stopping
  state,      \* the agent reports the process as running
  readyFile,  \* the readiness file is present
  srv,        \* the handler of the connection: at what, with which sample
  childExit,  \* the childExit channel
  wait,       \* waitLoop of each start: at what, with which sample
  listed,     \* processes killStragglers has read from /proc
  told,       \* starts whose exit was broadcast
  exited,     \* starts whose exited channel is closed
  shut        \* shutdown: at what, with which pid

vars == <<proc, starts, pid, stopping, state, readyFile, srv, childExit, wait, listed,
          told, exited, shut>>

Alive == {p \in Procs : proc[p] = "alive"}

\* proc after the processes of a set got SIGKILL.
Killed(set) == [p \in Procs |-> IF p \in set /\ proc[p] = "alive" THEN "zombie" ELSE proc[p]]

\* waitLoop of a start goes on to its next step.
WaitGoes(n, step) == wait' = [wait EXCEPT ![n].at = step]

\* What updateReady samples.
Ready == state /\ pid # 0 /\ ~stopping

\* spawnMu is held between the spawn of the child and the record of its pid.
SpawnLocked == srv.at = "record"

Init ==
  /\ proc = [p \in Procs |-> "none"]
  /\ starts = 0
  /\ pid = 0
  /\ stopping = FALSE
  /\ state = FALSE
  /\ readyFile = FALSE
  /\ srv = [at |-> "idle", ready |-> FALSE]
  /\ childExit = <<>>
  /\ wait = [n \in Starts |-> [at |-> "none", ready |-> FALSE]]
  /\ listed = {}
  /\ told = {}
  /\ exited = {}
  /\ shut = [at |-> "none", pid |-> 0]

-----------------------------------------------------------------------------
(* The handler: requests of the agent, one at a time.                      *)

\* start refuses while a process is supervised and while the shim shuts down.
StartRequest ==
  /\ srv.at = "idle"
  /\ pid = 0
  /\ ~stopping
  /\ starts < MaxStarts
  /\ srv' = [srv EXCEPT !.at = "spawn"]
  /\ UNCHANGED <<proc, starts, pid, stopping, state, readyFile, childExit, wait, listed,
                 told, exited, shut>>

\* Under spawnMu: the child runs.
Spawn ==
  /\ srv.at = "spawn"
  /\ starts' = starts + 1
  /\ proc' = [proc EXCEPT ![<<starts + 1, "main">>] = "alive"]
  /\ srv' = [srv EXCEPT !.at = "record"]
  /\ UNCHANGED <<pid, stopping, state, readyFile, childExit, wait, listed, told, exited, shut>>

\* The argv or the spawn fails: the request is answered with the error.
SpawnFails ==
  /\ srv.at = "spawn"
  /\ srv' = [srv EXCEPT !.at = "idle"]
  /\ UNCHANGED <<proc, starts, pid, stopping, state, readyFile, childExit, wait, listed,
                 told, exited, shut>>

\* Still under spawnMu: the pid and a new exited channel are recorded.
Record ==
  /\ srv.at = "record"
  /\ pid' = starts
  /\ srv' = [srv EXCEPT !.at = "launch"]
  /\ UNCHANGED <<proc, starts, stopping, state, readyFile, childExit, wait, listed, told,
                 exited, shut>>

\* The start is broadcast and waitLoop launched.
Launch ==
  /\ srv.at = "launch"
  /\ WaitGoes(starts, "wait")
  /\ srv' = [srv EXCEPT !.at = "idle"]
  /\ UNCHANGED <<proc, starts, pid, stopping, state, readyFile, childExit, listed, told,
                 exited, shut>>

\* The agent's process state is recorded; updateReady follows.
StateRequest(running) ==
  /\ srv.at = "idle"
  /\ state' = running
  /\ srv' = [srv EXCEPT !.at = "sample"]
  /\ UNCHANGED <<proc, starts, pid, stopping, readyFile, childExit, wait, listed, told,
                 exited, shut>>

\* updateReady samples under mu ...
StateSample ==
  /\ srv.at = "sample"
  /\ srv' = [at |-> "ready", ready |-> Ready]
  /\ UNCHANGED <<proc, starts, pid, stopping, state, readyFile, childExit, wait, listed, told,
                 exited, shut>>

\* ... and writes the readiness file outside it.
StateReady ==
  /\ srv.at = "ready"
  /\ readyFile' = srv.ready
  /\ srv' = [at |-> "idle", ready |-> FALSE]
  /\ UNCHANGED <<proc, starts, pid, stopping, state, childExit, wait, listed, told, exited,
                 shut>>

\* A kill, or a signal that ends the process group.
KillRequest ==
  /\ srv.at = "idle"
  /\ pid # 0
  /\ proc' = Killed({<<pid, "main">>})
  /\ UNCHANGED <<starts, pid, stopping, state, readyFile, srv, childExit, wait, listed, told,
                 exited, shut>>

-----------------------------------------------------------------------------
(* The processes of the game.                                              *)

Exits(p) ==
  /\ proc[p] = "alive"
  /\ proc' = [proc EXCEPT ![p] = "zombie"]
  /\ UNCHANGED <<starts, pid, stopping, state, readyFile, srv, childExit, wait, listed, told,
                 exited, shut>>

\* Something in the process group calls setsid, before the group is killed.
Escapes(n) ==
  /\ proc[<<n, "main">>] # "none"
  /\ proc[<<n, "escaped">>] = "none"
  /\ wait[n].at \in {"none", "wait", "list"}
  /\ proc' = [proc EXCEPT ![<<n, "escaped">>] = "alive"]
  /\ UNCHANGED <<starts, pid, stopping, state, readyFile, srv, childExit, wait, listed, told,
                 exited, shut>>

-----------------------------------------------------------------------------
(* The reaper.                                                             *)

\* Mutant: the reaper does not wait for the pid to be recorded.
ReapUnlocked(p) ==
  /\ proc[p] = "zombie"
  /\ proc' = [proc EXCEPT ![p] = "reaped"]
  /\ IF p = <<pid, "main">>
       THEN Len(childExit) < ExitCap /\ childExit' = Append(childExit, p)
       ELSE UNCHANGED childExit
  /\ UNCHANGED <<starts, pid, stopping, state, readyFile, srv, wait, listed, told, exited, shut>>

\* reapAll, one child of its loop: the supervised child's exit is forwarded, an orphan
\* is dropped.
Reap(p) ==
  /\ ~SpawnLocked
  /\ proc[p] = "zombie"
  /\ proc' = [proc EXCEPT ![p] = "reaped"]
  /\ IF p = <<pid, "main">>
       THEN Len(childExit) < ExitCap /\ childExit' = Append(childExit, p)
       ELSE UNCHANGED childExit
  /\ UNCHANGED <<starts, pid, stopping, state, readyFile, srv, wait, listed, told, exited, shut>>

-----------------------------------------------------------------------------
(* waitLoop of one start.                                                  *)

\* It reads the channel until the exit is that of its process.
WaitExit(n) ==
  /\ wait[n].at = "wait"
  /\ childExit # <<>>
  /\ childExit' = Tail(childExit)
  /\ IF Head(childExit) = <<n, "main">> THEN WaitGoes(n, "list") ELSE UNCHANGED wait
  /\ UNCHANGED <<proc, starts, pid, stopping, state, readyFile, srv, listed, told, exited, shut>>

\* Mutant: only the process group is killed.
ListGroup(n) ==
  /\ wait[n].at = "list"
  /\ listed' = {}
  /\ WaitGoes(n, "kill")
  /\ UNCHANGED <<proc, starts, pid, stopping, state, readyFile, srv, childExit, told, exited,
                 shut>>

\* The rest of the process group is killed (nothing of it is left to escape), and
\* killStragglers lists every other process.
List(n) ==
  /\ wait[n].at = "list"
  /\ listed' = Alive
  /\ WaitGoes(n, "kill")
  /\ UNCHANGED <<proc, starts, pid, stopping, state, readyFile, srv, childExit, told, exited,
                 shut>>

\* What was listed is killed, and the PTY closed.  A listed process is taken not to fork
\* after the listing.
KillStragglers(n) ==
  /\ wait[n].at = "kill"
  /\ proc' = Killed(listed)
  /\ listed' = {}
  /\ WaitGoes(n, "clear")
  /\ UNCHANGED <<starts, pid, stopping, state, readyFile, srv, childExit, told, exited, shut>>

\* Under mu: no process is supervised any more; updateReady samples right after.
Clear(n) ==
  /\ wait[n].at = "clear"
  /\ pid' = 0
  /\ WaitGoes(n, "sample")
  /\ UNCHANGED <<proc, starts, stopping, state, readyFile, srv, childExit, listed, told,
                 exited, shut>>

Sample(n) ==
  /\ wait[n].at = "sample"
  /\ wait' = [wait EXCEPT ![n] = [at |-> "ready", ready |-> Ready]]
  /\ UNCHANGED <<proc, starts, pid, stopping, state, readyFile, srv, childExit, listed, told,
                 exited, shut>>

WriteReady(n) ==
  /\ wait[n].at = "ready"
  /\ readyFile' = wait[n].ready
  /\ WaitGoes(n, "tell")
  /\ UNCHANGED <<proc, starts, pid, stopping, state, srv, childExit, listed, told, exited,
                 shut>>

\* The exit is broadcast, then the exited channel closed.
TellExit(n) ==
  /\ \/ /\ wait[n].at = "tell"
        /\ told' = told \cup {n}
        /\ WaitGoes(n, "close")
        /\ UNCHANGED exited
     \/ /\ wait[n].at = "close"
        /\ exited' = exited \cup {n}
        /\ WaitGoes(n, "done")
        /\ UNCHANGED told
  /\ UNCHANGED <<proc, starts, pid, stopping, state, readyFile, srv, childExit, listed, shut>>

-----------------------------------------------------------------------------
(* Run's shutdown, on SIGTERM.                                             *)

\* Under mu: stopping is set and the running process looked up.
Terminate ==
  /\ shut.at = "none"
  /\ stopping' = TRUE
  /\ shut' = [at |-> "ready", pid |-> pid]
  /\ UNCHANGED <<proc, starts, pid, state, readyFile, srv, childExit, wait, listed, told,
                 exited>>

\* The readiness file goes, terminating is broadcast, and without a process Run returns.
Unready ==
  /\ shut.at = "ready"
  /\ readyFile' = FALSE
  /\ shut' = [shut EXCEPT !.at = IF shut.pid = 0 THEN "returned" ELSE "stop"]
  /\ UNCHANGED <<proc, starts, pid, stopping, state, srv, childExit, wait, listed, told,
                 exited>>

\* Mutant: after the stop configuration shutdown waits for the exit without a limit.
StopWaits ==
  /\ shut.at = "stop"
  /\ shut' = [shut EXCEPT !.at = "term"]
  /\ UNCHANGED <<proc, starts, pid, stopping, state, readyFile, srv, childExit, wait, listed,
                 told, exited>>

\* The stop configuration is applied, later SIGTERM is sent: the process may end (Exits)
\* or not until the time is up.
Stop ==
  /\ shut.at \in {"stop", "term"}
  /\ shut' = [shut EXCEPT !.at = IF shut.at = "stop" THEN "term" ELSE "kill"]
  /\ UNCHANGED <<proc, starts, pid, stopping, state, readyFile, srv, childExit, wait, listed,
                 told, exited>>

\* Mutant: the time to SIGKILL is up but nothing is sent.
GiveUpOnly ==
  /\ shut.at = "kill"
  /\ shut' = [shut EXCEPT !.at = "killed"]
  /\ UNCHANGED <<proc, starts, pid, stopping, state, readyFile, srv, childExit, wait, listed,
                 told, exited>>

\* SIGKILL to the process group.
StopKill ==
  /\ shut.at = "kill"
  /\ proc' = Killed({<<shut.pid, "main">>})
  /\ shut' = [shut EXCEPT !.at = "killed"]
  /\ UNCHANGED <<starts, pid, stopping, state, readyFile, srv, childExit, wait, listed, told,
                 exited>>

\* The exit is seen in any of the three waits.
SeeExit ==
  /\ shut.at \in {"term", "kill", "killed"}
  /\ shut.pid \in exited
  /\ shut' = [shut EXCEPT !.at = "returned"]
  /\ UNCHANGED <<proc, starts, pid, stopping, state, readyFile, srv, childExit, wait, listed,
                 told, exited>>

\* Five seconds after SIGKILL.
GiveUp ==
  /\ shut.at = "killed"
  /\ shut' = [shut EXCEPT !.at = "gaveup"]
  /\ UNCHANGED <<proc, starts, pid, stopping, state, readyFile, srv, childExit, wait, listed,
                 told, exited>>

-----------------------------------------------------------------------------
Handle == Spawn \/ SpawnFails \/ Record \/ Launch \/ StateSample \/ StateReady

Agent == StartRequest \/ (\E running \in BOOLEAN : StateRequest(running)) \/ KillRequest

WaitLoop(n) ==
  \/ WaitExit(n) \/ List(n) \/ KillStragglers(n) \/ Clear(n) \/ Sample(n) \/ WriteReady(n)
  \/ TellExit(n)

Shutdown == Unready \/ Stop \/ StopKill \/ SeeExit \/ GiveUp

Next ==
  \/ Agent \/ Handle
  \/ \E p \in Procs : Exits(p) \/ Reap(p)
  \/ \E n \in Starts : Escapes(n) \/ WaitLoop(n)
  \/ Terminate \/ Shutdown

Spec == Init /\ [][Next]_vars

\* The shim's goroutines run and its timers fire.  The agent need not ask for anything,
\* the game need not exit and the container need not be terminated.
Fairness ==
  /\ WF_vars(Handle)
  /\ \A p \in Procs : WF_vars(Reap(p))
  /\ \A n \in Starts : WF_vars(WaitLoop(n))
  /\ WF_vars(Shutdown)

FairSpec == Spec /\ Fairness

-----------------------------------------------------------------------------
(* Properties.                                                             *)

\* Every variable has its type, and the supervised pid is one that was started.
TypeOK ==
  /\ proc \in [Procs -> {"none", "alive", "zombie", "reaped"}]
  /\ starts \in 0..MaxStarts
  /\ pid \in 0..starts
  /\ stopping \in BOOLEAN
  /\ state \in BOOLEAN
  /\ readyFile \in BOOLEAN
  /\ srv \in [at : {"idle", "spawn", "record", "launch", "sample", "ready"}, ready : BOOLEAN]
  /\ childExit \in Seq(Procs)
  /\ wait \in [Starts -> [at : {"none", "wait", "list", "kill", "clear", "sample", "ready",
                                "tell", "close", "done"}, ready : BOOLEAN]]
  /\ listed \subseteq Procs
  /\ told \subseteq Starts
  /\ exited \subseteq Starts
  /\ shut \in [at : {"none", "ready", "stop", "term", "kill", "killed", "returned",
                     "gaveup"}, pid : 0..MaxStarts]

\* No process of an earlier start is alive next to one of a later start ("the next start
\* stacks a second server on top"): the whole namespace is killed before the pid is
\* cleared, and start refuses until it is.
OneGame ==
  \A p, q \in Alive : p[1] = q[1]

\* The comment on reapAll: childExit never fills while no process runs, and never holds
\* an entry a later process could be mistaken for.
ChildExitOwn ==
  /\ Len(childExit) <= 1
  /\ \A i \in 1..Len(childExit) : childExit[i] = <<pid, "main">>

\* The process that ran when the container was terminated does not run any more when Run
\* returns, even if it ignored the stop configuration and SIGTERM; and when shutdown
\* returns because of its exit, the agent was told before its connection is closed.
RunningStopped ==
  shut.at \in {"returned", "gaveup"} /\ shut.pid # 0
    => /\ proc[<<shut.pid, "main">>] # "alive"
       /\ shut.at = "returned" => shut.pid \in told

\* A process that died is reported and cleared, even if it dies before its pid is
\* recorded or its waitLoop runs; only then can the game be started again.
ExitNoticed ==
  \A n \in Starts : proc[<<n, "main">>] = "zombie" ~> n \in told /\ pid # n

\* Once the container is terminated, Run returns.
ShutdownReturns == stopping ~> shut.at \in {"returned", "gaveup"}

\* Supervisor: "On termination a running process is stopped ... before Run returns".
NoProcessLeft ==
  shut.at = "returned" => \A n \in Starts : proc[<<n, "main">>] # "alive"
=============================================================================

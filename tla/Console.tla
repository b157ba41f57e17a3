------------------------------ MODULE Console ------------------------------
(***************************************************************************)
(* One console session of the gateway (wsproxy): the browser's websocket,  *)
(* the agent's, the goroutine that relays from the browser and the one     *)
(* that relays from the agent and carries the session to the next agent    *)
(* when the agent pod is replaced.  The gateway knows pods from a cache.   *)
(* A new agent refuses tokens issued before it booted, and a token's issue *)
(* time is in whole seconds: one issued in the second of the boot fails.   *)
(*                                                                         *)
(* Agent, pods, clock and browser are external.  A token is what the rest  *)
(* tells apart: does it pass the boot cutoff of the last agent.  Power     *)
(* requests, which go to the Syncer, and other frames are left out.        *)
(***************************************************************************)
EXTENDS Naturals

CONSTANTS
  None,
  MaxEnds,     \* bound: how often the agent ends
  MaxTokens    \* bound: tokens the browser sends unasked

ASSUME ConsoleAssumption == MaxEnds \in Nat /\ MaxTokens \in Nat \ {0}

VARIABLES
  pod,      \* the agent pod
  view,     \* what the gateway's cache says of it
  boot,     \* number of the last agent process
  alive,    \* it runs
  young,    \* it booted in the current second
  deleted,  \* the server is deleted
  browser,  \* the browser's side of its websocket is open
  inbox,    \* the frame it sent
  asked,    \* "token expiring" is on its way to it
  main,     \* where run is
  target,   \* pod uid the resolver gave
  agentPod, \* session.agentPod
  conn,     \* session.agent: the boot it leads to, 0 without
  open,     \* the boots with an open connection of this session
  authed,   \* the agent accepted a token on the current connection
  due,      \* the timer of askForToken has fired
  pump,     \* where pumpClientToAgent is
  hand,     \* the frame it handles
  done,     \* clientDone is closed
  moved,    \* history: the session has left its first agent
  late,     \* history: the first agent refused the token of a session
  raced,    \* history: askForToken took its timer although the browser's side had ended
  ends, tokens

podVars == <<pod, boot, alive, young>>
mainVars == <<main, target, agentPod, due>>
pumpVars == <<pump, hand, done>>
ghost == <<moved, late, raced>>
budget == <<ends, tokens>>
vars == <<podVars, view, deleted, browser, inbox, asked, mainVars, conn, open, authed, pumpVars,
          ghost, budget>>

Auth(good) == [good |-> good]

\* A token issued before a boot, or in its second, fails its cutoff.
Outdated(f) == IF f = None THEN None ELSE Auth(FALSE)

Init ==
  /\ pod = [uid |-> 1, ready |-> TRUE, going |-> FALSE] /\ view = pod
  /\ boot = 1 /\ alive = TRUE /\ young \in BOOLEAN /\ deleted = FALSE
  /\ browser = TRUE /\ asked = FALSE
  /\ inbox = Auth(~young)
  /\ main = "open" /\ target = 0 /\ agentPod = 0 /\ due = FALSE
  /\ conn = 0 /\ open = {} /\ authed = FALSE
  /\ pump = "none" /\ hand = None /\ done = FALSE
  /\ moved = FALSE /\ late = FALSE /\ raced = FALSE
  /\ ends = MaxEnds /\ tokens = MaxTokens - 1

PodAgentReady(p) == p # None /\ p.ready /\ ~p.going

----------------------------------------------------------------------------
(* run, the agent's side.                                                  *)

\* Mutant: run returns without its deferred detach.
EndAttached ==
  /\ main' = "ended" /\ browser' = FALSE
  /\ target' = 0 /\ agentPod' = 0 /\ due' = FALSE
  /\ UNCHANGED <<conn, open, authed>>

\* The deferred detach and the close of the browser's websocket.
End ==
  /\ main' = "ended" /\ browser' = FALSE
  /\ conn' = 0 /\ open' = open \ {conn} /\ authed' = FALSE
  /\ target' = 0 /\ agentPod' = 0 /\ due' = FALSE

rest == <<podVars, view, deleted, inbox, pumpVars, raced, budget>>

detach == conn' = 0 /\ open' = open \ {conn} /\ authed' = FALSE

attach ==
  /\ agentPod' = target /\ conn' = boot /\ open' = open \cup {boot} /\ authed' = FALSE

\* dial reaches the pod the resolver gave, if its agent runs.
Dials == alive /\ pod # None /\ pod.uid = target

\* Resolver.Resolve: the agent pod the cache shows, if it is ready.
Resolve == PodAgentReady(view) /\ target' = view.uid

\* ServeHTTP: the server exists; Agents.Wait polls for a while.
Wait ==
  /\ main = "open"
  /\ \/ /\ Resolve /\ main' = "dial"
        /\ UNCHANGED <<agentPod, due, conn, open, authed, browser>>
     \/ ~PodAgentReady(view) /\ End
  /\ UNCHANGED <<rest, asked, moved, late>>

\* ServeHTTP: the server is suspended.
Refuse ==
  /\ main = "open"
  /\ End
  /\ UNCHANGED <<rest, asked, moved, late>>

Dial ==
  /\ main = "dial"
  /\ IF Dials
       THEN /\ main' = "pump" /\ attach /\ pump' = "reading"
            /\ UNCHANGED <<target, due, browser>>
       ELSE End /\ UNCHANGED pump
  /\ UNCHANGED <<podVars, view, deleted, inbox, asked, hand, done, ghost, budget>>

Lost == conn = 0 \/ conn \notin open \/ ~alive \/ conn # boot

\* pumpAgentToClient: a frame of the agent, which says nothing before auth.
Output ==
  /\ main = "pump" /\ ~Lost /\ authed /\ ~browser
  /\ End
  /\ UNCHANGED <<rest, asked, moved, late>>

\* The agent's side ended.
ReadFails ==
  /\ main = "pump" /\ Lost
  /\ IF done THEN End ELSE main' = "check" /\ UNCHANGED <<target, agentPod, due, conn, open, authed, browser>>
  /\ UNCHANGED <<rest, asked, moved, late>>

Replaced == view = None \/ view.going \/ view.uid # agentPod \/ ~view.ready

\* agentReplaced: a look at the cache, or the end of the grace period.
Check ==
  /\ main = "check"
  /\ IF ~deleted /\ Replaced
       THEN main' = "held" /\ detach /\ UNCHANGED <<target, agentPod, due, browser>>
       ELSE End
  /\ UNCHANGED <<rest, asked, moved, late>>

\* reattach: a poll that finds an agent, the browser left, or the wait ran out.
Held ==
  /\ main = "held"
  /\ \/ /\ Resolve /\ main' = "redial"
        /\ UNCHANGED <<agentPod, due, conn, open, authed, browser>>
     \/ (done \/ ~PodAgentReady(view)) /\ End
  /\ UNCHANGED <<rest, asked, moved, late>>

\* A dial takes up to 10 s.
Redial ==
  /\ main = "redial"
  /\ IF Dials
       THEN /\ main' = "ask" /\ attach /\ due' = FALSE /\ moved' = TRUE /\ late' = FALSE
            /\ UNCHANGED <<target, browser>>
       ELSE main' = "held" /\ UNCHANGED <<target, agentPod, due, conn, open, authed, browser, moved, late>>
  /\ UNCHANGED <<rest, asked>>

\* Mutant: the browser is asked at once.
AskAtOnce ==
  /\ main = "ask"
  /\ \/ /\ main' = "pump" /\ asked' = browser /\ raced' = (raced \/ pump = "ended")
        /\ UNCHANGED <<target, agentPod, due, conn, open, authed, browser>>
     \/ done /\ End /\ UNCHANGED <<asked, raced>>
  /\ UNCHANGED <<podVars, view, deleted, inbox, pumpVars, moved, late, budget>>

\* askForToken: the start of the next second, or the browser left.  With both
\* ready the select takes either.
Ask ==
  /\ main = "ask"
  /\ \/ /\ due
        /\ main' = "pump" /\ asked' = browser /\ raced' = (raced \/ pump = "ended")
        /\ UNCHANGED <<target, agentPod, due, conn, open, authed, browser>>
     \/ done /\ End /\ UNCHANGED <<asked, raced>>
  /\ UNCHANGED <<podVars, view, deleted, inbox, pumpVars, moved, late, budget>>

Main == Wait \/ Refuse \/ Dial \/ Output \/ ReadFails \/ Check \/ Held \/ Redial \/ Ask

----------------------------------------------------------------------------
(* pumpClientToAgent.                                                      *)

\* handleAuth, verifyAuth: a token of this server.
TakeAuth ==
  /\ pump = "reading" /\ inbox # None /\ main # "ended"
  /\ pump' = "write" /\ hand' = inbox /\ inbox' = None
  /\ UNCHANGED <<podVars, view, deleted, browser, asked, mainVars, conn, open, authed, done, ghost, budget>>

\* writeAgentRaw: dropped without an agent.
writeAgentRaw ==
  /\ authed' = (authed \/ (~Lost /\ hand.good))
  /\ late' = (late \/ (~Lost /\ ~hand.good /\ ~moved))

WriteAuth ==
  /\ pump = "write"
  /\ pump' = "reading" /\ hand' = None
  /\ writeAgentRaw
  /\ UNCHANGED <<podVars, view, deleted, browser, inbox, asked, mainVars, conn, open, done, moved, raced, budget>>

\* The browser's websocket is closed, from either side.
Leave ==
  /\ pump = "reading" /\ ~browser
  /\ pump' = "detach" /\ done' = TRUE
  /\ UNCHANGED <<podVars, view, deleted, browser, inbox, asked, mainVars, conn, open, authed, hand, ghost, budget>>

\* Mutant: the goroutine ends without closing the agent's side.
LeaveAgent ==
  /\ pump = "detach"
  /\ pump' = "ended"
  /\ UNCHANGED <<podVars, view, deleted, browser, inbox, asked, mainVars, conn, open, authed, hand, done, ghost, budget>>

Detach ==
  /\ pump = "detach"
  /\ pump' = "ended" /\ detach
  /\ UNCHANGED <<podVars, view, deleted, browser, inbox, asked, mainVars, hand, done, ghost, budget>>

Pump == TakeAuth \/ WriteAuth \/ Leave \/ Detach

----------------------------------------------------------------------------
(* Browser, clock, pods.                                                   *)

gateway == <<mainVars, conn, open, authed, pumpVars, ghost>>

\* The Panel's page answers "token expiring" with a fresh token.
Answer ==
  /\ browser /\ asked /\ inbox = None
  /\ inbox' = Auth(~young)
  /\ asked' = FALSE
  /\ UNCHANGED <<podVars, view, deleted, browser, gateway, budget>>

SendToken ==
  /\ browser /\ inbox = None /\ tokens > 0 /\ tokens' = tokens - 1
  /\ inbox' = Auth(~young)
  /\ UNCHANGED <<podVars, view, deleted, browser, asked, gateway, ends>>

BrowserLeaves ==
  /\ browser /\ browser' = FALSE /\ inbox' = None /\ asked' = FALSE
  /\ UNCHANGED <<podVars, view, deleted, gateway, budget>>

NextSecond ==
  /\ young' = FALSE /\ due' = (main = "ask")
  /\ UNCHANGED <<pod, boot, alive, view, deleted, browser, inbox, asked, main, target, agentPod, conn, open,
                 authed, pumpVars, ghost, budget>>

\* The agent stops with its pod, or its container restarts.
AgentEnds ==
  /\ alive /\ main # "ended" /\ ends > 0 /\ ends' = ends - 1
  /\ alive' = FALSE
  /\ \/ pod' = [pod EXCEPT !.going = TRUE]
     \/ pod' = [pod EXCEPT !.ready = FALSE]
  /\ UNCHANGED <<boot, young, view, deleted, browser, inbox, asked, gateway, tokens>>

PodGone ==
  /\ pod # None /\ pod.going
  /\ pod' = None
  /\ UNCHANGED <<boot, alive, young, view, deleted, browser, inbox, asked, gateway, budget>>

PodCreated ==
  /\ pod = None /\ ~deleted
  /\ pod' = [uid |-> boot + 1, ready |-> FALSE, going |-> FALSE]
  /\ UNCHANGED <<boot, alive, young, view, deleted, browser, inbox, asked, gateway, budget>>

AgentBoots ==
  /\ pod # None /\ ~pod.going /\ ~alive
  /\ pod' = [pod EXCEPT !.ready = TRUE] /\ alive' = TRUE /\ boot' = boot + 1 /\ young' = TRUE
  /\ inbox' = Outdated(inbox) /\ hand' = Outdated(hand)
  /\ UNCHANGED <<view, deleted, browser, asked, mainVars, conn, open, authed, pump, done, ghost, budget>>

CacheCatchesUp ==
  /\ view # pod /\ view' = pod
  /\ UNCHANGED <<podVars, deleted, browser, inbox, asked, gateway, budget>>

DeleteServer ==
  /\ ~deleted /\ main # "ended" /\ pod # None /\ ends > 0 /\ ends' = 0
  /\ deleted' = TRUE /\ pod' = [pod EXCEPT !.going = TRUE] /\ alive' = FALSE
  /\ UNCHANGED <<boot, young, view, browser, inbox, asked, gateway, tokens>>

Cluster == PodGone \/ PodCreated \/ AgentBoots \/ CacheCatchesUp

Next ==
  \/ Main \/ Pump \/ Cluster \/ NextSecond
  \/ Answer \/ SendToken \/ BrowserLeaves \/ AgentEnds \/ DeleteServer

Spec == Init /\ [][Next]_vars

\* Goroutines run, the page answers, pods come up, the cache follows, time
\* passes.  The browser need not leave and the agent need not end.
FairSpec ==
  /\ Spec /\ WF_vars(Main) /\ WF_vars(Pump) /\ WF_vars(Answer) /\ WF_vars(NextSecond)
  /\ WF_vars(PodGone) /\ WF_vars(PodCreated) /\ WF_vars(AgentBoots) /\ WF_vars(CacheCatchesUp)

----------------------------------------------------------------------------
TypeOK ==
  /\ main \in {"open", "dial", "pump", "check", "held", "redial", "ask", "ended"}
  /\ pump \in {"none", "reading", "write", "detach", "ended"} /\ (pump = "write" <=> hand # None)
  /\ conn \in 0..boot /\ open \subseteq 1..boot /\ (authed => conn # 0)
  /\ \A f \in {inbox, hand} \ {None} : f \in {Auth(TRUE), Auth(FALSE)}

(***************************************************************************)
(* A session has at most the one agent connection it relays to, none while *)
(* the console is held and none once run has returned, whichever goroutine *)
(* closes or replaces it: the one that notices that the browser left       *)
(* detaches while the other may be about to attach the next agent (run,    *)
(* attach, detach and its callers).                                        *)
(***************************************************************************)
ConnectionsOwned ==
  /\ open \subseteq {conn} \ {0}
  /\ main \in {"held", "redial", "ended"} => open = {}

Released == main = "ended" /\ pump \in {"none", "ended"} /\ open = {}

(***************************************************************************)
(* Once the browser has left, both goroutines end and no connection to an  *)
(* agent stays open: no session is left behind that waits for an agent     *)
(* which has nothing to say, whatever run was doing at that moment (run,   *)
(* reattach, askForToken).  The named gap: the select of askForToken found *)
(* its timer and the browser's end both ready and took the timer.          *)
(***************************************************************************)
SessionReleased == ~browser ~> (Released \/ raced)

(***************************************************************************)
(* The same without the gap, as askForToken says of itself: it "reports    *)
(* whether the browser is still there" (wsproxy.go:322).  It does not hold. *)
(***************************************************************************)
AlwaysReleased == ~browser ~> Released

(***************************************************************************)
(* When the agents stop changing, a session has ended or is authenticated  *)
(* at the running agent: a token that was dropped or came too early for    *)
(* the agent's boot cutoff is asked for again (reattach, askForToken).  The *)
(* exceptions are a session opened with a token older than its first       *)
(* agent, which nothing asks the browser to replace, and one that stays    *)
(* behind through the gap above.                                           *)
(***************************************************************************)
SessionContinues == <>[](main = "ended" \/ late \/ raced \/ (main = "pump" /\ ~Lost /\ authed))
=============================================================================

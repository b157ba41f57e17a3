-------------------------- MODULE ProcessRegister --------------------------
(***************************************************************************)
(* What status.process promises to its readers, without replicas, polls or *)
(* conflicts.  The n-th state of the process is the number n; recorded is  *)
(* the one the GameServer shows, and claimed says that it was taken from a *)
(* post that no answer of the agent has confirmed yet.                     *)
(***************************************************************************)
EXTENDS Naturals

VARIABLES changes, recorded, claimed

vars == <<changes, recorded, claimed>>

Init == changes = 0 /\ recorded = 0 /\ claimed = FALSE

Change == changes' = changes + 1 /\ UNCHANGED <<recorded, claimed>>

\* A state the agent answered is recorded: never one older than is shown.
Confirm ==
  /\ recorded' \in recorded..changes
  /\ claimed' = FALSE
  /\ UNCHANGED changes

\* A posted state is recorded because the agent does not answer: any state
\* the process has had, but it is marked as owed a poll.
Claim ==
  /\ recorded' \in 1..changes
  /\ claimed' = TRUE
  /\ UNCHANGED changes

Next == Change \/ Confirm \/ Claim

Spec == Init /\ [][Next]_vars
=============================================================================

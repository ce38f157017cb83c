----------------------------- MODULE SessionLife -----------------------------
(***************************************************************************)
(* What the other commands may assume of one session, however it is run:   *)
(* its two records in sessions.jsonl against its container.  A container   *)
(* starts only between the two records, runs at most once, and is over     *)
(* when the second is written, unless somebody lost hold of it before.     *)
(*                                                                         *)
(* Enforcement implements this with run_shell and its monitor,             *)
(* SessionChain with the few steps it takes a launch for: what             *)
(* SessionChain leaves to Enforcement is no more than this.                *)
(***************************************************************************)
VARIABLES
  record,  \* how much of the session is in the log
  box,     \* its container
  lost,    \* nobody is left who would, or could, stop the container
  capped   \* the session has a duration cap

vars == << record, box, lost, capped >>

Init ==
  /\ record = "none" /\ box = "none" /\ lost = FALSE
  /\ capped \in BOOLEAN

\* session_start is appended.
Start ==
  /\ record = "none"
  /\ record' = "started"
  /\ UNCHANGED box

Run ==
  /\ box = "none" /\ (record = "started" \/ lost)
  /\ box' = "running"
  /\ UNCHANGED record

Exit ==
  /\ box = "running"
  /\ box' = "gone"
  /\ UNCHANGED record

\* session_end is appended.
End ==
  /\ record = "started" /\ (box # "running" \/ lost)
  /\ record' = "ended"
  /\ UNCHANGED box

Lose == lost' = TRUE /\ UNCHANGED << record, box >>

\* The loss may come with any other step.
Next ==
  /\ Start \/ Run \/ Exit \/ End \/ Lose
  /\ lost' \in {lost, TRUE}
  /\ UNCHANGED capped

Spec == Init /\ [][Next]_vars

\* A container somebody holds, of a session with a cap, does not run for ever:
\* what SessionChain assumes of sessions, and Enforcement's monitor sees to.
Fairness == WF_vars(Exit /\ capped /\ ~ lost /\ UNCHANGED << lost, capped >>)

FairSpec == Spec /\ Fairness

\* What Spec makes of a session whose second record is in the log, for whoever
\* goes by the log: its container does not run, unless somebody lost hold of it.
EndedIsOver == record = "ended" /\ box = "running" => lost

=============================================================================

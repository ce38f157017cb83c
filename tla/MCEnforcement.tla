--------------------------- MODULE MCEnforcement ---------------------------
(***************************************************************************)
(* Enforcement for TLC, in ticks of about fifteen seconds: no cap, a cap   *)
(* whose warning lead is shorter than a poll, and one whose lead is longer.*)
(***************************************************************************)
EXTENDS Enforcement

MCDurations == {NoLimit, 5, 15}
MCIdles     == {NoLimit, 4}
=============================================================================

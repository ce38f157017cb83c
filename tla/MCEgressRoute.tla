--------------------------- MODULE MCEgressRoute ---------------------------
(***************************************************************************)
(* EgressRoute for TLC: two launchers, so that one can sweep what the      *)
(* other left, and time in ticks of the length of the grace.               *)
(***************************************************************************)
EXTENDS EgressRoute, TLC

Symmetry == Permutations(Sessions)
=============================================================================

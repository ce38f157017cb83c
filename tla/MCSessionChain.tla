--------------------------- MODULE MCSessionChain ---------------------------
(***************************************************************************)
(* SessionChain for TLC.  Three commands make a session, a command on it   *)
(* and another one that interferes.                                        *)
(***************************************************************************)
EXTENDS SessionChain, TLC

Symmetry == Permutations(Procs)
=============================================================================

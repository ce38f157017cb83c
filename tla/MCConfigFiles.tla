---------------------------- MODULE MCConfigFiles ----------------------------
(***************************************************************************)
(* A small instance of ConfigFiles for TLC.                                *)
(***************************************************************************)
EXTENDS ConfigFiles, TLC

\* Processes and inodes are interchangeable.
Symmetry == Permutations(Procs) \cup Permutations(Inodes)

=============================================================================

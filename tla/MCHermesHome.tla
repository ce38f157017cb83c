---------------------------- MODULE MCHermesHome ----------------------------
(* A credential below the top and a symlink at the top. *)
EXTENDS HermesHome, TLC

MCFiles == {<<"auth", "sub">>, <<"link", "top">>}
Symmetry == Permutations(Launches)
=============================================================================

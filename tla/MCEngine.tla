------------------------------ MODULE MCEngine -----------------------------
(***************************************************************************)
(* Small instances of Engine.                                              *)
(***************************************************************************)
EXTENDS Engine, TLC

None == {}
OneCell == {2}
Symmetry == Permutations(Ids)
=============================================================================

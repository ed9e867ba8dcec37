----------------------------- MODULE MCWantList -----------------------------
(* Model-checking instance of WantList.                                     *)
EXTENDS WantList, TLC

Symmetry == Permutations(Cid)
=============================================================================

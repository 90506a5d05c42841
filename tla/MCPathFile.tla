----------------------------- MODULE MCPathFile -----------------------------
(* Instances of PathFile for TLC. *)
EXTENDS PathFile, TLC

Symmetry == Permutations(Op) \cup Permutations(Token)
=============================================================================

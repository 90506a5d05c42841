---------------------------- MODULE MCCliOutput ----------------------------
(* Instances of CliOutput for TLC. *)
EXTENDS CliOutput, TLC

Symmetry == Permutations(Proc) \cup Permutations(Token) \cup Permutations(Output)
=============================================================================

------------------------------ MODULE MCPacket ------------------------------
(* Instances of Packet for TLC. *)
EXTENDS Packet, TLC

Symmetry == Permutations(Call) \cup Permutations(Key) \cup Permutations(Aad) \cup Permutations(Nonce)
=============================================================================

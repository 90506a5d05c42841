--------------------------- MODULE MCPacketStream ---------------------------
(* Instances of PacketStream for TLC. *)
EXTENDS PacketStream, TLC

Symmetry == Permutations(EncVar) \cup Permutations(DecVar) \cup Permutations(EncImpl)
                \cup Permutations(Nonce) \cup Permutations(Byte)
=============================================================================

---------------------------- MODULE MCSealedFile ----------------------------
(* Instances of SealedFile for TLC. *)
EXTENDS SealedFile

\* Files, secrets, associated data and salts are each interchangeable.
Symmetry ==
    Permutations(File) \cup Permutations(Secret) \cup Permutations(CallerAad)
        \cup Permutations(Salt)
=============================================================================

----------------------------- MODULE SealedFile -----------------------------
(***************************************************************************)
(* Sealing and opening together.  Files are sealed, somebody who can read, *)
(* modify, truncate, reorder, append to or replace the results            *)
(* (docs/SECURITY_MODEL.md, "Threat Model") hands a container to a caller, *)
(* and the caller opens it with some secret and associated data.           *)
(***************************************************************************)
EXTENDS SealStream, OpenStream, SequencesExt

CONSTANTS MaxEdits      \* bound: changes made to a container

ASSUME EditsAssumption == MaxEdits \in Nat

VARIABLES
    draft,      \* the container being put together
    edits       \* changes made to it

vars == <<encs, sealVars, openVars, draft, edits>>

Init == SealInit /\ OpenInit /\ draft = << >> /\ edits = 0

Sealing ==
    /\ SealNext
    /\ UNCHANGED <<openVars, draft, edits>>

AllSealed == \A f \in File : sealPc[f] = "done"

\* What is known of a container once it is written.
Atoms == UNION {{sealed[f][i] : i \in 1..Len(sealed[f])} : f \in File}

\* Header and record fields are not secret: any of them may be rewritten.
ForgedAtoms ==
    {Junk}
    \cup {RecordAtom(MakeRecordHeader(i, n, b)) :
              i \in 0..MaxIndex, n \in 0..(kChunkSize + 1), b \in {kNotFinal, kFinal, 2}}
    \cup UNION {{HeaderAtom([a.header EXCEPT !.fixed = FALSE]),
                 HeaderAtom([a.header EXCEPT !.format = "SKP1"])} :
              a \in {a \in Atoms : a.k = "header"}}

\* Pick up a sealed file as it is.
PickUp(f) ==
    /\ AllSealed /\ openPc = "idle" /\ edits = 0
    /\ draft' = sealed[f]
    /\ UNCHANGED <<encs, sealVars, openVars, edits>>

\* Keep a beginning of the draft and continue with an end of any sealed file:
\* truncation, deletion, duplication, reordering, appending and mixing.
Splice ==
    /\ AllSealed /\ openPc = "idle" /\ edits < MaxEdits /\ draft # << >>
    /\ edits' = edits + 1
    /\ \E i \in 0..Len(draft), f \in File : \E j \in 1..(Len(sealed[f]) + 1) :
          draft' = SubSeq(draft, 1, i) \o SubSeq(sealed[f], j, Len(sealed[f]))
    /\ UNCHANGED <<encs, sealVars, openVars>>

\* Overwrite or append one atom, known or forged.
Overwrite ==
    /\ AllSealed /\ openPc = "idle" /\ edits < MaxEdits /\ draft # << >>
    /\ edits' = edits + 1
    /\ \E i \in 1..(Len(draft) + 1), a \in Atoms \cup ForgedAtoms :
          draft' = [j \in 1..(IF i > Len(draft) THEN i ELSE Len(draft)) |->
                       IF j = i THEN a ELSE draft[j]]
    /\ UNCHANGED <<encs, sealVars, openVars>>

Opening ==
    /\ \/ AllSealed /\ OpenBegin(draft)
       \/ AllSealed /\ OpenWithEmptyPassword
       \/ OpenStep
    /\ UNCHANGED <<sealVars, draft, edits>>

Next ==
    \/ Sealing
    \/ \E f \in File : PickUp(f)
    \/ Splice \/ Overwrite
    \/ Opening

Spec == Init /\ [][Next]_vars

-----------------------------------------------------------------------------
(* Properties. *)

TypeOK ==
    /\ sealPc \in [File -> {"idle", "header", "chunk", "done"}]
    /\ \A f \in File : position[f] \in 0..call[f].len
    /\ chunkIndex \in [File -> 0..MaxIndex]
    /\ openPc \in {"idle", "header", "record", "done"}
    /\ cursor \in 0..Len(container)
    /\ expectedIndex \in 0..MaxIndex

SealedAs(f, c) == sealResult[f] = "ok" /\ c = sealed[f]

\* The file whose header the container carries, with the secret and the associated
\* data of the call that sealed it.
Opens(f) ==
    /\ header[f] # NoResult /\ container # << >> /\ container[1] = HeaderAtom(header[f])
    /\ asked = [format |-> header[f].format, secret |-> call[f].secret, aad |-> call[f].aad]

\* Whatever the container holds, the output stream only ever receives a beginning of
\* the plaintext that was sealed under this header, secret and associated data:
\* chunks cannot be reordered, repeated, dropped or taken from another file.
OutputIsPrefix ==
    opened # << >> => \E f \in File : Opens(f) /\ IsPrefix(opened, Plain(f))

\* Opening succeeds only on a container that a sealing call completed, unchanged to
\* the last byte, and has then written exactly its plaintext.
AcceptsOnlySealed ==
    openResult = "ok" =>
        \E f \in File : Opens(f) /\ SealedAs(f, container) /\ opened = Plain(f)

\* All of a plaintext is released only from an intact container: trailing data is
\* noticed before the final chunk is written.
LastChunkNeedsEnd ==
    \A f \in File : opened = Plain(f) /\ opened # << >> => SealedAs(f, container)

\* What was sealed can be opened: every length, the largest index included.
SealedOpens ==
    \A f \in File :
        openPc = "done" /\ openFaults = 0 /\ Opens(f) /\ SealedAs(f, container)
            => openResult = "ok" /\ opened = Plain(f)

\* With a wrong secret or wrong associated data an intact container is reported as
\* authentication_failed, never as malformed, and nothing is written.
WrongSecretFailsClosed ==
    \A f \in File :
        /\ openPc = "done" /\ openFaults = 0 /\ SealedAs(f, container)
        /\ asked.format = header[f].format
        /\ asked.secret # call[f].secret \/ asked.aad # call[f].aad
        => openResult = "authentication_failed" /\ opened = << >>
=============================================================================

----------------------------- MODULE SealStream -----------------------------
(***************************************************************************)
(* seal_file and seal_file_with_password over streams (src/src/file.cpp):  *)
(* the header, then one authenticated record per chunk, the last one       *)
(* marked final.  Several files are sealed concurrently under shared keys. *)
(***************************************************************************)
EXTENDS FileCrypto

CONSTANTS
    File,           \* sealing calls, one per file
    PlainLen,       \* lengths a plaintext may have
    MaxSealFaults,  \* bound: failing reads, writes and OpenSSL calls
    NoResult        \* the call has not returned

ASSUME SealFaultsAssumption == MaxSealFaults \in Nat
ASSUME PlainLenAssumption == PlainLen \subseteq Nat
ASSUME NoResultAssumption == NoResult # "ok" /\ NoResult \notin FileHeaders

VARIABLES
    sealPc,         \* "idle", "header", "chunk", "done"
    call,           \* what the caller passed: secret, aad, plaintext length
    header,         \* the header made for the file
    position,       \* bytes of the plaintext read
    chunkIndex,     \* chunk_index
    sealed,         \* the container written so far
    sealResult,
    sealFaults

sealVars == <<sealPc, call, header, position, chunkIndex, sealed, sealResult, sealFaults>>

\* Every byte of every plaintext is different, so nothing passes for anything else.
Plain(f) == [i \in 1..call[f].len |-> <<f, i>>]

SealInit ==
    /\ encs = {}
    /\ sealPc = [f \in File |-> "idle"]
    /\ call = [f \in File |-> [secret |-> NoResult, aad |-> NoResult, len |-> 0]]
    /\ header = [f \in File |-> NoResult]
    /\ position = [f \in File |-> 0]
    /\ chunkIndex = [f \in File |-> 0]
    /\ sealed = [f \in File |-> << >>]
    /\ sealResult = [f \in File |-> NoResult]
    /\ sealFaults = 0

SealFault == sealFaults < MaxSealFaults /\ sealFaults' = sealFaults + 1
SealReturn(f, r) ==
    /\ sealPc' = [sealPc EXCEPT ![f] = "done"]
    /\ sealResult' = [sealResult EXCEPT ![f] = r]

-----------------------------------------------------------------------------

\* The random salt is taken never to repeat; the nonce prefix may.
UsedSalts == {header[g].salt : g \in {g \in File : header[g] # NoResult}}

\* The call makes its header and derives its key.
SealBegin(f) ==
    /\ sealPc[f] = "idle"
    /\ \/ /\ \E s \in Secret, a \in CallerAad, n \in PlainLen :
                call' = [call EXCEPT ![f] = [secret |-> s, aad |-> a, len |-> n]]
          /\ \E m \in Format, salt \in Salt \ UsedSalts, prefix \in NoncePrefix :
                header' = [header EXCEPT ![f] = MakeHeader(m, salt, prefix)]
          /\ sealPc' = [sealPc EXCEPT ![f] = "header"]
          /\ UNCHANGED <<sealResult, sealFaults>>
       \/ /\ SealFault
          /\ \E e \in {"invalid_input", "backend_failure"} : SealReturn(f, e)
          /\ UNCHANGED <<call, header>>
    /\ UNCHANGED <<encs, position, chunkIndex, sealed>>

\* seal_stream_payload writes the header first.
SealHeader(f) ==
    /\ sealPc[f] = "header"
    /\ \/ /\ sealed' = [sealed EXCEPT ![f] = <<HeaderAtom(header[f])>>]
          /\ sealPc' = [sealPc EXCEPT ![f] = "chunk"]
          /\ UNCHANGED <<sealResult, sealFaults>>
       \/ SealFault /\ SealReturn(f, "backend_failure") /\ UNCHANGED sealed
    /\ UNCHANGED <<encs, call, header, position, chunkIndex>>

\* A short read is final; after a full one peek() tells.
ReadCount(f) == IF call[f].len - position[f] < kChunkSize THEN call[f].len - position[f]
                                                         ELSE kChunkSize
IsFinal(f) == ReadCount(f) < kChunkSize \/ position[f] + ReadCount(f) = call[f].len

ChunkRecord(f) ==
    MakeRecordHeader(chunkIndex[f], ReadCount(f), IF IsFinal(f) THEN kFinal ELSE kNotFinal)

\* encrypt_chunk of the next chunk; the identity of an encryption is its place in the file.
Encryption(f) ==
    [id |-> <<f, position[f]>>,
     key |-> DeriveKey(call[f].secret, header[f]),
     nonce |-> MakeNonce(header[f].prefix, chunkIndex[f]),
     aad |-> MakeChunkAad(HeaderAtom(header[f]), ChunkRecord(f), call[f].aad),
     pt |-> SubSeq(Plain(f), position[f] + 1, position[f] + ReadCount(f))]

\* The three writes of a record.
RecordAtoms(f) ==
    <<RecordAtom(ChunkRecord(f))>>
        \o Ciphertext(Encryption(f).id, ReadCount(f)) \o <<TagAtom(Encryption(f).id)>>

\* The index may not wrap: more chunks than indices is an error.
\* Mutant of SealTooLarge: the check is missing.
SealUnbounded(f) == FALSE
SealTooLarge(f) == chunkIndex[f] = MaxIndex /\ ~IsFinal(f)

\* One turn of the loop: read, encrypt, write the record, advance.
SealChunk(f) ==
    /\ sealPc[f] = "chunk"
    /\ encs' = encs \cup {Encryption(f)}
    /\ sealed' = [sealed EXCEPT ![f] = @ \o RecordAtoms(f)]
    /\ position' = [position EXCEPT ![f] = @ + ReadCount(f)]
    /\ chunkIndex' = IF SealTooLarge(f) THEN chunkIndex
                     ELSE [chunkIndex EXCEPT ![f] = NextIndex(@)]
    /\ IF IsFinal(f) THEN SealReturn(f, "ok")
       ELSE IF SealTooLarge(f) THEN SealReturn(f, "invalid_input")
       ELSE UNCHANGED <<sealPc, sealResult>>
    /\ UNCHANGED <<call, header, sealFaults>>

\* The read, the peek or OpenSSL fails before anything is written.
SealChunkFails(f) ==
    /\ sealPc[f] = "chunk"
    /\ SealFault
    /\ SealReturn(f, "backend_failure")
    /\ UNCHANGED <<encs, call, header, position, chunkIndex, sealed>>

\* One of the three writes fails: the nonce is spent, part of the record is out.
SealWriteFails(f) ==
    /\ sealPc[f] = "chunk"
    /\ SealFault
    /\ encs' = encs \cup {Encryption(f)}
    /\ \E n \in 0..(Len(RecordAtoms(f)) - 1) :
          sealed' = [sealed EXCEPT ![f] = @ \o SubSeq(RecordAtoms(f), 1, n)]
    /\ position' = [position EXCEPT ![f] = @ + ReadCount(f)]
    /\ SealReturn(f, "backend_failure")
    /\ UNCHANGED <<call, header, chunkIndex>>

SealStep(f) ==
    \/ SealBegin(f) \/ SealHeader(f) \/ SealChunk(f) \/ SealChunkFails(f) \/ SealWriteFails(f)

SealNext == \E f \in File : SealStep(f)

-----------------------------------------------------------------------------

\* No key ever encrypts two chunks under one nonce, whatever prefixes are drawn,
\* whatever fails and however long the file is (the 32-bit index may not wrap).
NonceNeverReused ==
    \A d, e \in encs : d.key = e.key /\ d.nonce = e.nonce => d = e
=============================================================================

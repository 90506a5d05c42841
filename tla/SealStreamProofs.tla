-------------------------- MODULE SealStreamProofs --------------------------
(***************************************************************************)
(* Proofs about SealStream, for any number of files, secrets, salts and    *)
(* faults, any chunk size, index width and plaintext length.               *)
(***************************************************************************)
EXTENDS SealStream, SequenceTheorems, TLAPS

USE FormatAssumption, ChunkAssumption, IndexAssumption, SealFaultsAssumption,
    PlainLenAssumption, NoResultAssumption

-----------------------------------------------------------------------------
(* The container of a plaintext of n bytes: where chunk k begins, how long it *)
(* is, what its record is.                                                    *)

Pos(k) == k * kChunkSize
Count(n, k) == IF n - Pos(k) < kChunkSize THEN n - Pos(k) ELSE kChunkSize
Final(n, k) == Count(n, k) < kChunkSize \/ Pos(k) + Count(n, k) = n
RecordOf(n, k) == MakeRecordHeader(k, Count(n, k), IF Final(n, k) THEN kFinal ELSE kNotFinal)

\* The atoms before record k, all records before it being full, and the atoms of record k.
Off(k) == 1 + Pos(k) + 2 * k
AtomsOf(f, n, k) ==
    <<RecordAtom(RecordOf(n, k))>>
        \o Ciphertext(<<f, Pos(k)>>, Count(n, k)) \o <<TagAtom(<<f, Pos(k)>>)>>

\* The encryption of chunk k of file f, sealed by call c under header h.
Text(f, n) == [i \in 1..n |-> <<f, i>>]
EncOf(f, c, h, k) ==
    [id |-> <<f, Pos(k)>>,
     key |-> DeriveKey(c.secret, h),
     nonce |-> MakeNonce(h.prefix, k),
     aad |-> MakeChunkAad(HeaderAtom(h), RecordOf(c.len, k), c.aad),
     pt |-> SubSeq(Text(f, c.len), Pos(k) + 1, Pos(k) + Count(c.len, k))]

\* The values of an atom.
RecordHeaders == [index : Nat, size : Nat, flag : Nat]
AtomType ==
    [k : {"header"}, header : FileHeaders] \cup [k : {"record"}, record : RecordHeaders]
    \cup [k : {"cipher"}, id : File \X Nat, i : Nat] \cup [k : {"tag"}, id : File \X Nat]
    \cup {Junk}

-----------------------------------------------------------------------------
(* The inductive invariant. *)

SealTypeOK ==
    /\ sealPc \in [File -> {"idle", "header", "chunk", "done"}]
    /\ call \in [File -> [secret : Secret \cup {NoResult}, aad : CallerAad \cup {NoResult}, len : Nat]]
    /\ header \in [File -> FileHeaders \cup {NoResult}]
    /\ position \in [File -> Nat]
    /\ chunkIndex \in [File -> 0..MaxIndex]
    /\ sealed \in [File -> Seq(AtomType)]
    /\ DOMAIN sealResult = File
    /\ sealFaults \in 0..MaxSealFaults

\* A file that has no header yet is untouched; two files never share a salt.
Headers ==
    /\ \A f \in File :
          /\ sealPc[f] = "idle" => header[f] = NoResult
          /\ sealPc[f] \in {"header", "chunk"} => header[f] # NoResult
          /\ sealPc[f] \in {"idle", "header"} => sealed[f] = << >> /\ position[f] = 0 /\ chunkIndex[f] = 0
          /\ header[f] # NoResult =>
                /\ call[f].secret \in Secret /\ call[f].aad \in CallerAad
                /\ ParsesAs(header[f], header[f].format)
          /\ sealed[f] # << >> => header[f] # NoResult
          /\ sealResult[f] = "ok" => sealPc[f] = "done"
    /\ \A f, g \in File :
          /\ header[f] # NoResult /\ header[g] # NoResult /\ header[f].salt = header[g].salt
          => f = g

\* Between two chunks: the position is where the index says, and no chunk before was final.
AtChunk ==
    \A f \in File : sealPc[f] = "chunk" =>
        /\ position[f] = Pos(chunkIndex[f])
        /\ position[f] = 0 \/ position[f] < call[f].len
        /\ Len(sealed[f]) = Off(chunkIndex[f])

\* Every encryption is that of a chunk its file has come past.
Encrypted ==
    \A e \in encs : \E f \in File, k \in 0..MaxIndex :
        /\ header[f] # NoResult
        /\ e = EncOf(f, call[f], header[f], k)
        /\ sealPc[f] # "done" => k < chunkIndex[f]

SealInv == SealTypeOK /\ Headers /\ AtChunk /\ Encrypted

-----------------------------------------------------------------------------
(* Positions and lengths. *)

\* Chunks lie one after another.
LEMMA PosNext == \A k \in Nat : Pos(k) \in Nat /\ Pos(0) = 0 /\ Pos(k + 1) = Pos(k) + kChunkSize
  BY DEF Pos

\* Of two chunks, the one with the lower index ends before the other begins.
LEMMA PosOrdered == \A j, k \in Nat : j < k => Pos(j) + kChunkSize <= Pos(k)
<1> SUFFICES ASSUME NEW j \in Nat, NEW k \in Nat, j < k
             PROVE  Pos(j) + kChunkSize <= Pos(k)
  OBVIOUS
<1>1. PICK d \in Nat : k = j + 1 + d
  <2>1. k - j - 1 \in Nat /\ k = j + 1 + (k - j - 1)
    OBVIOUS
  <2> QED
    BY <2>1
<1>2. Pos(k) = Pos(j) + kChunkSize + d * kChunkSize
  BY <1>1 DEF Pos
<1>3. d * kChunkSize \in Nat
  OBVIOUS
<1> QED
  BY <1>2, <1>3, PosNext

\* A chunk that is not final is full and something follows it.
LEMMA CountBounds ==
    ASSUME NEW n \in Nat, NEW k \in Nat, Pos(k) <= n
    PROVE  /\ Count(n, k) \in 0..kChunkSize /\ Pos(k) + Count(n, k) <= n
           /\ ~Final(n, k) => Count(n, k) = kChunkSize /\ Pos(k + 1) < n
           /\ Final(n, k) => Pos(k) + Count(n, k) = n
  BY PosNext DEF Count, Final

\* ++chunk_index does not wrap below the largest index.
LEMMA NextIndexPlain ==
    ASSUME NEW i \in 0..MaxIndex
    PROVE  NextIndex(i) \in 0..MaxIndex /\ (i # MaxIndex => NextIndex(i) = i + 1)
<1>1. CASE i = MaxIndex
  BY <1>1 DEF NextIndex
<1>2. CASE i # MaxIndex
  BY <1>2 DEF NextIndex
<1> QED
  BY <1>1, <1>2

\* A record is its header, one atom per byte and a tag.
LEMMA RecordAtomsType ==
    ASSUME NEW f \in File, NEW n \in Nat, NEW k \in Nat, Pos(k) <= n
    PROVE  /\ AtomsOf(f, n, k) \in Seq(AtomType)
           /\ Len(AtomsOf(f, n, k)) = Count(n, k) + 2
           /\ AtomsOf(f, n, k)[1] = RecordAtom(RecordOf(n, k))
           /\ \A i \in 1..Count(n, k) : AtomsOf(f, n, k)[1 + i] = CipherAtom(<<f, Pos(k)>>, i)
           /\ AtomsOf(f, n, k)[Count(n, k) + 2] = TagAtom(<<f, Pos(k)>>)
<1> DEFINE head == <<RecordAtom(RecordOf(n, k))>>
           body == Ciphertext(<<f, Pos(k)>>, Count(n, k))
           end == <<TagAtom(<<f, Pos(k)>>)>>
<1>1. Count(n, k) \in Nat /\ Pos(k) \in Nat
  BY CountBounds, PosNext
<1>2. head \in Seq(AtomType) /\ Len(head) = 1
  <2>1. RecordOf(n, k) \in RecordHeaders
    BY <1>1 DEF RecordOf, MakeRecordHeader, RecordHeaders, kFinal, kNotFinal
  <2>2. RecordAtom(RecordOf(n, k)) \in AtomType
    BY <2>1 DEF RecordAtom, AtomType
  <2> QED
    BY <2>2
<1>3. body \in Seq(AtomType) /\ Len(body) = Count(n, k)
  <2>1. \A i \in 1..Count(n, k) : CipherAtom(<<f, Pos(k)>>, i) \in AtomType
    BY <1>1 DEF CipherAtom, AtomType
  <2>2. body \in [1..Count(n, k) -> AtomType]
    BY <2>1 DEF Ciphertext
  <2> HIDE DEF body
  <2>3. body \in Seq(AtomType)
    BY <1>1, <2>2, SeqDef
  <2> QED
    BY <1>1, <2>2, <2>3, LenProperties
<1>4. end \in Seq(AtomType) /\ Len(end) = 1
  <2>1. TagAtom(<<f, Pos(k)>>) \in AtomType
    BY <1>1 DEF TagAtom, AtomType
  <2> QED
    BY <2>1
<1>5. /\ \A i \in 1..Count(n, k) : body[i] = CipherAtom(<<f, Pos(k)>>, i)
      /\ head[1] = RecordAtom(RecordOf(n, k)) /\ end[1] = TagAtom(<<f, Pos(k)>>)
  BY DEF Ciphertext
<1>6. AtomsOf(f, n, k) = head \o body \o end
  BY DEF AtomsOf
<1> HIDE DEF head, body, end
<1>7. /\ head \o body \in Seq(AtomType) /\ Len(head \o body) = 1 + Count(n, k)
      /\ \A i \in 1..(1 + Count(n, k)) :
            (head \o body)[i] = IF i <= 1 THEN head[i] ELSE body[i - 1]
  <2>1. /\ head \o body \in Seq(AtomType) /\ Len(head \o body) = Len(head) + Len(body)
        /\ \A i \in 1..(Len(head) + Len(body)) :
              (head \o body)[i] = IF i <= Len(head) THEN head[i] ELSE body[i - Len(head)]
    BY ONLY <1>2, <1>3, ConcatProperties
  <2> QED
    BY ONLY <1>1, <1>2, <1>3, <2>1
<1>8. /\ head \o body \o end \in Seq(AtomType) /\ Len(head \o body \o end) = Count(n, k) + 2
      /\ \A i \in 1..(Count(n, k) + 2) :
            (head \o body \o end)[i] =
               IF i <= 1 + Count(n, k) THEN (head \o body)[i] ELSE end[i - (1 + Count(n, k))]
  <2> DEFINE most == head \o body
  <2>1. most \in Seq(AtomType) /\ Len(most) = 1 + Count(n, k)
    BY <1>7
  <2> HIDE DEF most
  <2>2. /\ most \o end \in Seq(AtomType) /\ Len(most \o end) = Len(most) + Len(end)
        /\ \A i \in 1..(Len(most) + Len(end)) :
              (most \o end)[i] = IF i <= Len(most) THEN most[i] ELSE end[i - Len(most)]
    BY ONLY <1>4, <2>1, ConcatProperties
  <2>3. /\ most \o end \in Seq(AtomType) /\ Len(most \o end) = Count(n, k) + 2
        /\ \A i \in 1..(Count(n, k) + 2) :
              (most \o end)[i] =
                 IF i <= 1 + Count(n, k) THEN most[i] ELSE end[i - (1 + Count(n, k))]
    BY ONLY <1>1, <1>4, <2>1, <2>2
  <2> QED
    BY <2>3 DEF most
<1>9. \A i \in 1..Count(n, k) : (head \o body \o end)[1 + i] = body[i]
  BY ONLY <1>1, <1>7, <1>8
<1>10. (head \o body \o end)[1] = head[1]
  BY ONLY <1>1, <1>7, <1>8
<1>11. (head \o body \o end)[Count(n, k) + 2] = end[1]
  <2>1. /\ Count(n, k) + 2 \in 1..(Count(n, k) + 2) /\ ~(Count(n, k) + 2 <= 1 + Count(n, k))
        /\ (Count(n, k) + 2) - (1 + Count(n, k)) = 1
    BY ONLY <1>1
  <2> QED
    BY ONLY <1>8, <2>1
<1> QED
  BY <1>5, <1>6, <1>8, <1>9, <1>10, <1>11

-----------------------------------------------------------------------------
(* What a turn of the loop does, in terms of the chunk's number. *)

\* At its chunk, a call reads, encrypts and writes chunk number chunkIndex.
LEMMA ChunkAt ==
    ASSUME SealInv, NEW f \in File, sealPc[f] = "chunk"
    PROVE  LET n == call[f].len
               k == chunkIndex[f] IN
           /\ n \in Nat /\ k \in 0..MaxIndex /\ Pos(k) <= n /\ position[f] = Pos(k)
           /\ ReadCount(f) = Count(n, k) /\ (IsFinal(f) <=> Final(n, k))
           /\ Encryption(f) = EncOf(f, call[f], header[f], k)
           /\ RecordAtoms(f) = AtomsOf(f, n, k)
           /\ header[f] # NoResult
<1> DEFINE n == call[f].len
           k == chunkIndex[f]
<1>1. /\ n \in Nat /\ k \in 0..MaxIndex /\ position[f] = Pos(k) /\ Pos(k) <= n
      /\ header[f] # NoResult
  <2>1. n \in Nat /\ k \in 0..MaxIndex /\ position[f] \in Nat
    BY DEF SealInv, SealTypeOK
  <2>2. /\ position[f] = Pos(k) /\ header[f] # NoResult
        /\ position[f] = 0 \/ position[f] < n
    BY DEF SealInv, AtChunk, Headers
  <2> QED
    BY <2>1, <2>2
<1>2. ReadCount(f) = Count(n, k)
  BY <1>1 DEF ReadCount, Count
<1>3. IsFinal(f) <=> Final(n, k)
  BY <1>1, <1>2 DEF IsFinal, Final
<1>4. ChunkRecord(f) = RecordOf(n, k)
  BY <1>2, <1>3 DEF ChunkRecord, RecordOf
<1>5. Encryption(f) = EncOf(f, call[f], header[f], k)
  BY <1>1, <1>2, <1>4 DEF Encryption, EncOf, Plain, Text
<1>6. Encryption(f).id = <<f, Pos(k)>>
  BY <1>1 DEF Encryption
<1>7. RecordAtoms(f) = AtomsOf(f, n, k)
  BY <1>2, <1>4, <1>6 DEF RecordAtoms, AtomsOf
<1> QED
  BY <1>1, <1>2, <1>3, <1>5, <1>7

-----------------------------------------------------------------------------
(* The invariant is inductive. *)

\* Nothing is sealed at first.
LEMMA InitSeal == SealInit => SealInv
<1> SUFFICES ASSUME SealInit PROVE SealInv
  OBVIOUS
<1>1. SealTypeOK
  <2>1. << >> \in Seq(AtomType)
    OBVIOUS
  <2> QED
    BY <2>1 DEF SealInit, SealTypeOK
<1>2. Headers
  BY DEF SealInit, Headers
<1>3. AtChunk
  BY DEF SealInit, AtChunk
<1>4. Encrypted
  BY DEF SealInit, Encrypted
<1> QED
  BY <1>1, <1>2, <1>3, <1>4 DEF SealInv

\* Encryptions stay those of their chunks when calls and headers stay and no file comes
\* to a smaller index.
LEMMA EncryptedStays ==
    ASSUME SealInv, encs' = encs,
           \A g \in File : header[g] # NoResult => call'[g] = call[g] /\ header'[g] = header[g],
           \A g \in File : sealPc'[g] # "done" => sealPc[g] # "done" /\ chunkIndex'[g] = chunkIndex[g]
    PROVE  Encrypted'
<1> SUFFICES ASSUME NEW e \in encs
             PROVE  \E f \in File, k \in 0..MaxIndex :
                       /\ header'[f] # NoResult
                       /\ e = EncOf(f, call'[f], header'[f], k)
                       /\ sealPc'[f] # "done" => k < chunkIndex'[f]
  BY DEF Encrypted
<1>1. PICK f \in File, k \in 0..MaxIndex :
         /\ header[f] # NoResult
         /\ e = EncOf(f, call[f], header[f], k)
         /\ sealPc[f] # "done" => k < chunkIndex[f]
  BY DEF SealInv, Encrypted
<1> QED
  BY <1>1

\* The call draws its header, with a salt of its own.
LEMMA BeginKeeps == ASSUME SealInv, NEW f \in File, SealBegin(f) PROVE SealInv'
<1>1. /\ sealPc[f] = "idle" /\ header[f] = NoResult
      /\ UNCHANGED <<encs, position, chunkIndex, sealed>>
  BY DEF SealBegin, SealInv, Headers
<1>2. CASE /\ SealFault
           /\ \E e \in {"invalid_input", "backend_failure"} :
                 SealReturn(f, e) /\ UNCHANGED <<call, header>>
  <2>1. PICK e \in {"invalid_input", "backend_failure"} :
           /\ sealPc' = [sealPc EXCEPT ![f] = "done"] /\ sealResult' = [sealResult EXCEPT ![f] = e]
           /\ UNCHANGED <<call, header>>
    BY <1>2 DEF SealReturn
  <2>2. /\ sealPc'[f] = "done" /\ \A g \in File : g # f => sealPc'[g] = sealPc[g]
        /\ sealResult'[f] # "ok" /\ \A g \in File : g # f => sealResult'[g] = sealResult[g]
    BY <2>1 DEF SealInv, SealTypeOK
  <2>3. SealTypeOK'
    <3>1. sealFaults' \in 0..MaxSealFaults
      BY <1>2 DEF SealFault, SealInv, SealTypeOK
    <3> QED
      BY <1>1, <2>1, <3>1 DEF SealInv, SealTypeOK
  <2>4. Headers'
    BY <1>1, <2>1, <2>2 DEF SealInv, Headers
  <2>5. AtChunk'
    BY <1>1, <2>1, <2>2 DEF SealInv, AtChunk
  <2>6. Encrypted'
    BY <1>1, <2>1, <2>2, EncryptedStays
  <2> QED
    BY <2>3, <2>4, <2>5, <2>6 DEF SealInv
<1>3. CASE /\ \E s \in Secret, a \in CallerAad, n \in PlainLen :
                 call' = [call EXCEPT ![f] = [secret |-> s, aad |-> a, len |-> n]]
           /\ \E m \in Format, salt \in Salt \ UsedSalts, prefix \in NoncePrefix :
                 header' = [header EXCEPT ![f] = MakeHeader(m, salt, prefix)]
           /\ sealPc' = [sealPc EXCEPT ![f] = "header"]
           /\ UNCHANGED <<sealResult, sealFaults>>
  <2>1. PICK s \in Secret, a \in CallerAad, n \in PlainLen :
           call' = [call EXCEPT ![f] = [secret |-> s, aad |-> a, len |-> n]]
    BY <1>3
  <2>2. PICK m \in Format, salt \in Salt \ UsedSalts, prefix \in NoncePrefix :
           header' = [header EXCEPT ![f] = MakeHeader(m, salt, prefix)]
    BY <1>3
  <2> DEFINE h == MakeHeader(m, salt, prefix)
  <2>3. /\ h \in FileHeaders /\ h.salt = salt /\ ParsesAs(h, h.format) /\ h # NoResult
    <3>1. h = [format |-> m, fixed |-> TRUE, salt |-> salt, prefix |-> prefix]
      BY DEF MakeHeader
    <3>2. m \in {"SKF1", "SKP1"} /\ salt \in Salt
      OBVIOUS
    <3> HIDE DEF h
    <3>3. h \in FileHeaders
      BY <3>1, <3>2 DEF FileHeaders
    <3>4. h.salt = salt /\ h.fixed
      BY <3>1
    <3> QED
      BY <3>3, <3>4 DEF ParsesAs
  <2> HIDE DEF h
  <2>4. /\ header'[f] = h /\ \A g \in File : g # f => header'[g] = header[g]
        /\ call'[f] = [secret |-> s, aad |-> a, len |-> n]
        /\ \A g \in File : g # f => call'[g] = call[g]
        /\ sealPc'[f] = "header" /\ \A g \in File : g # f => sealPc'[g] = sealPc[g]
    BY <1>3, <2>1, <2>2 DEF SealInv, SealTypeOK, h
  <2>5. SealTypeOK'
    <3>1. call' \in [File -> [secret : Secret \cup {NoResult}, aad : CallerAad \cup {NoResult}, len : Nat]]
      BY <2>1 DEF SealInv, SealTypeOK
    <3>2. header' \in [File -> FileHeaders \cup {NoResult}]
      BY <2>2, <2>3 DEF SealInv, SealTypeOK, h
    <3> QED
      BY <1>1, <1>3, <3>1, <3>2 DEF SealInv, SealTypeOK
  <2>6. Headers'
    <3>1. \A g \in File : g # f /\ header[g] # NoResult => header[g].salt # salt
      BY DEF UsedSalts
    <3>2. \A g \in File :
             /\ sealPc'[g] = "idle" => header'[g] = NoResult
             /\ sealPc'[g] \in {"header", "chunk"} => header'[g] # NoResult
             /\ sealPc'[g] \in {"idle", "header"} =>
                   sealed[g] = << >> /\ position[g] = 0 /\ chunkIndex[g] = 0
             /\ header'[g] # NoResult =>
                   /\ call'[g].secret \in Secret /\ call'[g].aad \in CallerAad
                   /\ ParsesAs(header'[g], header'[g].format)
             /\ sealed[g] # << >> => header'[g] # NoResult
             /\ sealResult[g] = "ok" => sealPc'[g] = "done"
      BY <1>1, <2>3, <2>4 DEF SealInv, Headers
    <3>3. \A g1, g2 \in File :
             /\ header'[g1] # NoResult /\ header'[g2] # NoResult /\ header'[g1].salt = header'[g2].salt
             => g1 = g2
      BY <2>3, <2>4, <3>1 DEF SealInv, Headers
    <3> QED
      BY <1>1, <1>3, <3>2, <3>3 DEF Headers
  <2>7. AtChunk'
    BY <1>1, <2>4 DEF SealInv, AtChunk
  <2>8. Encrypted'
    BY <1>1, <2>4, EncryptedStays
  <2> QED
    BY <2>5, <2>6, <2>7, <2>8 DEF SealInv
<1> QED
  BY <1>2, <1>3 DEF SealBegin

\* The header is written, or not.
LEMMA HeaderKeeps == ASSUME SealInv, NEW f \in File, SealHeader(f) PROVE SealInv'
<1>1. /\ sealPc[f] = "header" /\ header[f] # NoResult /\ position[f] = 0 /\ chunkIndex[f] = 0
      /\ header[f] \in FileHeaders
      /\ UNCHANGED <<encs, call, header, position, chunkIndex>>
  BY DEF SealHeader, SealInv, SealTypeOK, Headers
<1>2. CASE SealFault /\ SealReturn(f, "backend_failure") /\ UNCHANGED sealed
  <2>1. /\ sealPc' = [sealPc EXCEPT ![f] = "done"] /\ UNCHANGED sealed
        /\ sealResult' = [sealResult EXCEPT ![f] = "backend_failure"]
    BY <1>2 DEF SealReturn
  <2>2. /\ sealPc'[f] = "done" /\ \A g \in File : g # f => sealPc'[g] = sealPc[g]
        /\ sealResult'[f] # "ok" /\ \A g \in File : g # f => sealResult'[g] = sealResult[g]
    BY <2>1 DEF SealInv, SealTypeOK
  <2>3. SealTypeOK'
    <3>1. sealFaults' \in 0..MaxSealFaults
      BY <1>2 DEF SealFault, SealInv, SealTypeOK
    <3> QED
      BY <1>1, <2>1, <3>1 DEF SealInv, SealTypeOK
  <2>4. Headers'
    BY <1>1, <2>1, <2>2 DEF SealInv, Headers
  <2>5. AtChunk'
    BY <1>1, <2>1, <2>2 DEF SealInv, AtChunk
  <2>6. Encrypted'
    BY <1>1, <2>1, <2>2, EncryptedStays
  <2> QED
    BY <2>3, <2>4, <2>5, <2>6 DEF SealInv
<1>3. CASE /\ sealed' = [sealed EXCEPT ![f] = <<HeaderAtom(header[f])>>]
           /\ sealPc' = [sealPc EXCEPT ![f] = "chunk"]
           /\ UNCHANGED <<sealResult, sealFaults>>
  <2>1. <<HeaderAtom(header[f])>> \in Seq(AtomType)
    <3>1. HeaderAtom(header[f]) \in AtomType
      BY <1>1 DEF HeaderAtom, AtomType
    <3> QED
      BY <3>1
  <2>2. /\ sealPc'[f] = "chunk" /\ \A g \in File : g # f => sealPc'[g] = sealPc[g]
        /\ sealed'[f] = <<HeaderAtom(header[f])>> /\ \A g \in File : g # f => sealed'[g] = sealed[g]
    BY <1>3 DEF SealInv, SealTypeOK
  <2>3. SealTypeOK'
    BY <1>1, <1>3, <2>1 DEF SealInv, SealTypeOK
  <2>4. Headers'
    BY <1>1, <1>3, <2>2 DEF SealInv, Headers
  <2>5. AtChunk'
    <3>1. Off(0) = 1 /\ Pos(0) = 0 /\ Len(<<HeaderAtom(header[f])>>) = 1
      BY PosNext DEF Off
    <3> QED
      BY <1>1, <2>2, <3>1 DEF SealInv, AtChunk
  <2>6. Encrypted'
    BY <1>1, <1>3, <2>2, EncryptedStays
  <2> QED
    BY <2>3, <2>4, <2>5, <2>6 DEF SealInv
<1> QED
  BY <1>2, <1>3 DEF SealHeader

\* What the three actions at a chunk have in common: the encryption of the next chunk joins the
\* others, and if the file goes on, then with the next index.
LEMMA EncryptedGrows ==
    ASSUME SealInv, NEW f \in File, sealPc[f] = "chunk",
           encs' \subseteq encs \cup {Encryption(f)}, UNCHANGED <<call, header>>,
           \A g \in File : g # f => sealPc'[g] = sealPc[g] /\ chunkIndex'[g] = chunkIndex[g],
           sealPc'[f] # "done" => chunkIndex'[f] = chunkIndex[f] + 1
    PROVE  Encrypted'
<1> SUFFICES ASSUME NEW e \in encs'
             PROVE  \E g \in File, k \in 0..MaxIndex :
                       /\ header[g] # NoResult
                       /\ e = EncOf(g, call[g], header[g], k)
                       /\ sealPc'[g] # "done" => k < chunkIndex'[g]
  BY DEF Encrypted
<1>1. CASE e \in encs
  <2>1. PICK g \in File, k \in 0..MaxIndex :
           /\ header[g] # NoResult
           /\ e = EncOf(g, call[g], header[g], k)
           /\ sealPc[g] # "done" => k < chunkIndex[g]
    BY <1>1 DEF SealInv, Encrypted
  <2>2. chunkIndex[g] \in Nat
    BY DEF SealInv, SealTypeOK
  <2>3. sealPc'[g] # "done" => k < chunkIndex'[g]
    BY <2>1, <2>2
  <2> QED
    BY <2>1, <2>3
<1>2. CASE e = Encryption(f)
  <2>1. /\ e = EncOf(f, call[f], header[f], chunkIndex[f]) /\ chunkIndex[f] \in 0..MaxIndex
        /\ header[f] # NoResult
    BY <1>2, ChunkAt
  <2>2. sealPc'[f] # "done" => chunkIndex[f] < chunkIndex'[f]
    BY <2>1
  <2> QED
    BY <2>1, <2>2
<1> QED
  BY <1>1, <1>2

\* A turn of the loop: the file is finished, or the next chunk begins where this one ended.
LEMMA ChunkKeeps == ASSUME SealInv, NEW f \in File, SealChunk(f) PROVE SealInv'
<1> DEFINE n == call[f].len
           k == chunkIndex[f]
<1>1. /\ sealPc[f] = "chunk" /\ encs' = encs \cup {Encryption(f)}
      /\ sealed' = [sealed EXCEPT ![f] = @ \o RecordAtoms(f)]
      /\ position' = [position EXCEPT ![f] = @ + ReadCount(f)]
      /\ UNCHANGED <<call, header, sealFaults>>
  BY DEF SealChunk
<1>2. /\ n \in Nat /\ k \in 0..MaxIndex /\ Pos(k) <= n /\ position[f] = Pos(k)
      /\ ReadCount(f) = Count(n, k) /\ (IsFinal(f) <=> Final(n, k))
      /\ RecordAtoms(f) = AtomsOf(f, n, k)
      /\ header[f] # NoResult
  BY <1>1, ChunkAt
<1>3. /\ Count(n, k) \in 0..kChunkSize /\ Pos(k) + Count(n, k) <= n
      /\ ~Final(n, k) => Count(n, k) = kChunkSize /\ Pos(k + 1) < n
      /\ Pos(k) \in Nat /\ Pos(k + 1) = Pos(k) + kChunkSize /\ k \in Nat
  <2>1. k \in Nat
    BY <1>2
  <2> HIDE DEF n, k
  <2> QED
    BY <1>2, <2>1, CountBounds, PosNext
<1>4. /\ AtomsOf(f, n, k) \in Seq(AtomType) /\ Len(AtomsOf(f, n, k)) = Count(n, k) + 2
  <2> HIDE DEF n, k
  <2> QED
    BY <1>2, <1>3, RecordAtomsType
<1>5. sealed[f] \in Seq(AtomType)
  BY DEF SealInv, SealTypeOK
<1>6. /\ sealed[f] \o AtomsOf(f, n, k) \in Seq(AtomType)
      /\ Len(sealed[f] \o AtomsOf(f, n, k)) = Len(sealed[f]) + Count(n, k) + 2
  <2>1. /\ sealed[f] \o AtomsOf(f, n, k) \in Seq(AtomType)
        /\ Len(sealed[f] \o AtomsOf(f, n, k)) = Len(sealed[f]) + Len(AtomsOf(f, n, k))
    BY ONLY <1>4, <1>5, ConcatProperties
  <2>2. Len(sealed[f]) \in Nat
    BY <1>5, LenProperties
  <2> QED
    BY <1>3, <1>4, <2>1, <2>2
<1>7. /\ \A g \in File : g # f => /\ sealed'[g] = sealed[g] /\ position'[g] = position[g]
      /\ sealed'[f] = sealed[f] \o AtomsOf(f, n, k) /\ position'[f] = Pos(k) + Count(n, k)
  BY <1>1, <1>2 DEF SealInv, SealTypeOK
<1>8. /\ chunkIndex' \in [File -> 0..MaxIndex]
      /\ \A g \in File : g # f => chunkIndex'[g] = chunkIndex[g]
      /\ ~Final(n, k) /\ k # MaxIndex => chunkIndex'[f] = k + 1
  <2>1. chunkIndex' = chunkIndex \/ chunkIndex' = [chunkIndex EXCEPT ![f] = NextIndex(k)]
    BY DEF SealChunk
  <2>2. ~Final(n, k) /\ k # MaxIndex => chunkIndex' = [chunkIndex EXCEPT ![f] = NextIndex(k)]
    BY <1>2 DEF SealChunk, SealTooLarge
  <2>3. NextIndex(k) \in 0..MaxIndex /\ (k # MaxIndex => NextIndex(k) = k + 1)
    BY <1>2, NextIndexPlain
  <2>4. chunkIndex \in [File -> 0..MaxIndex]
    BY DEF SealInv, SealTypeOK
  <2> QED
    BY <2>1, <2>2, <2>3, <2>4
<1>9. /\ \A g \in File : g # f => sealPc'[g] = sealPc[g] /\ sealResult'[g] = sealResult[g]
      /\ sealPc' \in [File -> {"idle", "header", "chunk", "done"}] /\ DOMAIN sealResult' = File
      /\ \/ sealPc'[f] = "done"
         \/ /\ ~Final(n, k) /\ k # MaxIndex /\ sealPc'[f] = "chunk"
            /\ sealResult'[f] = sealResult[f]
  <2>1. \/ \E r \in {"ok", "invalid_input"} :
              /\ sealPc' = [sealPc EXCEPT ![f] = "done"]
              /\ sealResult' = [sealResult EXCEPT ![f] = r]
        \/ ~Final(n, k) /\ k # MaxIndex /\ sealPc' = sealPc /\ sealResult' = sealResult
    BY <1>2 DEF SealChunk, SealReturn, SealTooLarge
  <2>2. /\ sealPc \in [File -> {"idle", "header", "chunk", "done"}] /\ DOMAIN sealResult = File
    BY DEF SealInv, SealTypeOK
  <2> QED
    BY <1>1, <2>1, <2>2
<1>10. SealTypeOK'
  <2>1. sealed' \in [File -> Seq(AtomType)]
    BY <1>1, <1>2, <1>6 DEF SealInv, SealTypeOK
  <2>2. position' \in [File -> Nat]
    <3>1. Pos(k) + Count(n, k) \in Nat
      BY <1>3
    <3> QED
      BY <1>1, <1>2, <3>1 DEF SealInv, SealTypeOK
  <2> QED
    BY <1>1, <1>8, <1>9, <2>1, <2>2 DEF SealInv, SealTypeOK
<1>11. Headers'
  BY <1>1, <1>2, <1>7, <1>8, <1>9 DEF SealInv, Headers
<1>12. AtChunk'
  <2>1. ASSUME sealPc'[f] = "chunk"
        PROVE  /\ position'[f] = Pos(chunkIndex'[f])
               /\ position'[f] < n /\ Len(sealed'[f]) = Off(chunkIndex'[f])
    <3>1. /\ ~Final(n, k) /\ chunkIndex'[f] = k + 1 /\ position'[f] = Pos(k + 1) /\ Pos(k + 1) < n
      BY <1>3, <1>7, <1>8, <1>9, <2>1
    <3>2. Len(sealed[f]) = Off(k)
      BY <1>1 DEF SealInv, AtChunk
    <3>3. Len(sealed'[f]) = Off(k + 1)
      <4>1. Len(sealed'[f]) = Off(k) + Count(n, k) + 2 /\ Count(n, k) = kChunkSize
        BY <1>3, <1>6, <1>7, <3>1, <3>2
      <4>2. Off(k + 1) = Off(k) + kChunkSize + 2
        <5> HIDE DEF k
        <5> QED
          BY <1>3 DEF Off
      <4> QED
        BY <4>1, <4>2
    <3> QED
      BY <3>1, <3>3
  <2>2. ASSUME NEW g \in File, g # f, sealPc'[g] = "chunk"
        PROVE  /\ position'[g] = Pos(chunkIndex'[g])
               /\ position'[g] = 0 \/ position'[g] < call'[g].len
               /\ Len(sealed'[g]) = Off(chunkIndex'[g])
    BY <1>1, <1>7, <1>8, <1>9, <2>2 DEF SealInv, AtChunk
  <2> QED
    BY <1>1, <2>1, <2>2 DEF AtChunk
<1>13. Encrypted'
  BY <1>1, <1>8, <1>9, EncryptedGrows
<1> QED
  BY <1>10, <1>11, <1>12, <1>13 DEF SealInv

\* A failure at a chunk ends the call, with or without the encryption and with any part of
\* the record written.
LEMMA ChunkFailureKeeps ==
    ASSUME SealInv, NEW f \in File, SealChunkFails(f) \/ SealWriteFails(f)
    PROVE  SealInv'
<1>1. /\ sealPc[f] = "chunk" /\ encs' \subseteq encs \cup {Encryption(f)}
      /\ sealPc' = [sealPc EXCEPT ![f] = "done"]
      /\ sealResult' = [sealResult EXCEPT ![f] = "backend_failure"]
      /\ UNCHANGED <<call, header, chunkIndex>>
  BY DEF SealChunkFails, SealWriteFails, SealReturn
<1>2. sealed[f] \in Seq(AtomType)
  BY DEF SealInv, SealTypeOK
<1>3. \E more \in Seq(AtomType) : sealed' = [sealed EXCEPT ![f] = @ \o more]
  <2>1. ASSUME NEW m \in 0..(Len(RecordAtoms(f)) - 1),
               sealed' = [sealed EXCEPT ![f] = @ \o SubSeq(RecordAtoms(f), 1, m)]
        PROVE  \E more \in Seq(AtomType) : sealed' = [sealed EXCEPT ![f] = @ \o more]
    <3>1. RecordAtoms(f) \in Seq(AtomType)
      <4> DEFINE n == call[f].len
                 k == chunkIndex[f]
      <4>1. n \in Nat /\ k \in 0..MaxIndex /\ Pos(k) <= n /\ RecordAtoms(f) = AtomsOf(f, n, k)
        BY <1>1, ChunkAt
      <4>2. k \in Nat
        BY <4>1
      <4> HIDE DEF n, k
      <4> QED
        BY <4>1, <4>2, RecordAtomsType
    <3>2. \A i \in 1..m : RecordAtoms(f)[i] \in AtomType
      <4>1. Len(RecordAtoms(f)) \in Nat /\ \A i \in 1..m : i \in 1..Len(RecordAtoms(f))
        BY <3>1, LenProperties
      <4> QED
        BY ONLY <3>1, <4>1, ElementOfSeq
    <3>3. SubSeq(RecordAtoms(f), 1, m) \in Seq(AtomType)
      <4>1. m \in Int
        BY <3>1, LenProperties
      <4> QED
        BY ONLY <3>2, <4>1, SubSeqProperties
    <3> QED
      BY <2>1, <3>3
  <2>2. CASE UNCHANGED sealed
    <3>1. << >> \in Seq(AtomType) /\ sealed[f] \o << >> = sealed[f]
      BY <1>2, ConcatEmptySeq
    <3>2. sealed = [sealed EXCEPT ![f] = @ \o << >>]
      BY <3>1 DEF SealInv, SealTypeOK
    <3> QED
      BY <2>2, <3>1, <3>2
  <2> QED
    BY <2>1, <2>2 DEF SealChunkFails, SealWriteFails
<1>4. PICK more \in Seq(AtomType) : sealed' = [sealed EXCEPT ![f] = @ \o more]
  BY <1>3
<1>5. sealed[f] \o more \in Seq(AtomType)
  BY <1>2, ConcatProperties
<1>6. /\ \A g \in File : g # f => sealed'[g] = sealed[g] /\ sealPc'[g] = sealPc[g]
      /\ \A g \in File : g # f => sealResult'[g] = sealResult[g]
      /\ sealPc'[f] = "done" /\ sealResult'[f] # "ok"
  BY <1>1, <1>4 DEF SealInv, SealTypeOK
<1>7. /\ position' \in [File -> Nat] /\ \A g \in File : g # f => position'[g] = position[g]
  <2>1. position' = position \/ position' = [position EXCEPT ![f] = @ + ReadCount(f)]
    BY DEF SealChunkFails, SealWriteFails
  <2>2. ReadCount(f) \in Nat /\ position \in [File -> Nat]
    BY <1>1, ChunkAt, CountBounds DEF SealInv, SealTypeOK
  <2> QED
    BY <2>1, <2>2
<1>8. SealTypeOK'
  <2>1. sealFaults' \in 0..MaxSealFaults
    BY DEF SealChunkFails, SealWriteFails, SealFault, SealInv, SealTypeOK
  <2>2. sealed' \in [File -> Seq(AtomType)]
    BY <1>4, <1>5 DEF SealInv, SealTypeOK
  <2> QED
    BY <1>1, <1>7, <2>1, <2>2 DEF SealInv, SealTypeOK
<1>9. Headers'
  <2>1. header[f] # NoResult
    BY <1>1, ChunkAt
  <2> QED
    BY <1>1, <1>6, <1>7, <2>1 DEF SealInv, Headers
<1>10. AtChunk'
  BY <1>1, <1>6, <1>7 DEF SealInv, AtChunk
<1>11. Encrypted'
  BY <1>1, <1>6, EncryptedGrows
<1> QED
  BY <1>8, <1>9, <1>10, <1>11 DEF SealInv

\* The whole of sealing keeps the invariant.
LEMMA NextSeal == SealInv /\ (SealNext \/ UNCHANGED <<encs, sealVars>>) => SealInv'
<1>1. ASSUME SealInv, UNCHANGED <<encs, sealVars>> PROVE SealInv'
  BY <1>1 DEF sealVars, SealInv, SealTypeOK, Headers, AtChunk, Encrypted
<1>2. ASSUME SealInv, NEW f \in File, SealStep(f) PROVE SealInv'
  BY <1>2, BeginKeeps, HeaderKeeps, ChunkKeeps, ChunkFailureKeeps DEF SealStep
<1> QED
  BY <1>1, <1>2 DEF SealNext

\* The invariant says enough: an encryption's key tells its file, its nonce the chunk.
LEMMA SealInvUnique == SealInv => NonceNeverReused
<1> SUFFICES ASSUME SealInv, NEW d \in encs, NEW e \in encs, d.key = e.key, d.nonce = e.nonce
             PROVE  d = e
  BY DEF NonceNeverReused
<1>1. PICK f \in File, k \in 0..MaxIndex :
         header[f] # NoResult /\ d = EncOf(f, call[f], header[f], k)
  BY DEF SealInv, Encrypted
<1>2. PICK g \in File, j \in 0..MaxIndex :
         header[g] # NoResult /\ e = EncOf(g, call[g], header[g], j)
  BY DEF SealInv, Encrypted
<1>3. /\ d.key = DeriveKey(call[f].secret, header[f]) /\ d.nonce = MakeNonce(header[f].prefix, k)
      /\ e.key = DeriveKey(call[g].secret, header[g]) /\ e.nonce = MakeNonce(header[g].prefix, j)
  BY <1>1, <1>2 DEF EncOf
<1>4. header[f].salt = header[g].salt /\ k = j
  <2>1. DeriveKey(call[f].secret, header[f])[3] = DeriveKey(call[g].secret, header[g])[3]
    BY <1>3
  <2>2. MakeNonce(header[f].prefix, k)[2] = MakeNonce(header[g].prefix, j)[2]
    BY <1>3
  <2>3. header[f].salt = header[g].salt
    BY <2>1 DEF DeriveKey
  <2>4. k = j
    BY <2>2 DEF MakeNonce
  <2> QED
    BY <2>3, <2>4
<1>5. f = g
  BY <1>1, <1>2, <1>4 DEF SealInv, Headers
<1> QED
  BY <1>1, <1>2, <1>4, <1>5

-----------------------------------------------------------------------------
(* What a written container looks like. *)

\* Record k of file f is all there, its chunk was encrypted, and if it is the final one the
\* call has succeeded and the container ends with it.
Complete(f, k) ==
    /\ Pos(k) <= call[f].len
    /\ Off(k) + Count(call[f].len, k) + 2 <= Len(sealed[f])
    /\ \A i \in 1..(Count(call[f].len, k) + 2) :
          sealed[f][Off(k) + i] = AtomsOf(f, call[f].len, k)[i]
    /\ EncOf(f, call[f], header[f], k) \in encs
    /\ Final(call[f].len, k) =>
          sealResult[f] = "ok" /\ Len(sealed[f]) = Off(k) + Count(call[f].len, k) + 2

\* Records 0 to k - 1 are complete and none of them is final.
CompleteTo(f, k) == \A j \in 0..(k - 1) : Complete(f, j) /\ ~Final(call[f].len, j)

\* A container begins with its header, has all its records when the call succeeds, and a tag
\* is in it only with the whole of its record.
LayoutOf(f) ==
    /\ sealed[f] # << >> => sealed[f][1] = HeaderAtom(header[f])
    /\ sealPc[f] = "chunk" => CompleteTo(f, chunkIndex[f])
    /\ sealResult[f] = "ok" =>
          \E k \in 0..MaxIndex : Complete(f, k) /\ Final(call[f].len, k) /\ CompleteTo(f, k)
    /\ \A i \in 1..Len(sealed[f]) : sealed[f][i].k = "tag" =>
          \E k \in 0..MaxIndex : sealed[f][i] = TagAtom(<<f, Pos(k)>>) /\ Complete(f, k)
Layout == \A f \in File : LayoutOf(f)

\* What a step leaves of file f: its call and header, and at least what is written of it;
\* all of that when the call has returned.
Continues(f) ==
    /\ call'[f] = call[f] /\ header'[f] = header[f] /\ encs \subseteq encs'
    /\ Len(sealed'[f]) \in Nat /\ Len(sealed[f]) <= Len(sealed'[f])
    /\ \A i \in 1..Len(sealed[f]) : sealed'[f][i] = sealed[f][i]
    /\ sealResult[f] = "ok" => sealResult'[f] = "ok" /\ Len(sealed'[f]) = Len(sealed[f])

\* A complete record stays complete.
LEMMA CompleteStays ==
    ASSUME SealInv, NEW f \in File, Continues(f), NEW k \in Nat, Complete(f, k)
    PROVE  Complete(f, k)'
<1> DEFINE n == call[f].len
<1>1. n \in Nat /\ Len(sealed[f]) \in Nat
  BY LenProperties DEF SealInv, SealTypeOK
<1>2. Pos(k) \in Nat /\ Off(k) \in Nat /\ Count(n, k) \in Nat /\ call'[f].len = n
  <2>1. Pos(k) <= n
    BY DEF Complete
  <2> HIDE DEF n
  <2>2. Pos(k) \in Nat /\ Count(n, k) \in Nat
    BY <1>1, <2>1, PosNext, CountBounds
  <2> QED
    BY <2>2 DEF Off, Continues, n
<1>3. \A i \in 1..(Count(n, k) + 2) : sealed'[f][Off(k) + i] = AtomsOf(f, n, k)[i]
  <2>1. \A i \in 1..(Count(n, k) + 2) : Off(k) + i \in 1..Len(sealed[f])
    BY <1>1, <1>2 DEF Complete
  <2> QED
    BY <2>1 DEF Complete, Continues
<1>4. Off(k) + Count(n, k) + 2 <= Len(sealed'[f])
  BY <1>1, <1>2 DEF Complete, Continues
<1>5. EncOf(f, call'[f], header'[f], k) \in encs'
  BY DEF Complete, Continues
<1> QED
  BY <1>2, <1>3, <1>4, <1>5 DEF Complete, Continues

\* A file that no part of the step is about keeps its layout.
LEMMA LayoutStays ==
    ASSUME SealInv, Layout, NEW f \in File, Continues(f),
           Len(sealed'[f]) = Len(sealed[f]), sealed[f] # << >> <=> sealed'[f] # << >>,
           sealPc'[f] = "chunk" => sealPc[f] = "chunk" /\ chunkIndex'[f] = chunkIndex[f],
           sealResult'[f] = "ok" => sealResult[f] = "ok"
    PROVE  LayoutOf(f)'
<1>0. LayoutOf(f)
  BY DEF Layout
<1>1. \A k \in Nat : Complete(f, k) => Complete(f, k)'
  BY CompleteStays
<1>2. \A k \in 0..MaxIndex : CompleteTo(f, k) => CompleteTo(f, k)'
  BY <1>1 DEF CompleteTo, Continues
<1>3. chunkIndex[f] \in 0..MaxIndex
  BY DEF SealInv, SealTypeOK
<1>4. sealed'[f] # << >> => sealed'[f][1] = HeaderAtom(header'[f])
  <2>1. sealed[f] \in Seq(AtomType)
    BY DEF SealInv, SealTypeOK
  <2>2. sealed[f] # << >> => 1 \in 1..Len(sealed[f])
    BY <2>1, EmptySeq
  <2> QED
    BY <1>0, <2>2 DEF LayoutOf, Continues
<1>5. sealPc'[f] = "chunk" => CompleteTo(f, chunkIndex[f])'
  BY <1>0, <1>1, <1>3 DEF LayoutOf, Continues, CompleteTo
<1>6. sealResult'[f] = "ok" =>
         \E k \in 0..MaxIndex :
             (Complete(f, k) /\ Final(call[f].len, k) /\ CompleteTo(f, k))'
  BY <1>0, <1>1, <1>2 DEF LayoutOf, Continues
<1>7. \A i \in 1..Len(sealed'[f]) : sealed'[f][i].k = "tag" =>
         \E k \in 0..MaxIndex : sealed'[f][i] = TagAtom(<<f, Pos(k)>>) /\ Complete(f, k)'
  <2> SUFFICES ASSUME NEW i \in 1..Len(sealed'[f]), sealed'[f][i].k = "tag"
               PROVE  \E k \in 0..MaxIndex :
                         sealed'[f][i] = TagAtom(<<f, Pos(k)>>) /\ Complete(f, k)'
    OBVIOUS
  <2>1. i \in 1..Len(sealed[f]) /\ sealed'[f][i] = sealed[f][i]
    BY DEF Continues
  <2>2. PICK k \in 0..MaxIndex : sealed[f][i] = TagAtom(<<f, Pos(k)>>) /\ Complete(f, k)
    BY <1>0, <2>1 DEF LayoutOf
  <2>3. Complete(f, k)'
    BY <1>1, <2>2
  <2> QED
    BY <2>1, <2>2, <2>3
<1> QED
  BY <1>4, <1>5, <1>6, <1>7 DEF LayoutOf

\* Nothing is written at first.
LEMMA InitLayout == SealInit => Layout
<1>1. SealInit => \A f \in File : sealed[f] = << >> /\ sealPc[f] = "idle" /\ sealResult[f] = NoResult
  BY DEF SealInit
<1> QED
  BY <1>1 DEF Layout, LayoutOf

\* The header is the first atom of a container.
LEMMA HeaderLayout ==
    ASSUME SealInv, Layout, NEW f \in File, SealHeader(f)
    PROVE  LayoutOf(f)'
<1>1. sealPc[f] = "header" /\ sealed[f] = << >> /\ chunkIndex[f] = 0 /\ sealResult[f] # "ok"
  BY DEF SealHeader, SealInv, Headers
<1>2. CASE SealReturn(f, "backend_failure") /\ UNCHANGED sealed
  <2>1. sealPc'[f] = "done" /\ sealResult'[f] # "ok" /\ sealed'[f] = << >>
    BY <1>1, <1>2 DEF SealReturn, SealInv, SealTypeOK
  <2> QED
    BY <2>1 DEF LayoutOf
<1>3. CASE sealed' = [sealed EXCEPT ![f] = <<HeaderAtom(header[f])>>] /\ UNCHANGED sealResult
  <2>1. /\ sealed'[f] = <<HeaderAtom(header[f])>> /\ sealResult'[f] # "ok"
        /\ chunkIndex'[f] = 0 /\ header'[f] = header[f]
    BY <1>1, <1>3 DEF SealHeader, SealInv, SealTypeOK
  <2>2. sealed'[f][1] = HeaderAtom(header[f]) /\ Len(sealed'[f]) = 1
    BY <2>1
  <2>3. sealed'[f][1].k = "header"
    BY <2>2 DEF HeaderAtom
  <2>4. CompleteTo(f, chunkIndex[f])'
    BY <2>1 DEF CompleteTo
  <2> QED
    BY <2>1, <2>2, <2>3, <2>4 DEF LayoutOf
<1> QED
  BY <1>2, <1>3 DEF SealHeader

\* Nothing is written before the header.
LEMMA BeginLayout ==
    ASSUME SealInv, Layout, NEW f \in File, SealBegin(f)
    PROVE  LayoutOf(f)'
<1>1. sealPc[f] = "idle" /\ sealed[f] = << >> /\ sealed'[f] = << >> /\ sealResult[f] # "ok"
  BY DEF SealBegin, SealInv, Headers
<1>2. sealPc'[f] # "chunk" /\ sealResult'[f] # "ok"
  BY <1>1 DEF SealBegin, SealReturn, SealInv, SealTypeOK
<1> QED
  BY <1>1, <1>2 DEF LayoutOf

\* A step of one call leaves the others alone.
LEMMA OthersKept ==
    ASSUME SealInv, NEW f \in File, SealStep(f), NEW g \in File, g # f
    PROVE  /\ call'[g] = call[g] /\ header'[g] = header[g] /\ sealed'[g] = sealed[g]
           /\ sealPc'[g] = sealPc[g] /\ sealResult'[g] = sealResult[g]
           /\ chunkIndex'[g] = chunkIndex[g] /\ encs \subseteq encs'
<1> USE DEF SealInv, SealTypeOK, SealReturn
<1>1. CASE SealBegin(f)
  BY <1>1 DEF SealBegin
<1>2. CASE SealHeader(f)
  BY <1>2 DEF SealHeader
<1>3. CASE SealChunk(f)
  BY <1>3 DEF SealChunk
<1>4. CASE SealChunkFails(f)
  BY <1>4 DEF SealChunkFails
<1>5. CASE SealWriteFails(f)
  BY <1>5 DEF SealWriteFails
<1> QED
  BY <1>1, <1>2, <1>3, <1>4, <1>5 DEF SealStep

\* A turn of the loop adds a complete record, and finishes the container if it is the final one.
LEMMA ChunkLayout ==
    ASSUME SealInv, Layout, NEW f \in File, SealChunk(f)
    PROVE  LayoutOf(f)'
<1>0. PICK n \in Nat, k \in 0..MaxIndex : n = call[f].len /\ k = chunkIndex[f]
  BY DEF SealInv, SealTypeOK
<1> DEFINE old == sealed[f]
           more == AtomsOf(f, n, k)
           new == sealed'[f]
<1>1. /\ sealPc[f] = "chunk" /\ encs' = encs \cup {Encryption(f)}
      /\ sealed' = [sealed EXCEPT ![f] = @ \o RecordAtoms(f)]
      /\ UNCHANGED <<call, header, sealFaults>>
  BY DEF SealChunk
<1>2. /\ n \in Nat /\ k \in 0..MaxIndex /\ k \in Nat /\ Pos(k) <= n
      /\ (IsFinal(f) <=> Final(n, k)) /\ Encryption(f) = EncOf(f, call[f], header[f], k)
      /\ RecordAtoms(f) = more /\ header[f] # NoResult
  BY <1>0, <1>1, ChunkAt
<1>3. Count(n, k) \in Nat /\ Pos(k) \in Nat /\ Off(k) \in Nat /\ Off(k) >= 1
  <2>1. Count(n, k) \in Nat /\ Pos(k) \in Nat
    BY <1>2, CountBounds, PosNext
  <2> QED
    BY <2>1 DEF Off
<1>4. /\ more \in Seq(AtomType) /\ Len(more) = Count(n, k) + 2
      /\ more[1].k = "record" /\ \A i \in 1..Count(n, k) : more[1 + i].k = "cipher"
      /\ more[Count(n, k) + 2] = TagAtom(<<f, Pos(k)>>)
  <2>1. /\ more \in Seq(AtomType) /\ Len(more) = Count(n, k) + 2
        /\ more[1] = RecordAtom(RecordOf(n, k))
        /\ \A i \in 1..Count(n, k) : more[1 + i] = CipherAtom(<<f, Pos(k)>>, i)
        /\ more[Count(n, k) + 2] = TagAtom(<<f, Pos(k)>>)
    BY <1>2, RecordAtomsType
  <2>2. more[1].k = "record"
    BY <2>1 DEF RecordAtom
  <2>3. \A i \in 1..Count(n, k) : more[1 + i].k = "cipher"
    <3> HIDE DEF more
    <3>1. ASSUME NEW i \in 1..Count(n, k) PROVE more[1 + i].k = "cipher"
      <4>1. more[1 + i] = CipherAtom(<<f, Pos(k)>>, i)
        BY <2>1
      <4> QED
        BY ONLY <4>1 DEF CipherAtom
    <3> QED
      BY <3>1
  <2> QED
    BY <2>1, <2>2, <2>3
<1>5. old \in Seq(AtomType) /\ Len(old) = Off(k) /\ Len(old) \in Nat
  BY <1>0, <1>1, LenProperties DEF SealInv, SealTypeOK, AtChunk
<1>6. new = old \o more
  BY <1>1, <1>2 DEF SealInv, SealTypeOK
<1> HIDE DEF old, more, new
<1>7. /\ new \in Seq(AtomType) /\ Len(new) = Off(k) + Count(n, k) + 2
      /\ \A i \in 1..Len(old) : new[i] = old[i]
      /\ \A i \in 1..(Count(n, k) + 2) : new[Off(k) + i] = more[i]
  <2>1. /\ new \in Seq(AtomType) /\ Len(new) = Len(old) + Len(more)
        /\ \A i \in 1..(Len(old) + Len(more)) :
              new[i] = IF i <= Len(old) THEN old[i] ELSE more[i - Len(old)]
    BY ONLY <1>4, <1>5, <1>6, ConcatProperties
  <2>2. \A i \in 1..Len(old) : new[i] = old[i]
    BY <1>3, <1>4, <1>5, <2>1
  <2>3. ASSUME NEW i \in 1..(Count(n, k) + 2) PROVE new[Off(k) + i] = more[i]
    <3>1. /\ Off(k) + i \in 1..(Len(old) + Len(more)) /\ ~(Off(k) + i <= Len(old))
          /\ (Off(k) + i) - Len(old) = i
      BY <1>3, <1>4, <1>5
    <3> QED
      BY <2>1, <3>1
  <2>4. Len(new) = Off(k) + Count(n, k) + 2
    BY <1>3, <1>4, <1>5, <2>1
  <2> QED
    BY <2>1, <2>2, <2>3, <2>4
<1>8. sealResult[f] # "ok"
  BY <1>1 DEF SealInv, Headers
<1>9. Continues(f)
  <2>1. Len(new) \in Nat /\ Len(old) <= Len(new)
    BY <1>3, <1>5, <1>7
  <2> QED
    BY <1>1, <1>7, <1>8, <2>1 DEF Continues, old, new
<1>10. Final(n, k) => sealResult'[f] = "ok"
  <2>1. Final(n, k) => sealResult' = [sealResult EXCEPT ![f] = "ok"]
    BY <1>2 DEF SealChunk, SealReturn
  <2> QED
    BY <2>1 DEF SealInv, SealTypeOK
<1>11. ~Final(n, k) => sealResult'[f] # "ok"
  <2>1. ~Final(n, k) => \/ sealResult' = sealResult
                       \/ sealResult' = [sealResult EXCEPT ![f] = "invalid_input"]
    BY <1>2 DEF SealChunk, SealReturn
  <2> QED
    BY <1>8, <2>1 DEF SealInv, SealTypeOK
<1>12. Complete(f, k)'
  <2>1. call'[f].len = n /\ header'[f] = header[f] /\ EncOf(f, call'[f], header'[f], k) \in encs'
    BY <1>0, <1>1, <1>2
  <2>2. Final(n, k) => sealResult'[f] = "ok" /\ Len(sealed'[f]) = Off(k) + Count(n, k) + 2
    BY <1>7, <1>10 DEF new
  <2>3. Off(k) + Count(n, k) + 2 <= Len(sealed'[f])
    BY <1>3, <1>7 DEF new
  <2>4. \A i \in 1..(Count(n, k) + 2) : sealed'[f][Off(k) + i] = AtomsOf(f, n, k)[i]
    BY <1>7 DEF new, more
  <2> QED
    BY <1>2, <2>1, <2>2, <2>3, <2>4 DEF Complete
<1>13. \A j \in 0..(k - 1) : Complete(f, j)' /\ ~Final(n, j)
  <2>1. \A j \in 0..(k - 1) : Complete(f, j) /\ ~Final(n, j)
    BY <1>0, <1>1 DEF Layout, LayoutOf, CompleteTo
  <2>2. \A j \in 0..(k - 1) : Complete(f, j)'
    BY <1>9, <2>1, CompleteStays
  <2> QED
    BY <2>1, <2>2
<1>14. sealed'[f] # << >> => sealed'[f][1] = HeaderAtom(header'[f])
  <2>1. 1 \in 1..Len(old) /\ old # << >>
    BY <1>3, <1>5
  <2> QED
    BY <1>1, <1>7, <2>1 DEF Layout, LayoutOf, old, new
<1>15. sealPc'[f] = "chunk" => CompleteTo(f, chunkIndex[f])'
  <2> SUFFICES ASSUME sealPc'[f] = "chunk" PROVE CompleteTo(f, chunkIndex[f])'
    OBVIOUS
  <2>1. ~Final(n, k) /\ k # MaxIndex
    BY <1>0, <1>2 DEF SealChunk, SealReturn, SealTooLarge, SealInv, SealTypeOK
  <2>2. chunkIndex'[f] = k + 1
    <3>1. chunkIndex' = [chunkIndex EXCEPT ![f] = NextIndex(k)]
      BY <1>0, <2>1 DEF SealChunk, SealTooLarge
    <3> QED
      BY <2>1, <3>1, NextIndexPlain DEF SealInv, SealTypeOK
  <2>3. \A j \in 0..k : Complete(f, j)' /\ ~Final(n, j)
    BY <1>12, <1>13, <2>1
  <2>4. call'[f].len = n
    BY <1>0, <1>1
  <2> QED
    BY <2>2, <2>3, <2>4 DEF CompleteTo
<1>16. sealResult'[f] = "ok" =>
         \E j \in 0..MaxIndex : (Complete(f, j) /\ Final(call[f].len, j) /\ CompleteTo(f, j))'
  <2>1. CompleteTo(f, k)'
    BY <1>0, <1>1, <1>13 DEF CompleteTo
  <2>2. sealResult'[f] = "ok" => Final(call'[f].len, k)
    BY <1>0, <1>1, <1>11
  <2> QED
    BY <1>12, <2>1, <2>2
<1>17. ASSUME NEW i \in 1..Len(new), new[i].k = "tag"
       PROVE  \E j \in 0..MaxIndex : new[i] = TagAtom(<<f, Pos(j)>>) /\ Complete(f, j)'
  <2>1. CASE i \in 1..Len(old)
    <3>1. PICK j \in 0..MaxIndex : old[i] = TagAtom(<<f, Pos(j)>>) /\ Complete(f, j)
      BY <1>7, <1>17, <2>1 DEF Layout, LayoutOf, old
    <3>2. Complete(f, j)'
      BY <1>9, <3>1, CompleteStays
    <3> QED
      BY <1>7, <2>1, <3>1, <3>2
  <2>2. CASE i \notin 1..Len(old)
    <3>1. i - Off(k) \in 1..(Count(n, k) + 2) /\ i = Off(k) + (i - Off(k))
      BY <1>3, <1>5, <1>7, <2>2
    <3>2. new[i] = more[i - Off(k)]
      BY <1>7, <3>1
    <3>3. i - Off(k) = 1 \/ i - Off(k) = Count(n, k) + 2 \/ i - Off(k) - 1 \in 1..Count(n, k)
      BY <1>3, <3>1
    <3>4. i - Off(k) = 1 + (i - Off(k) - 1)
      BY <3>1, <1>3
    <3>5. i - Off(k) = Count(n, k) + 2
      BY <1>4, <1>17, <3>2, <3>3, <3>4
    <3> QED
      BY <1>4, <1>12, <3>2, <3>5
  <2> QED
    BY <2>1, <2>2
<1> QED
  BY <1>14, <1>15, <1>16, <1>17 DEF LayoutOf, new

\* A failing write leaves a record without its tag.
LEMMA FailureLayout ==
    ASSUME SealInv, Layout, NEW f \in File, SealChunkFails(f) \/ SealWriteFails(f)
    PROVE  LayoutOf(f)'
<1>0. PICK n \in Nat, k \in 0..MaxIndex : n = call[f].len /\ k = chunkIndex[f]
  BY DEF SealInv, SealTypeOK
<1>1. /\ sealPc[f] = "chunk" /\ encs \subseteq encs' /\ UNCHANGED <<call, header, chunkIndex>>
      /\ sealPc' = [sealPc EXCEPT ![f] = "done"]
      /\ sealResult' = [sealResult EXCEPT ![f] = "backend_failure"]
  BY DEF SealChunkFails, SealWriteFails, SealReturn
<1>2. sealPc'[f] = "done" /\ sealResult'[f] # "ok" /\ sealResult[f] # "ok"
  BY <1>1 DEF SealInv, SealTypeOK, Headers
<1>3. /\ k \in Nat /\ Pos(k) <= n /\ RecordAtoms(f) = AtomsOf(f, n, k)
  BY <1>0, <1>1, ChunkAt
<1>4. /\ sealed[f] \in Seq(AtomType) /\ Len(sealed[f]) \in Nat /\ Len(sealed[f]) = Off(k)
  BY <1>0, <1>1, LenProperties DEF SealInv, SealTypeOK, AtChunk
<1>5. CASE UNCHANGED sealed
  <2>1. Continues(f)
    BY <1>1, <1>2, <1>4, <1>5 DEF Continues
  <2> QED
    BY <1>2, <1>5, <2>1, LayoutStays
<1>6. ASSUME NEW m \in 0..(Len(RecordAtoms(f)) - 1),
             sealed' = [sealed EXCEPT ![f] = @ \o SubSeq(RecordAtoms(f), 1, m)]
      PROVE  LayoutOf(f)'
  <2> DEFINE old == sealed[f]
             most == AtomsOf(f, n, k)
             more == SubSeq(most, 1, m)
             new == sealed'[f]
  <2>1. /\ most \in Seq(AtomType) /\ Len(most) = Count(n, k) + 2
        /\ most[1] = RecordAtom(RecordOf(n, k))
        /\ \A i \in 1..Count(n, k) : most[1 + i] = CipherAtom(<<f, Pos(k)>>, i)
    BY <1>3, RecordAtomsType
  <2>2. Count(n, k) \in Nat /\ m \in Nat /\ m <= Count(n, k) + 1 /\ m \in Int
    BY <1>3, <1>6, <2>1, CountBounds
  <2>3. new = old \o more
    BY <1>3, <1>6 DEF SealInv, SealTypeOK
  <2> HIDE DEF most
  <2>4. \A i \in 1..m : most[i] \in AtomType
    <3>1. \A i \in 1..m : i \in 1..Len(most)
      BY <2>1, <2>2
    <3> QED
      BY ONLY <2>1, <3>1, ElementOfSeq
  <2>5. /\ more \in Seq(AtomType) /\ Len(more) = m /\ \A i \in 1..m : more[i] = most[i]
    <3>1. /\ more \in Seq(AtomType) /\ Len(more) = IF 1 <= m THEN m - 1 + 1 ELSE 0
          /\ \A i \in 1..(m - 1 + 1) : more[i] = most[1 + i - 1]
      BY ONLY <2>2, <2>4, SubSeqProperties
    <3> HIDE DEF more
    <3> QED
      BY ONLY <2>2, <3>1
  <2> HIDE DEF old, more, new
  <2>6. /\ Len(new) = Len(old) + m /\ \A i \in 1..Len(old) : new[i] = old[i]
        /\ \A i \in 1..(Len(old) + m) : i \notin 1..Len(old) =>
              i - Len(old) \in 1..m /\ new[i] = most[i - Len(old)]
    <3>1. old \in Seq(AtomType) /\ Len(old) \in Nat
      BY <1>4 DEF old
    <3>2. /\ Len(new) = Len(old) + Len(more)
          /\ \A i \in 1..(Len(old) + Len(more)) :
                new[i] = IF i <= Len(old) THEN old[i] ELSE more[i - Len(old)]
      BY ONLY <2>3, <2>5, <3>1, ConcatProperties
    <3> QED
      BY ONLY <2>2, <2>5, <3>1, <3>2
  <2>7. Continues(f)
    <3>1. Len(old) \in Nat /\ Len(old) <= Len(new) /\ Len(new) \in Nat
      BY <1>4, <2>2, <2>6 DEF old
    <3> QED
      BY <1>1, <1>2, <2>6, <3>1 DEF Continues, old, new
  <2>8. new # << >> => new[1] = HeaderAtom(header'[f])
    <3>1. Off(k) >= 1
      <4>1. Pos(k) \in Nat
        BY <1>3, PosNext
      <4> QED
        BY <1>3, <4>1 DEF Off
    <3>2. 1 \in 1..Len(old) /\ old # << >>
      BY <1>4, <3>1 DEF old
    <3> QED
      BY <1>1, <2>6, <3>2 DEF Layout, LayoutOf, old
  <2>9. ASSUME NEW i \in 1..Len(new), new[i].k = "tag"
        PROVE  \E j \in 0..MaxIndex : new[i] = TagAtom(<<f, Pos(j)>>) /\ Complete(f, j)'
    <3>1. CASE i \in 1..Len(old)
      <4>1. PICK j \in 0..MaxIndex : old[i] = TagAtom(<<f, Pos(j)>>) /\ Complete(f, j)
        BY <2>6, <2>9, <3>1 DEF Layout, LayoutOf, old
      <4>2. Complete(f, j)'
        BY <2>7, <4>1, CompleteStays
      <4> QED
        BY <2>6, <3>1, <4>1, <4>2
    <3>2. CASE i \notin 1..Len(old)
      <4> DEFINE j == i - Len(old)
      <4>1. j \in 1..m /\ new[i] = most[j]
        BY <2>6, <3>2
      <4>2. most[j].k \in {"record", "cipher"}
        <5>1. CASE j = 1
          BY ONLY <2>1, <5>1 DEF RecordAtom
        <5>2. CASE j # 1
          <6>1. j - 1 \in 1..Count(n, k) /\ 1 + (j - 1) = j
            BY <2>2, <4>1, <5>2
          <6>2. most[j] = CipherAtom(<<f, Pos(k)>>, j - 1)
            BY <2>1, <6>1
          <6> QED
            BY ONLY <6>2 DEF CipherAtom
        <5> QED
          BY <5>1, <5>2
      <4> QED
        BY <2>9, <4>1, <4>2
    <3> QED
      BY <3>1, <3>2
  <2> QED
    BY <1>2, <2>8, <2>9 DEF LayoutOf, new
<1> QED
  BY <1>5, <1>6 DEF SealChunkFails, SealWriteFails

\* The whole of sealing keeps the layout.
LEMMA NextLayout ==
    SealInv /\ Layout /\ (SealNext \/ UNCHANGED <<encs, sealVars>>) => Layout'
<1>1. ASSUME SealInv, Layout, UNCHANGED <<encs, sealVars>> PROVE Layout'
  BY <1>1 DEF sealVars, Layout, LayoutOf, CompleteTo, Complete
<1>2. ASSUME SealInv, Layout, NEW f \in File, SealStep(f) PROVE Layout'
  <2>1. ASSUME NEW g \in File, g # f PROVE LayoutOf(g)'
    <3>1. /\ call'[g] = call[g] /\ header'[g] = header[g] /\ sealed'[g] = sealed[g]
          /\ sealPc'[g] = sealPc[g] /\ sealResult'[g] = sealResult[g]
          /\ chunkIndex'[g] = chunkIndex[g] /\ encs \subseteq encs'
      BY <1>2, <2>1, OthersKept
    <3>2. Len(sealed[g]) \in Nat
      BY <1>2, LenProperties DEF SealInv, SealTypeOK
    <3>3. Continues(g)
      BY <3>1, <3>2 DEF Continues
    <3> QED
      BY <1>2, <3>1, <3>3, LayoutStays
  <2>2. LayoutOf(f)'
    <3>1. CASE SealBegin(f)
      BY <1>2, <3>1, BeginLayout
    <3> QED
      BY <1>2, <3>1, HeaderLayout, ChunkLayout, FailureLayout DEF SealStep
  <2> QED
    BY <2>1, <2>2 DEF Layout
<1> QED
  BY <1>1, <1>2 DEF SealNext
=============================================================================

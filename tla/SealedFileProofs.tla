-------------------------- MODULE SealedFileProofs --------------------------
(***************************************************************************)
(* Proofs about SealedFile, for any files, secrets, salts, chunk size,     *)
(* index width, faults and changes made to a container.                    *)
(***************************************************************************)
EXTENDS SealedFile, SealStreamProofs

USE OpenFaultsAssumption, NoOutcomeAssumption, EditsAssumption

-----------------------------------------------------------------------------
(* Plaintexts. *)

\* The first p bytes of a plaintext of n bytes.
Beginning(f, n, p) == SubSeq(Text(f, n), 1, p)

\* A plaintext is a sequence of n different bytes of its own file.
LEMMA TextType ==
    ASSUME NEW f \in File, NEW n \in Nat
    PROVE  /\ Text(f, n) \in Seq(File \X Nat) /\ Len(Text(f, n)) = n
           /\ \A i \in 1..n : Text(f, n)[i] = <<f, i>>
<1>1. Text(f, n) \in [1..n -> File \X Nat]
  BY DEF Text
<1>2. Text(f, n) \in Seq(File \X Nat)
  BY <1>1, SeqDef
<1>3. Len(Text(f, n)) = n
  BY <1>1, <1>2, LenProperties
<1> QED
  BY <1>2, <1>3 DEF Text

\* A piece of a plaintext is a sequence of the bytes from p + 1 to m.
LEMMA TextPiece ==
    ASSUME NEW f \in File, NEW n \in Nat, NEW p \in 0..n, NEW m \in p..n
    PROVE  /\ SubSeq(Text(f, n), p + 1, m) \in Seq(File \X Nat)
           /\ Len(SubSeq(Text(f, n), p + 1, m)) = m - p
           /\ \A i \in 1..(m - p) : SubSeq(Text(f, n), p + 1, m)[i] = <<f, p + i>>
<1> DEFINE T == Text(f, n)
<1>1. T \in Seq(File \X Nat) /\ Len(T) = n /\ \A i \in 1..n : T[i] = <<f, i>>
  BY TextType
<1> HIDE DEF T
<1>2. \A i \in (p + 1)..m : T[i] \in File \X Nat
  BY <1>1
<1>3. p + 1 \in Int /\ m \in Int
  OBVIOUS
<1>4. /\ SubSeq(T, p + 1, m) \in Seq(File \X Nat)
      /\ Len(SubSeq(T, p + 1, m)) = IF p + 1 <= m THEN m - (p + 1) + 1 ELSE 0
      /\ \A i \in 1..(m - (p + 1) + 1) : SubSeq(T, p + 1, m)[i] = T[(p + 1) + i - 1]
  BY ONLY <1>2, <1>3, SubSeqProperties
<1> DEFINE S == SubSeq(T, p + 1, m)
<1>5. ASSUME NEW i \in 1..(m - p) PROVE S[i] = <<f, p + i>>
  <2>1. i \in 1..(m - (p + 1) + 1) /\ (p + 1) + i - 1 = p + i /\ p + i \in 1..n
    OBVIOUS
  <2> QED
    BY <1>1, <1>4, <2>1
<1>6. Len(S) = m - p
  BY <1>4
<1> QED
  BY <1>4, <1>5, <1>6 DEF T

\* Accepting the next piece of a plaintext makes a longer beginning of it.
LEMMA TextGrows ==
    ASSUME NEW f \in File, NEW n \in Nat, NEW p \in 0..n, NEW m \in p..n
    PROVE  Beginning(f, n, p) \o SubSeq(Text(f, n), p + 1, m) = Beginning(f, n, m)
<1>1. Text(f, n) \in Seq(File \X Nat) /\ Len(Text(f, n)) = n
  BY TextType
<1>2. 1 \in 1..(n + 1) /\ p \in (1 - 1)..n /\ m \in p..n
  OBVIOUS
<1> QED
  BY <1>1, <1>2, ConcatAdjacentSubSeq DEF Beginning

\* The first p bytes are p bytes, a prefix, empty only if p is 0.
LEMMA TextBegins ==
    ASSUME NEW f \in File, NEW n \in Nat, NEW p \in 0..n
    PROVE  /\ Beginning(f, n, p) \in Seq(File \X Nat) /\ Len(Beginning(f, n, p)) = p
           /\ IsPrefix(Beginning(f, n, p), Text(f, n))
           /\ p > 0 => Beginning(f, n, p)[1] = <<f, 1>>
           /\ Beginning(f, n, p) = << >> <=> p = 0
           /\ Beginning(f, n, n) = Text(f, n)
<1> DEFINE B == Beginning(f, n, p)
<1>1. Text(f, n) \in Seq(File \X Nat) /\ Len(Text(f, n)) = n
  BY TextType
<1>2. /\ B \in Seq(File \X Nat) /\ Len(B) = p - 0
      /\ \A i \in 1..(p - 0) : B[i] = <<f, 0 + i>>
  <2>1. 0 \in 0..n /\ p \in 0..n
    OBVIOUS
  <2>2. /\ SubSeq(Text(f, n), 0 + 1, p) \in Seq(File \X Nat)
        /\ Len(SubSeq(Text(f, n), 0 + 1, p)) = p - 0
        /\ \A i \in 1..(p - 0) : SubSeq(Text(f, n), 0 + 1, p)[i] = <<f, 0 + i>>
    BY <2>1, TextPiece
  <2>3. SubSeq(Text(f, n), 0 + 1, p) = B
    BY DEF Beginning
  <2> QED
    BY <2>2, <2>3
<1>3. Beginning(f, n, n) = Text(f, n)
  BY <1>1, SubSeqFull DEF Beginning
<1>4. SubSeq(B, 1, Len(B)) = B
  BY <1>2, SubSeqFull
<1>5. Len(B) = p
  BY <1>2
<1>6. IsPrefix(B, Text(f, n))
  BY <1>1, <1>4, <1>5 DEF IsPrefix, Beginning
<1>7. p > 0 => B[1] = <<f, 1>>
  BY <1>2
<1>8. B = << >> <=> p = 0
  BY <1>2, <1>5, EmptySeq
<1> QED
  BY <1>2, <1>3, <1>5, <1>6, <1>7, <1>8

\* A stream that took part of the next piece holds a beginning of the plaintext, too.
LEMMA TextPartly ==
    ASSUME NEW f \in File, NEW n \in Nat, NEW p \in 0..n, NEW m \in p..n, NEW i \in 0..(m - p)
    PROVE  Beginning(f, n, p) \o SubSeq(SubSeq(Text(f, n), p + 1, m), 1, i)
               = Beginning(f, n, p + i)
<1> DEFINE T == Text(f, n)
           P == SubSeq(T, p + 1, m)
<1>1. /\ P \in Seq(File \X Nat) /\ Len(P) = m - p
      /\ \A j \in 1..(m - p) : P[j] = <<f, p + j>>
  BY TextPiece
<1>2. p + i \in p..n
  OBVIOUS
<1>3. /\ SubSeq(T, p + 1, p + i) \in Seq(File \X Nat) /\ Len(SubSeq(T, p + 1, p + i)) = i
      /\ \A j \in 1..i : SubSeq(T, p + 1, p + i)[j] = <<f, p + j>>
  <2> DEFINE q == p + i
  <2>1. q \in p..n /\ q - p = i
    BY <1>2
  <2> HIDE DEF q
  <2>2. /\ SubSeq(T, p + 1, q) \in Seq(File \X Nat) /\ Len(SubSeq(T, p + 1, q)) = q - p
        /\ \A j \in 1..(q - p) : SubSeq(T, p + 1, q)[j] = <<f, p + j>>
    BY ONLY <2>1, TextPiece, f \in File, n \in Nat, p \in 0..n
  <2>3. /\ SubSeq(T, p + 1, q) \in Seq(File \X Nat) /\ Len(SubSeq(T, p + 1, q)) = i
        /\ \A j \in 1..i : SubSeq(T, p + 1, q)[j] = <<f, p + j>>
    BY ONLY <2>1, <2>2
  <2> QED
    BY <2>3 DEF q
<1> HIDE DEF P
<1>4. \A j \in 1..i : P[j] \in File \X Nat
  BY <1>1
<1>5. /\ SubSeq(P, 1, i) \in Seq(File \X Nat)
      /\ Len(SubSeq(P, 1, i)) = IF 1 <= i THEN i - 1 + 1 ELSE 0
      /\ \A j \in 1..(i - 1 + 1) : SubSeq(P, 1, i)[j] = P[1 + j - 1]
  <2>1. 1 \in Int /\ i \in Int
    OBVIOUS
  <2> QED
    BY ONLY <1>4, <2>1, SubSeqProperties
<1> DEFINE Q == SubSeq(P, 1, i)
           R == SubSeq(T, p + 1, p + i)
<1>6. Q \in Seq(File \X Nat) /\ Len(Q) = i /\ \A j \in 1..i : Q[j] = P[j]
  BY <1>5
<1>7. R \in Seq(File \X Nat) /\ Len(R) = i /\ \A j \in 1..i : R[j] = <<f, p + j>>
  BY <1>3
<1> HIDE DEF Q, R
<1>8. \A j \in 1..Len(Q) : Q[j] = R[j]
  <2> SUFFICES ASSUME NEW j \in 1..Len(Q) PROVE Q[j] = R[j]
    OBVIOUS
  <2>1. j \in 1..(m - p) /\ j \in 1..i
    BY <1>6
  <2> QED
    BY <1>1, <1>6, <1>7, <2>1
<1>9. Q = R
  BY ONLY <1>6, <1>7, <1>8, SeqEqual
<1> QED
  BY <1>2, <1>9, TextGrows DEF P, Q, R

\* A plaintext tells the file it belongs to.
LEMMA TextTells ==
    ASSUME NEW f \in File, NEW n \in Nat, NEW p \in 1..n,
           NEW g \in File, NEW m \in Nat, Beginning(f, n, p) = Text(g, m)
    PROVE  f = g /\ p = m
<1>1. Len(Beginning(f, n, p)) = p /\ Beginning(f, n, p)[1] = <<f, 1>>
  <2>1. p \in 0..n /\ p > 0
    OBVIOUS
  <2> QED
    BY <2>1, TextBegins
<1>2. Len(Text(g, m)) = m /\ \A i \in 1..m : Text(g, m)[i] = <<g, i>>
  BY TextType
<1>3. p = m
  BY <1>1, <1>2
<1>4. <<f, 1>> = <<g, 1>>
  BY <1>1, <1>2, <1>3
<1> QED
  BY <1>3, <1>4

-----------------------------------------------------------------------------
(* The inductive invariant. *)

OpenTypeOK ==
    /\ openPc \in {"idle", "header", "record", "done"}
    /\ asked \in [format : Format \cup {NoOutcome}, secret : Secret \cup {NoOutcome},
                  aad : CallerAad \cup {NoOutcome}]
    /\ cursor \in 0..Len(container)
    /\ expectedIndex \in 0..MaxIndex
    /\ openFaults \in 0..MaxOpenFaults

\* Containers are put together when all files are sealed; a call has done nothing before it
\* has parsed the header.
Stages ==
    /\ draft # << >> \/ openPc # "idle" => AllSealed
    /\ openPc = "idle" => container = << >>
    /\ openPc # "done" => openResult = NoOutcome
    /\ openPc \in {"idle", "header"} => cursor = 0 /\ expectedIndex = 0 /\ opened = << >>

\* No tag can be made up: one that is found in a container comes from a complete record.
KnownAtom(a) ==
    a.k = "tag" => \E f \in File, k \in 0..MaxIndex : a = TagAtom(<<f, Pos(k)>>) /\ Complete(f, k)
KnownAtoms(c) == c \in Seq(AtomType) /\ \A i \in 1..Len(c) : KnownAtom(c[i])

\* The container has been the sealed file f up to the cursor, and so has the output.
InFile(f) ==
    /\ Opens(f)
    /\ cursor = Off(expectedIndex) /\ cursor <= Len(sealed[f])
    /\ \A i \in 1..cursor : container[i] = sealed[f][i]
    /\ Pos(expectedIndex) < call[f].len
    /\ opened = Beginning(f, call[f].len, Pos(expectedIndex))

\* Before a record: either only the header was read, or authentic records of one file.
AtRecord ==
    openPc = "record" =>
        /\ container # << >> /\ container[1].k = "header"
        /\ ParsesAs(container[1].header, asked.format)
        /\ \/ cursor = 1 /\ expectedIndex = 0 /\ opened = << >>
           \/ expectedIndex > 0 /\ \E f \in File : InFile(f)

\* At the end: the output is a beginning of a plaintext, all of it only from its own
\* container.
Released ==
    /\ openPc = "done" /\ opened # << >> =>
          \E f \in File : \E p \in 1..call[f].len :
              /\ Opens(f) /\ opened = Beginning(f, call[f].len, p)
              /\ p = call[f].len => SealedAs(f, container)
    /\ AcceptsOnlySealed

FileInv ==
    /\ SealInv /\ Layout
    /\ OpenTypeOK /\ Stages
    /\ KnownAtoms(draft) /\ KnownAtoms(container)
    /\ AtRecord /\ Released

-----------------------------------------------------------------------------
(* What an authentic record tells. *)

\* The record at the cursor is record k of file f, where the container has got to; the
\* container is f's if it is the final one.
IsRecord(f, k, pt) ==
    /\ k = expectedIndex /\ Opens(f) /\ Pos(k) <= call[f].len /\ cursor = Off(k)
    /\ opened = Beginning(f, call[f].len, Pos(k))
    /\ Record = RecordOf(call[f].len, k)
    /\ pt = SubSeq(Text(f, call[f].len), Pos(k) + 1, Pos(k) + Count(call[f].len, k))
    /\ Complete(f, k)
    /\ \A i \in 1..(cursor + RecordLength) : container[i] = sealed[f][i]
    /\ Final(call[f].len, k) => SealedAs(f, container)

\* What decryption accepts was encrypted for the chunk the opener is at, under the header,
\* the secret and the associated data it uses.
LEMMA RecordAuthentic ==
    ASSUME FileInv, openPc = "record", WellFormed, NEW pt \in Authentic
    PROVE  \E f \in File, k \in 0..MaxIndex :
              /\ k = expectedIndex /\ Opens(f)
              /\ Record = RecordOf(call[f].len, k)
              /\ pt = SubSeq(Text(f, call[f].len), Pos(k) + 1, Pos(k) + Count(call[f].len, k))
              /\ RecordTag = TagAtom(<<f, Pos(k)>>)
              /\ RecordCiphertext = Ciphertext(<<f, Pos(k)>>, Len(pt))
<1>1. PICK e \in encs :
         /\ pt = e.pt
         /\ e.key = DeriveKey(asked.secret, FileHeader)
         /\ e.aad = MakeChunkAad(container[1], Record, asked.aad)
         /\ RecordTag = TagAtom(e.id) /\ RecordCiphertext = Ciphertext(e.id, Len(e.pt))
  BY DEF Authentic, Verifies
<1>2. PICK f \in File, k \in 0..MaxIndex :
         header[f] # NoResult /\ e = EncOf(f, call[f], header[f], k)
  BY DEF FileInv, SealInv, Encrypted
<1>3. /\ e.id = <<f, Pos(k)>> /\ e.key = DeriveKey(call[f].secret, header[f])
      /\ e.aad = MakeChunkAad(HeaderAtom(header[f]), RecordOf(call[f].len, k), call[f].aad)
      /\ pt = SubSeq(Text(f, call[f].len), Pos(k) + 1, Pos(k) + Count(call[f].len, k))
  BY <1>1, <1>2 DEF EncOf
<1>4. /\ container[1] = HeaderAtom(header[f]) /\ Record = RecordOf(call[f].len, k)
      /\ asked.aad = call[f].aad
  <2>1. /\ MakeChunkAad(container[1], Record, asked.aad)[1]
              = MakeChunkAad(HeaderAtom(header[f]), RecordOf(call[f].len, k), call[f].aad)[1]
        /\ MakeChunkAad(container[1], Record, asked.aad)[2]
              = MakeChunkAad(HeaderAtom(header[f]), RecordOf(call[f].len, k), call[f].aad)[2]
        /\ MakeChunkAad(container[1], Record, asked.aad)[3]
              = MakeChunkAad(HeaderAtom(header[f]), RecordOf(call[f].len, k), call[f].aad)[3]
    BY <1>1, <1>3
  <2> QED
    BY <2>1 DEF MakeChunkAad
<1>5. asked.secret = call[f].secret
  <2>1. DeriveKey(asked.secret, FileHeader)[2] = DeriveKey(call[f].secret, header[f])[2]
    BY <1>1, <1>3
  <2> QED
    BY <2>1 DEF DeriveKey
<1>6. asked.format = header[f].format /\ container # << >>
  <2>1. container[1].header = header[f]
    BY <1>4 DEF HeaderAtom
  <2> QED
    BY <2>1 DEF FileInv, AtRecord, ParsesAs
<1>7. asked = [format |-> header[f].format, secret |-> call[f].secret, aad |-> call[f].aad]
  BY <1>4, <1>5, <1>6 DEF FileInv, OpenTypeOK
<1>8. Opens(f)
  BY <1>2, <1>4, <1>6, <1>7 DEF Opens
<1>9. k = expectedIndex
  <2>1. RecordOf(call[f].len, k).index = k
    BY DEF RecordOf, MakeRecordHeader
  <2> QED
    BY <1>4, <2>1 DEF WellFormed, InSequence
<1> QED
  BY <1>1, <1>3, <1>4, <1>8, <1>9

\* Opens tells the file: no other has this header.
LEMMA OpensOne ==
    ASSUME SealInv, NEW f \in File, NEW g \in File, Opens(f), Opens(g)
    PROVE  f = g
<1>1. header[f] = header[g] /\ header[f] # NoResult
  BY DEF Opens, HeaderAtom
<1> QED
  BY <1>1 DEF SealInv, Headers

\* So the record is, atom for atom, the record that the sealing call wrote there.
LEMMA RecordTells ==
    ASSUME FileInv, openPc = "record", WellFormed, NEW pt \in Authentic
    PROVE  \E f \in File, k \in 0..MaxIndex : IsRecord(f, k, pt)
<1>1. PICK f \in File, k \in 0..MaxIndex :
         /\ k = expectedIndex /\ Opens(f)
         /\ Record = RecordOf(call[f].len, k)
         /\ pt = SubSeq(Text(f, call[f].len), Pos(k) + 1, Pos(k) + Count(call[f].len, k))
         /\ RecordTag = TagAtom(<<f, Pos(k)>>)
         /\ RecordCiphertext = Ciphertext(<<f, Pos(k)>>, Len(pt))
  BY RecordAuthentic
<1> DEFINE n == call[f].len
           c == Count(n, k)
<1>2. /\ n \in Nat /\ k \in Nat /\ sealed[f] \in Seq(AtomType) /\ container \in Seq(AtomType)
      /\ Len(container) \in Nat /\ Len(sealed[f]) \in Nat
  BY LenProperties DEF FileInv, SealInv, SealTypeOK, KnownAtoms
<1>3. /\ Pos(k) <= n /\ cursor = Off(k) /\ opened = Beginning(f, n, Pos(k))
      /\ \A i \in 1..cursor : i = 1 \/ container[i] = sealed[f][i]
  <2>1. CASE cursor = 1 /\ expectedIndex = 0 /\ opened = << >>
    <3>1. Off(0) = 1 /\ Pos(0) = 0
      BY PosNext DEF Off
    <3>2. Beginning(f, n, 0) = << >>
      BY <1>2, TextBegins
    <3> QED
      BY <1>1, <1>2, <2>1, <3>1, <3>2
  <2>2. ASSUME NEW g \in File, InFile(g) PROVE g = f
    BY <1>1, <2>2, OpensOne DEF InFile, FileInv
  <2>3. CASE \E g \in File : InFile(g)
    <3>1. InFile(f)
      BY <2>2, <2>3
    <3>2. Pos(k) \in Nat
      BY <1>2, PosNext
    <3> QED
      BY <1>1, <1>2, <3>1, <3>2 DEF InFile
  <2> QED
    BY <2>1, <2>3 DEF FileInv, AtRecord
<1>4. c \in Nat /\ Pos(k) \in Nat /\ Off(k) \in Nat /\ Pos(k) + c <= n /\ Pos(k) + c \in Nat
  <2>1. c \in Nat /\ Pos(k) \in Nat /\ Pos(k) + c <= n
    <3> HIDE DEF n
    <3> QED
      BY <1>2, <1>3, CountBounds, PosNext
  <2> QED
    BY <1>2, <2>1 DEF Off
<1>5. /\ Record.size = c /\ RecordLength = 2 + c /\ Len(pt) = c
      /\ Record.flag = kFinal <=> Final(n, k)
  <2>1. Record.size = c /\ (Record.flag = kFinal <=> Final(n, k))
    BY <1>1 DEF RecordOf, MakeRecordHeader, kFinal, kNotFinal
  <2>2. Len(pt) = (Pos(k) + c) - Pos(k)
    <3>1. Pos(k) \in 0..n /\ Pos(k) + c \in Pos(k)..n
      BY <1>2, <1>3, <1>4
    <3> HIDE DEF n, c
    <3> QED
      BY <1>1, <1>2, <3>1, TextPiece DEF n, c
  <2> QED
    BY <1>4, <2>1, <2>2 DEF RecordLength
<1> HIDE DEF n, c
<1>6. /\ cursor \in Nat /\ cursor + 2 + c <= Len(container)
      /\ container[cursor + 1].k = "record" /\ container[cursor + 1].record = Record
  BY <1>3, <1>4, <1>5 DEF WellFormed, Available, Ahead, Record
<1>7. container[cursor + (c + 2)] = TagAtom(<<f, Pos(k)>>)
  <2>1. cursor + (2 + c) = cursor + (c + 2)
    BY <1>4, <1>6
  <2> QED
    BY <1>1, <1>5, <2>1 DEF RecordTag, Ahead
<1>8. Complete(f, k)
  <2>1. cursor + (c + 2) \in 1..Len(container)
    BY <1>2, <1>4, <1>6
  <2>2. PICK g \in File, j \in 0..MaxIndex :
           TagAtom(<<f, Pos(k)>>) = TagAtom(<<g, Pos(j)>>) /\ Complete(g, j)
    BY <1>7, <2>1 DEF FileInv, KnownAtoms, KnownAtom, TagAtom
  <2>3. <<f, Pos(k)>> = <<g, Pos(j)>>
    BY <2>2 DEF TagAtom
  <2>4. f = g /\ Pos(k) = Pos(j)
    BY <2>3
  <2>5. k = j
    <3>1. k \in Nat /\ j \in Nat /\ Pos(k) \in Nat /\ Pos(j) \in Nat
      BY <1>2, PosNext
    <3>2. ~(k < j)
      BY ONLY <2>4, <3>1, PosOrdered, ChunkAssumption
    <3>3. ~(j < k)
      BY ONLY <2>4, <3>1, PosOrdered, ChunkAssumption
    <3> QED
      BY <3>1, <3>2, <3>3
  <2> QED
    BY <2>2, <2>4, <2>5
<1>9. /\ Off(k) + c + 2 <= Len(sealed[f])
      /\ \A i \in 1..(c + 2) : sealed[f][Off(k) + i] = AtomsOf(f, n, k)[i]
      /\ Final(n, k) => sealResult[f] = "ok" /\ Len(sealed[f]) = Off(k) + c + 2
  BY <1>8 DEF Complete, n, c
<1>10. ASSUME NEW i \in 1..(c + 2) PROVE container[cursor + i] = AtomsOf(f, n, k)[i]
  <2>0. /\ AtomsOf(f, n, k)[1] = RecordAtom(RecordOf(n, k))
        /\ \A j \in 1..c : AtomsOf(f, n, k)[1 + j] = CipherAtom(<<f, Pos(k)>>, j)
        /\ AtomsOf(f, n, k)[c + 2] = TagAtom(<<f, Pos(k)>>)
    BY <1>2, <1>3, RecordAtomsType DEF c
  <2>1. CASE i = 1
    <3>1. container[cursor + 1] \in AtomType
      <4>1. cursor + 1 \in 1..Len(container)
        BY <1>2, <1>4, <1>6
      <4> QED
        BY ONLY <1>2, <4>1, ElementOfSeq
    <3>2. container[cursor + 1] = RecordAtom(container[cursor + 1].record)
      BY <1>6, <3>1 DEF AtomType, RecordAtom, Junk
    <3>3. Record = RecordOf(n, k)
      BY <1>1 DEF n
    <3> QED
      BY <1>6, <2>0, <2>1, <3>2, <3>3
  <2>2. CASE i = c + 2
    BY <1>7, <2>0, <2>2
  <2>3. CASE i # 1 /\ i # c + 2
    <3> DEFINE j == i - 1
    <3>1. j \in 1..c /\ 1 + j = i
      BY <1>4, <2>3
    <3>2. RecordCiphertext[j] = container[cursor + i]
      BY <1>5, <3>1 DEF RecordCiphertext, Ahead
    <3>3. RecordCiphertext[j] = CipherAtom(<<f, Pos(k)>>, j)
      BY <1>1, <1>5, <3>1 DEF Ciphertext
    <3> QED
      BY <2>0, <3>1, <3>2, <3>3
  <2> QED
    BY <2>1, <2>2, <2>3
<1>11. ASSUME NEW i \in 1..(cursor + RecordLength) PROVE container[i] = sealed[f][i]
  <2>1. CASE i = 1
    <3>1. Len(sealed[f]) # 0
      BY <1>2, <1>4, <1>9
    <3>2. sealed[f] # << >>
      BY <3>1
    <3> QED
      BY <1>1, <2>1, <3>2 DEF FileInv, Layout, LayoutOf, Opens
  <2>2. CASE i # 1 /\ i \in 1..cursor
    BY <1>3, <2>2
  <2>3. CASE i \notin 1..cursor
    <3> DEFINE j == i - cursor
    <3>1. j \in 1..(c + 2) /\ i = cursor + j /\ i = Off(k) + j
      BY <1>3, <1>4, <1>5, <1>6, <2>3
    <3> HIDE DEF j
    <3> QED
      BY <1>9, <1>10, <3>1
  <2> QED
    BY <2>1, <2>2, <2>3
<1>12. ASSUME Final(n, k) PROVE SealedAs(f, container)
  <2>1. cursor + RecordLength = Len(container)
    BY <1>5, <1>12 DEF WellFormed, NothingTrails
  <2>2. Len(container) = Len(sealed[f]) /\ sealResult[f] = "ok"
    BY <1>3, <1>4, <1>5, <1>9, <1>12, <2>1
  <2>3. \A i \in 1..Len(container) : container[i] = sealed[f][i]
    BY <1>11, <2>1
  <2>4. container = sealed[f]
    BY ONLY <1>2, <2>2, <2>3, SeqEqual
  <2> QED
    BY <2>2, <2>4 DEF SealedAs
<1> QED
  BY <1>1, <1>3, <1>8, <1>11, <1>12 DEF IsRecord, n

\* How long the record is, and what the output is with its plaintext.
LEMMA RecordAdds ==
    ASSUME FileInv, NEW f \in File, NEW k \in 0..MaxIndex, NEW pt, IsRecord(f, k, pt)
    PROVE  LET n == call[f].len
               c == Count(n, k) IN
           /\ n \in Nat /\ k \in Nat /\ c \in Nat /\ Pos(k) \in Nat /\ Pos(k) + c <= n
           /\ Pos(k) + c \in 0..n
           /\ RecordLength = 2 + c /\ (Record.flag = kFinal <=> Final(n, k))
           /\ Record.flag \in {kFinal, kNotFinal}
           /\ opened \o pt = Beginning(f, n, Pos(k) + c)
           /\ Len(pt) = c
           /\ \A i \in 0..c : opened \o SubSeq(pt, 1, i) = Beginning(f, n, Pos(k) + i)
           /\ Plain(f) = Text(f, n) /\ Plain(f) = Beginning(f, n, n)
<1> DEFINE n == call[f].len
           c == Count(n, k)
<1>1. n \in Nat /\ k \in Nat
  BY DEF FileInv, SealInv, SealTypeOK
<1>2. /\ Pos(k) <= n /\ opened = Beginning(f, n, Pos(k)) /\ Record = RecordOf(n, k)
      /\ pt = SubSeq(Text(f, n), Pos(k) + 1, Pos(k) + c)
  BY DEF IsRecord
<1>3. c \in Nat /\ Pos(k) \in Nat /\ Pos(k) + c <= n
  <2> HIDE DEF n
  <2> QED
    BY <1>1, <1>2, CountBounds, PosNext
<1>4. /\ Record.size = c /\ (Record.flag = kFinal <=> Final(n, k))
      /\ Record.flag \in {kFinal, kNotFinal}
  BY <1>2 DEF RecordOf, MakeRecordHeader, kFinal, kNotFinal
<1>5. RecordLength = 2 + c
  BY <1>3, <1>4 DEF RecordLength
<1>6. Plain(f) = Text(f, n)
  BY DEF Plain, Text
<1> HIDE DEF n, c
<1>7. /\ Pos(k) \in 0..n /\ Pos(k) + c \in Pos(k)..n /\ (Pos(k) + c) - Pos(k) = c
      /\ Pos(k) + c \in 0..n
  BY <1>1, <1>3
<1>8. opened \o pt = Beginning(f, n, Pos(k) + c)
  BY <1>1, <1>2, <1>7, TextGrows
<1>9. Len(pt) = c
  BY <1>1, <1>2, <1>7, TextPiece
<1>10. ASSUME NEW i \in 0..c PROVE opened \o SubSeq(pt, 1, i) = Beginning(f, n, Pos(k) + i)
  BY <1>1, <1>2, <1>7, TextPartly
<1>11. Beginning(f, n, n) = Text(f, n)
  BY <1>1, TextBegins
<1> QED
  BY ONLY <1>1, <1>3, <1>4, <1>5, <1>6, <1>7, <1>8, <1>9, <1>10, <1>11 DEF n, c

-----------------------------------------------------------------------------
(* Putting a container together. *)

\* Nothing is known before anything is written.
LEMMA InitFile == Init => FileInv
<1> SUFFICES ASSUME Init PROVE FileInv
  OBVIOUS
<1>1. SealInv /\ Layout
  BY InitSeal, InitLayout DEF Init
<1>2. /\ draft = << >> /\ container = << >> /\ openPc = "idle" /\ cursor = 0
      /\ expectedIndex = 0 /\ opened = << >> /\ openResult = NoOutcome /\ openFaults = 0
      /\ asked = [format |-> NoOutcome, secret |-> NoOutcome, aad |-> NoOutcome]
  BY DEF Init, OpenInit
<1>3. KnownAtoms(draft) /\ KnownAtoms(container)
  BY <1>2 DEF KnownAtoms
<1>4. OpenTypeOK
  <2>1. asked \in [format : Format \cup {NoOutcome}, secret : Secret \cup {NoOutcome},
                   aad : CallerAad \cup {NoOutcome}]
    BY <1>2
  <2>2. cursor \in 0..Len(container) /\ expectedIndex \in 0..MaxIndex /\ openFaults \in 0..MaxOpenFaults
    <3>1. Len(container) = 0
      BY <1>2
    <3>2. 0 \in 0..0 /\ 0 \in 0..MaxIndex /\ 0 \in 0..MaxOpenFaults
      BY ONLY IndexAssumption, OpenFaultsAssumption
    <3> QED
      BY ONLY <1>2, <3>1, <3>2
  <2> QED
    BY <1>2, <2>1, <2>2 DEF OpenTypeOK
<1>5. Stages
  BY <1>2 DEF Stages
<1>6. AtRecord /\ Released
  BY <1>2 DEF AtRecord, Released, AcceptsOnlySealed
<1> QED
  BY <1>1, <1>3, <1>4, <1>5, <1>6 DEF FileInv

\* A container is put together only when nothing is sealed any more.
LEMMA SealingKeeps == ASSUME FileInv, Sealing PROVE FileInv'
<1>1. SealInv' /\ Layout'
  BY NextSeal, NextLayout DEF FileInv, Sealing
<1>2. ~AllSealed
  <2>1. PICK f \in File : SealStep(f)
    BY DEF Sealing, SealNext
  <2>2. sealPc[f] # "done"
    BY <2>1 DEF SealStep, SealBegin, SealHeader, SealChunk, SealChunkFails, SealWriteFails
  <2> QED
    BY <2>2 DEF AllSealed
<1>3. draft = << >> /\ openPc = "idle" /\ container = << >> /\ openResult = NoOutcome
  BY <1>2 DEF FileInv, Stages
<1>4. UNCHANGED <<openVars, draft, edits>>
  BY DEF Sealing
<1>5. OpenTypeOK'
  BY <1>4 DEF openVars, FileInv, OpenTypeOK
<1>6. Stages'
  BY <1>3, <1>4 DEF openVars, FileInv, Stages
<1>7. KnownAtoms(draft)' /\ KnownAtoms(container)'
  BY <1>3, <1>4 DEF openVars, KnownAtoms
<1>8. AtRecord' /\ Released'
  BY <1>3, <1>4 DEF openVars, AtRecord, Released, AcceptsOnlySealed
<1> QED
  BY <1>1, <1>5, <1>6, <1>7, <1>8 DEF FileInv

\* Everything in a sealed file is known.
LEMMA SealedKnown == ASSUME SealInv, Layout, NEW f \in File PROVE KnownAtoms(sealed[f])
  BY DEF SealInv, SealTypeOK, Layout, LayoutOf, KnownAtoms, KnownAtom

\* Parts of known sequences make a known sequence.
LEMMA KnownSplice ==
    ASSUME NEW c, NEW d, KnownAtoms(c), KnownAtoms(d),
           NEW i \in 0..Len(c), NEW j \in 1..(Len(d) + 1)
    PROVE  KnownAtoms(SubSeq(c, 1, i) \o SubSeq(d, j, Len(d)))
<1> DEFINE A == SubSeq(c, 1, i)
           B == SubSeq(d, j, Len(d))
<1>1. c \in Seq(AtomType) /\ d \in Seq(AtomType) /\ Len(c) \in Nat /\ Len(d) \in Nat
  BY LenProperties DEF KnownAtoms
<1>2. A \in Seq(AtomType) /\ Len(A) = i /\ \A m \in 1..i : A[m] = c[m]
  <2>1. /\ 1 \in Int /\ i \in Int
        /\ \A m \in 1..i : c[m] \in AtomType
    BY <1>1, ElementOfSeq
  <2>2. /\ A \in Seq(AtomType) /\ Len(A) = IF 1 <= i THEN i - 1 + 1 ELSE 0
        /\ \A m \in 1..(i - 1 + 1) : A[m] = c[1 + m - 1]
    BY ONLY <2>1, SubSeqProperties
  <2> HIDE DEF A
  <2> QED
    BY <1>1, <2>2
<1>3. /\ B \in Seq(AtomType) /\ Len(B) = Len(d) + 1 - j
      /\ \A m \in 1..(Len(d) + 1 - j) : B[m] = d[j + m - 1]
  <2>1. /\ j \in Int /\ Len(d) \in Int
        /\ \A m \in j..Len(d) : d[m] \in AtomType
    BY <1>1, ElementOfSeq
  <2>2. /\ B \in Seq(AtomType) /\ Len(B) = IF j <= Len(d) THEN Len(d) - j + 1 ELSE 0
        /\ \A m \in 1..(Len(d) - j + 1) : B[m] = d[j + m - 1]
    BY ONLY <2>1, SubSeqProperties
  <2> HIDE DEF B
  <2> QED
    BY <1>1, <2>2
<1> HIDE DEF A, B
<1>4. /\ A \o B \in Seq(AtomType) /\ Len(A \o B) = Len(A) + Len(B)
      /\ \A m \in 1..(Len(A) + Len(B)) :
            (A \o B)[m] = IF m <= Len(A) THEN A[m] ELSE B[m - Len(A)]
  BY ONLY <1>2, <1>3, ConcatProperties
<1>5. ASSUME NEW m \in 1..Len(A \o B) PROVE KnownAtom((A \o B)[m])
  <2>1. CASE m <= Len(A)
    <3>1. (A \o B)[m] = c[m] /\ m \in 1..Len(c)
      BY <1>1, <1>2, <1>3, <1>4, <2>1
    <3> QED
      BY <3>1 DEF KnownAtoms
  <2>2. CASE ~(m <= Len(A))
    <3> DEFINE r == m - Len(A)
    <3>1. r \in 1..(Len(d) + 1 - j) /\ j + r - 1 \in 1..Len(d)
      BY <1>1, <1>2, <1>3, <1>4, <2>2
    <3>2. (A \o B)[m] = d[j + r - 1]
      BY <1>3, <1>4, <2>2, <3>1
    <3> QED
      BY <3>1, <3>2 DEF KnownAtoms
  <2> QED
    BY <2>1, <2>2
<1> QED
  BY <1>4, <1>5 DEF KnownAtoms, A, B

\* What sealing has made is not touched when a container is put together or opened.
LEMMA SealedStays ==
    ASSUME FileInv, UNCHANGED <<encs, sealVars>>
    PROVE  /\ SealInv' /\ Layout' /\ AllSealed' = AllSealed
           /\ \A f \in File : /\ sealed'[f] = sealed[f] /\ call'[f] = call[f]
                             /\ header'[f] = header[f] /\ sealResult'[f] = sealResult[f]
           /\ encs' = encs
<1>1. SealInv' /\ Layout'
  BY NextSeal, NextLayout DEF FileInv
<1> QED
  BY <1>1 DEF sealVars, AllSealed

\* What is known stays known.
LEMMA KnownStays ==
    ASSUME UNCHANGED <<encs, sealVars>>, UNCHANGED draft, KnownAtoms(draft)
    PROVE  KnownAtoms(draft)'
  BY DEF KnownAtoms, KnownAtom, Complete, sealVars

\* The draft may change while the opener has not begun.
LEMMA DraftKeeps ==
    ASSUME FileInv, UNCHANGED <<encs, sealVars, openVars>>, AllSealed, openPc = "idle",
           KnownAtoms(draft')
    PROVE  FileInv'
<1>1. /\ SealInv' /\ Layout' /\ AllSealed'
  BY SealedStays
<1>2. KnownAtoms(draft)'
  BY DEF KnownAtoms, KnownAtom, Complete, sealVars
<1>3. container = << >> /\ container' = << >> /\ openPc' = "idle" /\ openResult' = openResult
      /\ openResult = NoOutcome
  BY DEF FileInv, Stages, openVars
<1>4. KnownAtoms(container)'
  BY <1>3 DEF KnownAtoms
<1>5. OpenTypeOK'
  BY DEF FileInv, OpenTypeOK, openVars
<1>6. Stages'
  BY <1>1, <1>3 DEF FileInv, Stages, openVars
<1>7. AtRecord' /\ Released'
  BY <1>3 DEF AtRecord, Released, AcceptsOnlySealed
<1> QED
  BY <1>1, <1>2, <1>4, <1>5, <1>6, <1>7 DEF FileInv

\* A forged atom is no tag.
LEMMA ForgedKnown ==
    ASSUME FileInv, NEW x \in Atoms \cup ForgedAtoms
    PROVE  x \in AtomType /\ KnownAtom(x)
<1>1. ASSUME NEW b \in Atoms PROVE b \in AtomType /\ KnownAtom(b)
  <2>1. PICK f \in File : \E i \in 1..Len(sealed[f]) : b = sealed[f][i]
    BY DEF Atoms
  <2>2. PICK i \in 1..Len(sealed[f]) : b = sealed[f][i]
    BY <2>1
  <2>3. KnownAtoms(sealed[f])
    BY SealedKnown DEF FileInv
  <2> QED
    BY <2>2, <2>3, ElementOfSeq DEF KnownAtoms
<1>2. CASE x = Junk
  BY <1>2 DEF Junk, AtomType, KnownAtom
<1>3. ASSUME NEW i \in 0..MaxIndex, NEW n \in 0..(kChunkSize + 1), NEW b \in {kNotFinal, kFinal, 2},
             x = RecordAtom(MakeRecordHeader(i, n, b))
      PROVE  x \in AtomType /\ KnownAtom(x)
  <2>1. MakeRecordHeader(i, n, b) \in RecordHeaders
    BY DEF MakeRecordHeader, RecordHeaders, kFinal, kNotFinal
  <2>2. x \in AtomType /\ x.k = "record"
    BY <1>3, <2>1 DEF RecordAtom, AtomType
  <2> QED
    BY <2>2 DEF KnownAtom
<1>4. ASSUME NEW b \in Atoms, b.k = "header",
             \/ x = HeaderAtom([b.header EXCEPT !.fixed = FALSE])
             \/ x = HeaderAtom([b.header EXCEPT !.format = "SKP1"])
      PROVE  x \in AtomType /\ KnownAtom(x)
  <2>1. b.header \in FileHeaders
    BY <1>1, <1>4 DEF AtomType, Junk
  <2>2. /\ [b.header EXCEPT !.fixed = FALSE] \in FileHeaders
        /\ [b.header EXCEPT !.format = "SKP1"] \in FileHeaders
    BY <2>1 DEF FileHeaders
  <2>3. \E h \in FileHeaders : x = [k |-> "header", header |-> h]
    BY <1>4, <2>2 DEF HeaderAtom
  <2>4. x \in AtomType /\ x.k = "header"
    BY <2>3 DEF AtomType
  <2> QED
    BY <2>4 DEF KnownAtom
<1> DEFINE records == {RecordAtom(MakeRecordHeader(i, n, b)) :
                          i \in 0..MaxIndex, n \in 0..(kChunkSize + 1), b \in {kNotFinal, kFinal, 2}}
           headers == UNION {{HeaderAtom([a.header EXCEPT !.fixed = FALSE]),
                              HeaderAtom([a.header EXCEPT !.format = "SKP1"])} :
                            a \in {a \in Atoms : a.k = "header"}}
<1>5. CASE x \in headers
  <2>1. PICK b \in Atoms : /\ b.k = "header"
                          /\ x \in {HeaderAtom([b.header EXCEPT !.fixed = FALSE]),
                                    HeaderAtom([b.header EXCEPT !.format = "SKP1"])}
    BY <1>5
  <2> QED
    BY <1>4, <2>1
<1>6. CASE x \in records
  BY <1>3, <1>6
<1>7. ForgedAtoms = {Junk} \cup records \cup headers
  BY DEF ForgedAtoms
<1> HIDE DEF records, headers
<1> QED
  BY <1>1, <1>2, <1>5, <1>6, <1>7

\* Whatever is picked up, spliced and overwritten, no tag is made up.
LEMMA PickUpKeeps == ASSUME FileInv, NEW f \in File, PickUp(f) PROVE FileInv'
<1>1. KnownAtoms(sealed[f])
  BY SealedKnown DEF FileInv
<1> QED
  BY <1>1, DraftKeeps DEF PickUp, sealVars

\* Splicing moves whole atoms.
LEMMA SpliceKeeps == ASSUME FileInv, Splice PROVE FileInv'
<1>1. PICK i \in 0..Len(draft), f \in File : \E j \in 1..(Len(sealed[f]) + 1) :
         draft' = SubSeq(draft, 1, i) \o SubSeq(sealed[f], j, Len(sealed[f]))
  BY DEF Splice
<1>2. PICK j \in 1..(Len(sealed[f]) + 1) :
         draft' = SubSeq(draft, 1, i) \o SubSeq(sealed[f], j, Len(sealed[f]))
  BY <1>1
<1>3. KnownAtoms(sealed[f]) /\ KnownAtoms(draft)
  BY SealedKnown DEF FileInv
<1>4. KnownAtoms(draft')
  BY <1>2, <1>3, KnownSplice
<1> QED
  BY <1>4, DraftKeeps DEF Splice, sealVars

\* Overwriting puts in a known or a forged atom.
LEMMA OverwriteKeeps == ASSUME FileInv, Overwrite PROVE FileInv'
<1>1. PICK i \in 1..(Len(draft) + 1), a \in Atoms \cup ForgedAtoms :
         draft' = [j \in 1..(IF i > Len(draft) THEN i ELSE Len(draft)) |->
                      IF j = i THEN a ELSE draft[j]]
  BY DEF Overwrite
<1> DEFINE m == IF i > Len(draft) THEN i ELSE Len(draft)
<1>2. draft \in Seq(AtomType) /\ Len(draft) \in Nat /\ m \in Nat
  BY LenProperties DEF FileInv, KnownAtoms
<1>3. ASSUME NEW j \in 1..m, j # i PROVE j \in 1..Len(draft)
  BY <1>2, <1>3
<1> HIDE DEF m
<1>4. \A j \in 1..m : draft'[j] = (IF j = i THEN a ELSE draft[j])
  BY <1>1 DEF m
<1>5. ASSUME NEW j \in 1..m PROVE draft'[j] \in AtomType /\ KnownAtom(draft'[j])
  <2>1. CASE j = i
    BY <1>4, <2>1, ForgedKnown
  <2>2. CASE j # i
    BY <1>2, <1>3, <1>4, <2>2, ElementOfSeq DEF FileInv, KnownAtoms
  <2> QED
    BY <2>1, <2>2
<1>6. draft' \in [1..m -> AtomType]
  BY <1>1, <1>5 DEF m
<1>7. draft' \in Seq(AtomType) /\ Len(draft') = m
  <2>1. draft' \in Seq(AtomType)
    BY <1>2, <1>6, SeqDef
  <2> QED
    BY <1>2, <1>6, <2>1, LenProperties
<1>8. KnownAtoms(draft')
  BY <1>5, <1>7 DEF KnownAtoms
<1> QED
  BY <1>8, DraftKeeps DEF Overwrite, sealVars

-----------------------------------------------------------------------------
(* Opening it. *)

\* A call begins with what was put together.
LEMMA OpenBeginKeeps ==
    ASSUME FileInv, AllSealed, OpenBegin(draft), UNCHANGED <<sealVars, draft>>
    PROVE  FileInv'
<1>1. SealInv' /\ Layout' /\ AllSealed'
  BY SealedStays DEF OpenBegin
<1>2. /\ container' = draft /\ openPc' = "header" /\ cursor' = 0 /\ expectedIndex' = 0
      /\ opened' = << >> /\ openResult' = NoOutcome /\ openFaults' = openFaults
  BY DEF OpenBegin, FileInv, Stages
<1>3. KnownAtoms(draft)' /\ KnownAtoms(container)'
  BY <1>2 DEF OpenBegin, FileInv, KnownAtoms, KnownAtom, Complete, sealVars
<1>4. Len(container') \in Nat
  BY <1>2, LenProperties DEF FileInv, KnownAtoms
<1>5. OpenTypeOK'
  <2>1. asked' \in [format : Format \cup {NoOutcome}, secret : Secret \cup {NoOutcome},
                    aad : CallerAad \cup {NoOutcome}]
    BY DEF OpenBegin
  <2>2. cursor' \in 0..Len(container') /\ expectedIndex' \in 0..MaxIndex
    BY <1>2, <1>4, IndexAssumption
  <2> QED
    BY <1>2, <2>1, <2>2 DEF OpenTypeOK, FileInv
<1>6. Stages'
  BY <1>1, <1>2 DEF Stages
<1>7. AtRecord' /\ Released'
  BY <1>2 DEF AtRecord, Released, AcceptsOnlySealed
<1> QED
  BY <1>1, <1>3, <1>5, <1>6, <1>7 DEF FileInv

\* What the steps of a call leave alone.
LEMMA OpeningStays ==
    ASSUME FileInv, openPc # "idle" \/ AllSealed,
           UNCHANGED <<encs, sealVars, draft, container, asked>>
    PROVE  SealInv' /\ Layout' /\ AllSealed' /\ KnownAtoms(draft)' /\ KnownAtoms(container)'
<1>1. SealInv' /\ Layout' /\ AllSealed'
  BY SealedStays DEF FileInv, Stages
<1>2. KnownAtoms(draft)' /\ KnownAtoms(container)'
  BY DEF FileInv, KnownAtoms, KnownAtom, Complete, sealVars
<1> QED
  BY <1>1, <1>2

\* A call that ends with an error without having written more.
LEMMA ErrorKeeps ==
    ASSUME FileInv, openPc # "done", openPc # "idle" \/ AllSealed, NEW r, r # "ok", OpenReturn(r),
           UNCHANGED <<encs, sealVars, draft, container, asked, cursor, expectedIndex, opened>>,
           openFaults' \in 0..MaxOpenFaults
    PROVE  FileInv'
<1>1. SealInv' /\ Layout' /\ AllSealed' /\ KnownAtoms(draft)' /\ KnownAtoms(container)'
  BY OpeningStays
<1>2. openPc' = "done" /\ openResult' = r
  BY DEF OpenReturn
<1>3. OpenTypeOK'
  BY <1>2 DEF FileInv, OpenTypeOK
<1>4. Stages'
  BY <1>1, <1>2 DEF Stages
<1>5. AtRecord' /\ AcceptsOnlySealed'
  BY <1>2 DEF AtRecord, AcceptsOnlySealed
<1>6. ASSUME opened # << >>
      PROVE  \E f \in File : \E p \in 1..call[f].len :
                Opens(f) /\ opened = Beginning(f, call[f].len, p) /\ p # call[f].len
  <2>1. openPc = "record"
    BY <1>6 DEF FileInv, Stages, OpenTypeOK
  <2>2. PICK f \in File : InFile(f)
    BY <1>6, <2>1 DEF FileInv, AtRecord
  <2> DEFINE n == call[f].len
             p == Pos(expectedIndex)
  <2>3. p < n /\ opened = Beginning(f, n, p) /\ Opens(f)
    BY <2>2 DEF InFile
  <2>4. n \in Nat /\ p \in Nat
    BY PosNext DEF FileInv, SealInv, SealTypeOK, OpenTypeOK
  <2> HIDE DEF n, p
  <2>5. p # 0
    BY <1>6, <2>3, <2>4, TextBegins
  <2> QED
    BY <2>3, <2>4, <2>5 DEF n
<1>7. Released'
  <2>1. /\ \A f \in File : Opens(f)' = Opens(f) /\ SealedAs(f, container)' = SealedAs(f, container)
        /\ \A f \in File : call'[f] = call[f]
    BY DEF Opens, SealedAs, sealVars
  <2> QED
    BY <1>5, <1>6, <2>1 DEF Released, Beginning
<1> QED
  BY <1>1, <1>3, <1>4, <1>5, <1>7 DEF FileInv

\* Parsing the header.
LEMMA OpenHeaderKeeps ==
    ASSUME FileInv, OpenHeader, UNCHANGED <<sealVars, draft>>
    PROVE  FileInv'
<1>1. /\ openPc = "header" /\ UNCHANGED <<encs, sealVars, draft, container, asked, expectedIndex, opened>>
      /\ cursor = 0 /\ expectedIndex = 0 /\ opened = << >> /\ openResult = NoOutcome
  BY DEF OpenHeader, FileInv, Stages
<1>2. CASE /\ HeaderAccepted /\ cursor' = cursor + 1 /\ openPc' = "record"
           /\ UNCHANGED <<openResult, openFaults>>
  <2>1. SealInv' /\ Layout' /\ AllSealed' /\ KnownAtoms(draft)' /\ KnownAtoms(container)'
    BY <1>1, OpeningStays
  <2>2. /\ Len(container) \in Nat /\ 1 <= Len(container) /\ container[1].k = "header"
        /\ ParsesAs(container[1].header, asked.format)
    BY <1>1, <1>2, LenProperties DEF HeaderAccepted, Available, Ahead, FileInv, KnownAtoms
  <2>3. container # << >>
    BY <2>2
  <2>4. OpenTypeOK'
    BY <1>1, <1>2, <2>2 DEF FileInv, OpenTypeOK
  <2>5. Stages'
    BY <1>1, <1>2, <2>1 DEF Stages
  <2>6. AtRecord'
    BY <1>1, <1>2, <2>2, <2>3 DEF AtRecord, ParsesAs
  <2>7. Released'
    BY <1>1, <1>2 DEF Released, AcceptsOnlySealed
  <2> QED
    BY <2>1, <2>4, <2>5, <2>6, <2>7 DEF FileInv
<1>3. CASE OpenReturn("invalid_packet") /\ UNCHANGED <<cursor, openFaults>>
  BY <1>1, <1>3, ErrorKeeps DEF FileInv, OpenTypeOK
<1>4. CASE OpenFault /\ OpenReturn("backend_failure") /\ UNCHANGED cursor
  <2>1. openFaults' \in 0..MaxOpenFaults
    BY <1>4 DEF OpenFault, FileInv, OpenTypeOK
  <2> QED
    BY <1>1, <1>4, <2>1, ErrorKeeps
<1> QED
  BY <1>2, <1>3, <1>4 DEF OpenHeader

\* The steps that end a call without writing.
LEMMA OpenErrorsKeep ==
    ASSUME FileInv, OpenRejects \/ OpenFails \/ (AllSealed /\ OpenWithEmptyPassword),
           UNCHANGED <<sealVars, draft>>
    PROVE  FileInv'
<1>1. CASE OpenRejects
  BY <1>1, ErrorKeeps DEF OpenRejects, FileInv, OpenTypeOK
<1>2. CASE OpenFails
  <2>1. openFaults' \in 0..MaxOpenFaults
    BY <1>2 DEF OpenFails, OpenFault, FileInv, OpenTypeOK
  <2> QED
    BY <1>2, <2>1, ErrorKeeps DEF OpenFails
<1>3. CASE AllSealed /\ OpenWithEmptyPassword
  BY <1>3, ErrorKeeps DEF OpenWithEmptyPassword, FileInv, OpenTypeOK
<1> QED
  BY <1>1, <1>2, <1>3

\* An authentic record brings the output and the cursor to the next one, or the call to its end.
LEMMA OpenRecordKeeps ==
    ASSUME FileInv, OpenRecord, UNCHANGED <<sealVars, draft>>
    PROVE  FileInv'
<1>1. /\ openPc = "record" /\ WellFormed /\ cursor' = cursor + RecordLength
      /\ UNCHANGED <<encs, sealVars, draft, container, asked, openFaults>>
      /\ openResult = NoOutcome
  BY DEF OpenRecord, FileInv, Stages
<1>2. PICK pt \in Authentic : opened' = opened \o pt
  BY DEF OpenRecord
<1>3. PICK f \in File, k \in 0..MaxIndex : IsRecord(f, k, pt)
  BY <1>1, RecordTells
<1> DEFINE n == call[f].len
           c == Count(n, k)
<1>4. /\ n \in Nat /\ k \in Nat /\ c \in Nat /\ Pos(k) \in Nat /\ Pos(k) + c <= n
      /\ Pos(k) + c \in 0..n
      /\ RecordLength = 2 + c /\ (Record.flag = kFinal <=> Final(n, k))
      /\ opened' = Beginning(f, n, Pos(k) + c)
      /\ Plain(f) = Beginning(f, n, n)
  BY <1>2, <1>3, RecordAdds
<1>5. /\ k = expectedIndex /\ Opens(f) /\ cursor = Off(k) /\ Pos(k) <= n
      /\ \A i \in 1..(cursor + RecordLength) : container[i] = sealed[f][i]
      /\ Final(n, k) => SealedAs(f, container)
      /\ Off(k) + c + 2 <= Len(sealed[f])
  BY <1>3 DEF IsRecord, Complete
<1>6. /\ c \in 0..kChunkSize
      /\ ~Final(n, k) => c = kChunkSize /\ Pos(k + 1) < n
      /\ Final(n, k) => Pos(k) + c = n
  <2>1. n \in Nat /\ k \in Nat /\ Pos(k) <= n
    BY <1>4
  <2> HIDE DEF n
  <2> QED
    BY <2>1, CountBounds
<1>7. SealInv' /\ Layout' /\ AllSealed' /\ KnownAtoms(draft)' /\ KnownAtoms(container)'
  BY <1>1, OpeningStays
<1>8. /\ Opens(f)' /\ call'[f] = call[f] /\ sealed'[f] = sealed[f]
      /\ SealedAs(f, container)' = SealedAs(f, container) /\ Plain(f)' = Plain(f)
  BY <1>1, <1>5 DEF Opens, SealedAs, sealVars, Plain
<1> HIDE DEF n, c
<1>9. /\ Len(container) \in Nat /\ cursor' \in Nat /\ cursor' <= Len(container)
      /\ cursor' = Off(k) + c + 2
  <2>1. Len(container) \in Nat /\ cursor \in Nat
    BY <1>4, <1>5, LenProperties DEF FileInv, KnownAtoms, Off
  <2>2. cursor + RecordLength <= Len(container)
    BY <1>1 DEF WellFormed, Available
  <2> QED
    BY <1>1, <1>4, <1>5, <2>1, <2>2
<1>10. NextIndex(k) \in 0..MaxIndex /\ (k # MaxIndex => NextIndex(k) = k + 1)
  BY IndexAssumption, NextIndexPlain
<1>11. OpenTypeOK'
  <2>1. expectedIndex' \in 0..MaxIndex
    BY <1>5, <1>10 DEF OpenRecord
  <2>2. openPc' \in {"idle", "header", "record", "done"}
    BY <1>1 DEF OpenRecord, OpenReturn
  <2>3. cursor' \in 0..Len(container')
    BY <1>1, <1>9
  <2> QED
    BY <1>1, <2>1, <2>2, <2>3 DEF FileInv, OpenTypeOK
<1>12. Stages'
  <2>1. openPc' \in {"record", "done"} /\ (openPc' = "record" => openResult' = NoOutcome)
    BY <1>1 DEF OpenRecord, OpenReturn
  <2> QED
    BY <1>7, <2>1 DEF Stages
<1>13. CASE OpenTooLong
  <2>1. openPc' = "done" /\ openResult' # "ok" /\ ~Final(n, k)
    BY <1>4, <1>13 DEF OpenRecord, OpenReturn, OpenTooLong, n
  <2>2. Pos(k) + c \in 1..n /\ Pos(k) + c # n
    BY <1>4, <1>6, <2>1, PosNext, ChunkAssumption
  <2>3. Released'
    <3>1. opened' = Beginning(f, call'[f].len, Pos(k) + c)
      BY <1>4, <1>8 DEF n
    <3>2. Pos(k) + c \in 1..call'[f].len /\ Pos(k) + c # call'[f].len
      BY <1>8, <2>2 DEF n
    <3> QED
      BY <1>8, <2>1, <3>1, <3>2 DEF Released, AcceptsOnlySealed, Beginning
  <2> QED
    BY <1>7, <1>11, <1>12, <2>1, <2>3 DEF FileInv, AtRecord
<1>14. CASE ~OpenTooLong /\ SawFinal
  <2>1. openPc' = "done" /\ openResult' = "ok" /\ Final(n, k)
    BY <1>4, <1>14 DEF OpenRecord, OpenReturn, SawFinal, n
  <2>2. opened' = Plain(f)' /\ opened' = Beginning(f, call'[f].len, n) /\ n = call'[f].len
    BY <1>4, <1>6, <1>8, <2>1 DEF n
  <2>3. opened' # << >> => n \in 1..n
    <3>1. n = 0 => opened' = << >>
      BY <1>4, <1>8, <2>2, TextBegins
    <3> QED
      BY <1>4, <3>1
  <2>4. SealedAs(f, container)'
    BY <1>5, <1>8, <2>1
  <2>5. Released'
    BY <1>8, <2>1, <2>2, <2>3, <2>4 DEF Released, AcceptsOnlySealed, Beginning
  <2> QED
    BY <1>7, <1>11, <1>12, <2>1, <2>5 DEF FileInv, AtRecord
<1>15. CASE ~OpenTooLong /\ ~SawFinal
  <2>1. openPc' = "record" /\ openResult' = NoOutcome /\ ~Final(n, k) /\ k # MaxIndex
    BY <1>1, <1>4, <1>5, <1>15 DEF OpenRecord, SawFinal, OpenTooLong, n
  <2>2. expectedIndex' = k + 1
    BY <1>5, <1>10, <1>15, <2>1 DEF OpenRecord
  <2>3. Pos(k + 1) = Pos(k) + c /\ Pos(k + 1) < n /\ Pos(k + 1) \in Nat
    BY <1>4, <1>6, <2>1, PosNext
  <2>4. cursor' = Off(k + 1)
    <3>1. Off(k + 1) = 1 + Pos(k + 1) + 2 * (k + 1) /\ Off(k) = 1 + Pos(k) + 2 * k
      BY DEF Off
    <3> QED
      BY <1>4, <1>9, <2>3, <3>1
  <2>5. \A i \in 1..cursor' : container'[i] = sealed'[f][i]
    BY <1>1, <1>5, <1>8
  <2>6. InFile(f)'
    <3>1. /\ cursor' = Off(expectedIndex') /\ cursor' <= Len(sealed'[f])
          /\ Pos(expectedIndex') < call'[f].len
          /\ opened' = Beginning(f, call'[f].len, Pos(expectedIndex'))
      BY <1>4, <1>5, <1>8, <1>9, <2>2, <2>3, <2>4 DEF n, c
    <3> QED
      BY <1>8, <2>5, <3>1 DEF InFile, Off, Pos, Beginning
  <2>7. AtRecord'
    <3>1. container # << >> /\ container[1].k = "header" /\ ParsesAs(container[1].header, asked.format)
      BY <1>1 DEF FileInv, AtRecord
    <3>2. expectedIndex' > 0
      BY <1>4, <2>2
    <3> QED
      BY <1>1, <2>6, <3>1, <3>2 DEF AtRecord, ParsesAs
  <2>8. Released'
    BY <2>1 DEF Released, AcceptsOnlySealed
  <2> QED
    BY <1>7, <1>11, <1>12, <2>7, <2>8 DEF FileInv
<1> QED
  BY <1>13, <1>14, <1>15

\* A stream that takes part of a chunk has still only a beginning of the plaintext; all of it
\* only if the chunk is the final one.
LEMMA OpenWriteFailsKeeps ==
    ASSUME FileInv, OpenWriteFails, UNCHANGED <<sealVars, draft>>
    PROVE  FileInv'
<1>1. /\ openPc = "record" /\ WellFormed /\ openPc' = "done" /\ openResult' = "backend_failure"
      /\ UNCHANGED <<encs, sealVars, draft, container, asked, cursor, expectedIndex>>
      /\ openFaults' \in 0..MaxOpenFaults
  BY OpenFaultsAssumption DEF OpenWriteFails, OpenFault, OpenReturn, FileInv, OpenTypeOK
<1>2. PICK pt \in Authentic : \E i \in 0..Len(pt) : opened' = opened \o SubSeq(pt, 1, i)
  BY DEF OpenWriteFails
<1>3. PICK i \in 0..Len(pt) : opened' = opened \o SubSeq(pt, 1, i)
  BY <1>2
<1>4. PICK f \in File, k \in 0..MaxIndex : IsRecord(f, k, pt)
  BY <1>1, RecordTells
<1> DEFINE n == call[f].len
           c == Count(n, k)
           p == Pos(k) + i
<1>5. /\ n \in Nat /\ k \in Nat /\ c \in Nat /\ Pos(k) \in Nat /\ Pos(k) + c <= n
      /\ i \in 0..c /\ opened' = Beginning(f, n, p) /\ Pos(k) <= n
  <2>1. /\ n \in Nat /\ k \in Nat /\ c \in Nat /\ Pos(k) \in Nat /\ Pos(k) + c <= n /\ Len(pt) = c
        /\ \A j \in 0..c : opened \o SubSeq(pt, 1, j) = Beginning(f, n, Pos(k) + j)
    BY <1>4, RecordAdds
  <2> QED
    BY <1>3, <1>4, <2>1 DEF IsRecord
<1>6. Opens(f) /\ (Final(n, k) => SealedAs(f, container))
  BY <1>4 DEF IsRecord
<1>7. ~Final(n, k) => c = kChunkSize /\ Pos(k + 1) < n
  <2> HIDE DEF n
  <2> QED
    BY <1>5, CountBounds
<1>8. SealInv' /\ Layout' /\ AllSealed' /\ KnownAtoms(draft)' /\ KnownAtoms(container)'
  BY <1>1, OpeningStays
<1>9. /\ Opens(f)' /\ call'[f] = call[f] /\ SealedAs(f, container)' = SealedAs(f, container)
  BY <1>1, <1>6 DEF Opens, SealedAs, sealVars
<1> HIDE DEF n, c
<1>10. p \in 0..n /\ (p = n => Final(n, k))
  <2>1. Pos(k + 1) = Pos(k) + kChunkSize
    BY <1>5, PosNext
  <2> QED
    BY ONLY <1>5, <1>7, <2>1, ChunkAssumption
<1>11. p = 0 => opened' = << >>
  BY <1>5, <1>10, TextBegins
<1>12. OpenTypeOK'
  BY <1>1 DEF FileInv, OpenTypeOK
<1>13. Stages'
  BY <1>1, <1>8 DEF Stages
<1>14. Released'
  <2> HIDE DEF p
  <2>1. opened' # << >> => p \in 1..call'[f].len /\ opened' = Beginning(f, call'[f].len, p)
    BY <1>5, <1>9, <1>10, <1>11 DEF n
  <2>2. p = call'[f].len => SealedAs(f, container)'
    BY <1>6, <1>9, <1>10 DEF n
  <2> QED
    BY <1>1, <1>9, <2>1, <2>2 DEF Released, AcceptsOnlySealed, Beginning
<1> QED
  BY <1>1, <1>8, <1>12, <1>13, <1>14 DEF FileInv, AtRecord

\* The invariant is inductive.
LEMMA NextFile == FileInv /\ [Next]_vars => FileInv'
<1> SUFFICES ASSUME FileInv, [Next]_vars PROVE FileInv'
  OBVIOUS
<1>1. CASE Sealing
  BY <1>1, SealingKeeps
<1>2. CASE \E f \in File : PickUp(f)
  BY <1>2, PickUpKeeps
<1>3. CASE Splice \/ Overwrite
  BY <1>3, SpliceKeeps, OverwriteKeeps
<1>4. CASE Opening
  <2>1. UNCHANGED <<sealVars, draft>>
    BY <1>4 DEF Opening
  <2>2. CASE AllSealed /\ OpenBegin(draft)
    BY <2>1, <2>2, OpenBeginKeeps
  <2>3. CASE OpenHeader
    BY <2>1, <2>3, OpenHeaderKeeps
  <2>4. CASE OpenRecord
    BY <2>1, <2>4, OpenRecordKeeps
  <2>5. CASE OpenWriteFails
    BY <2>1, <2>5, OpenWriteFailsKeeps
  <2>6. CASE OpenRejects \/ OpenFails \/ (AllSealed /\ OpenWithEmptyPassword)
    BY <2>1, <2>6, OpenErrorsKeep
  <2> QED
    BY <1>4, <2>2, <2>3, <2>4, <2>5, <2>6 DEF Opening, OpenStep
<1>5. CASE UNCHANGED vars
  <2>1. SealInv' /\ Layout' /\ AllSealed' = AllSealed
    BY <1>5, SealedStays DEF vars
  <2>2. KnownAtoms(draft)' /\ KnownAtoms(container)'
    BY <1>5 DEF vars, openVars, sealVars, FileInv, KnownAtoms, KnownAtom, Complete
  <2>3. OpenTypeOK' /\ Stages'
    BY <1>5, <2>1 DEF vars, openVars, FileInv, OpenTypeOK, Stages
  <2>4. /\ \A f \in File : Opens(f)' = Opens(f) /\ SealedAs(f, container)' = SealedAs(f, container)
        /\ \A f \in File : Plain(f)' = Plain(f) /\ call'[f] = call[f] /\ sealed'[f] = sealed[f]
        /\ UNCHANGED <<openPc, container, asked, cursor, expectedIndex, opened, openResult>>
    BY <1>5 DEF vars, openVars, sealVars, Opens, SealedAs, Plain
  <2>5. AtRecord'
    BY <2>4 DEF FileInv, AtRecord, InFile, ParsesAs, Off, Pos, Beginning
  <2>6. Released'
    BY <2>4 DEF FileInv, Released, AcceptsOnlySealed, Beginning
  <2> QED
    BY <2>1, <2>2, <2>3, <2>5, <2>6 DEF FileInv
<1> QED
  BY <1>1, <1>2, <1>3, <1>4, <1>5 DEF Next

-----------------------------------------------------------------------------
(* What the invariant means for whoever seals and opens. *)

\* The invariant holds whatever is sealed, changed and opened.
THEOREM FileInvariant == Spec => []FileInv
  BY InitFile, NextFile, PTL DEF Spec

\* No key ever encrypts two chunks under one nonce, however many files are sealed under shared
\* secrets, whatever fails and however long a file is: the index never wraps into use.
THEOREM NonceNeverReusedCorrect == Spec => []NonceNeverReused
<1>1. FileInv => NonceNeverReused
  BY SealInvUnique DEF FileInv
<1> QED
  BY <1>1, FileInvariant, PTL

\* Opening succeeds only on a container that a sealing call completed, to the last byte, with
\* its secret and associated data, and then the output is exactly its plaintext.
THEOREM AcceptsOnlySealedCorrect == Spec => []AcceptsOnlySealed
<1>1. FileInv => AcceptsOnlySealed
  BY DEF FileInv, Released
<1> QED
  BY <1>1, FileInvariant, PTL

\* What has been released is always a beginning of the plaintext of one file, all of it only at
\* the end of its own container.
LEMMA ReleasedSoFar ==
    ASSUME FileInv, opened # << >>
    PROVE  \E f \in File : \E p \in 1..call[f].len :
              /\ Opens(f) /\ call[f].len \in Nat /\ opened = Beginning(f, call[f].len, p)
              /\ p = call[f].len => SealedAs(f, container)
<1>1. CASE openPc = "record"
  <2>1. PICK f \in File : InFile(f)
    BY <1>1 DEF FileInv, AtRecord
  <2> DEFINE n == call[f].len
             p == Pos(expectedIndex)
  <2>2. p < n /\ opened = Beginning(f, n, p) /\ Opens(f)
    BY <2>1 DEF InFile
  <2>3. n \in Nat /\ p \in Nat
    <3>1. n \in Nat
      BY DEF FileInv, SealInv, SealTypeOK
    <3>2. expectedIndex \in Nat
      BY IndexAssumption DEF FileInv, OpenTypeOK
    <3> QED
      BY <3>1, <3>2, PosNext
  <2> HIDE DEF n, p
  <2>4. p # 0
    BY <2>2, <2>3, TextBegins
  <2> QED
    BY <2>2, <2>3, <2>4 DEF n
<1>2. CASE openPc = "done"
  BY <1>2 DEF FileInv, Released, SealInv, SealTypeOK
<1> QED
  BY <1>1, <1>2 DEF FileInv, OpenTypeOK, Stages

\* Whatever the container holds, the output stream only ever receives a beginning of the
\* plaintext that was sealed under this header, secret and associated data.
THEOREM OutputIsPrefixCorrect == Spec => []OutputIsPrefix
<1>1. FileInv => OutputIsPrefix
  <2> SUFFICES ASSUME FileInv, opened # << >>
               PROVE  \E f \in File : Opens(f) /\ IsPrefix(opened, Plain(f))
    BY DEF OutputIsPrefix
  <2>1. PICK f \in File : \E p \in 1..call[f].len :
           Opens(f) /\ call[f].len \in Nat /\ opened = Beginning(f, call[f].len, p)
    BY ReleasedSoFar
  <2>2. PICK p \in 1..call[f].len :
           Opens(f) /\ call[f].len \in Nat /\ opened = Beginning(f, call[f].len, p)
    BY <2>1
  <2>3. p \in 0..call[f].len /\ Plain(f) = Text(f, call[f].len)
    BY <2>2 DEF Plain, Text
  <2> QED
    BY <2>2, <2>3, TextBegins
<1> QED
  BY <1>1, FileInvariant, PTL

\* All of a plaintext is released only from an intact container.
THEOREM LastChunkNeedsEndCorrect == Spec => []LastChunkNeedsEnd
<1>1. FileInv => LastChunkNeedsEnd
  <2> SUFFICES ASSUME FileInv, NEW f \in File, opened = Plain(f), opened # << >>
               PROVE  SealedAs(f, container)
    BY DEF LastChunkNeedsEnd
  <2>1. PICK g \in File : \E p \in 1..call[g].len :
           /\ call[g].len \in Nat /\ opened = Beginning(g, call[g].len, p)
           /\ p = call[g].len => SealedAs(g, container)
    BY ReleasedSoFar
  <2>2. PICK p \in 1..call[g].len :
           /\ call[g].len \in Nat /\ opened = Beginning(g, call[g].len, p)
           /\ p = call[g].len => SealedAs(g, container)
    BY <2>1
  <2>3. call[f].len \in Nat /\ Plain(f) = Text(f, call[f].len)
    BY DEF FileInv, SealInv, SealTypeOK, Plain, Text
  <2>4. g = f /\ p = call[f].len
    BY <2>2, <2>3, TextTells
  <2> QED
    BY <2>2, <2>4
<1> QED
  BY <1>1, FileInvariant, PTL

\* No call reads past its plaintext.
WithinText == \A f \in File : position[f] <= call[f].len

\* A chunk ends where the plaintext ends at the latest.
LEMMA NextWithinText == FileInv /\ WithinText /\ [Next]_vars => WithinText'
<1> SUFFICES ASSUME FileInv, WithinText, [Next]_vars PROVE WithinText'
  OBVIOUS
<1>1. CASE UNCHANGED sealVars
  BY <1>1 DEF WithinText, sealVars
<1>2. ASSUME NEW f \in File, SealStep(f) PROVE WithinText'
  <2>1. /\ position \in [File -> Nat] /\ DOMAIN call = File /\ SealInv
        /\ call \in [File -> [secret : Secret \cup {NoResult}, aad : CallerAad \cup {NoResult}, len : Nat]]
    BY DEF FileInv, SealInv, SealTypeOK
  <2>2. ASSUME NEW g \in File, g # f PROVE position'[g] = position[g] /\ call'[g] = call[g]
    BY <1>2, <2>1, <2>2
       DEF SealStep, SealBegin, SealHeader, SealChunk, SealChunkFails, SealWriteFails
  <2>3. CASE SealBegin(f)
    <3>1. position'[f] = 0
      BY <2>1, <2>3 DEF SealBegin, SealInv, Headers
    <3>2. call'[f].len \in Nat
      BY <2>1, <2>3, PlainLenAssumption DEF SealBegin
    <3> QED
      BY <2>2, <3>1, <3>2 DEF WithinText
  <2>4. CASE SealChunk(f) \/ SealWriteFails(f)
    <3>1. sealPc[f] = "chunk"
      BY <2>4 DEF SealChunk, SealWriteFails
    <3> DEFINE n == call[f].len
               k == chunkIndex[f]
    <3>2. /\ n \in Nat /\ k \in 0..MaxIndex /\ Pos(k) <= n /\ position[f] = Pos(k)
          /\ ReadCount(f) = Count(n, k)
      BY <2>1, <3>1, ChunkAt
    <3>3. position'[f] = Pos(k) + Count(n, k) /\ call'[f].len = n
      BY <2>1, <2>4, <3>2 DEF SealChunk, SealWriteFails
    <3> HIDE DEF n, k
    <3>4. Pos(k) + Count(n, k) <= n
      BY <3>2, CountBounds, IndexAssumption
    <3> QED
      BY <2>2, <3>3, <3>4 DEF WithinText
  <2>5. CASE SealHeader(f) \/ SealChunkFails(f)
    BY <2>5 DEF SealHeader, SealChunkFails, WithinText
  <2> QED
    BY <1>2, <2>3, <2>4, <2>5 DEF SealStep
<1> QED
  BY <1>1, <1>2 DEF Next, Sealing, SealNext, PickUp, Splice, Overwrite, Opening, vars

\* Every variable keeps its type, and position, cursor and indices their bounds.
THEOREM FileTypeCorrect == Spec => []TypeOK
<1>1. Init => WithinText
  BY DEF Init, SealInit, WithinText
<1>2. FileInv /\ WithinText => TypeOK
  <2> SUFFICES ASSUME FileInv, WithinText PROVE TypeOK
    OBVIOUS
  <2>1. \A f \in File : position[f] \in 0..call[f].len
    BY DEF FileInv, SealInv, SealTypeOK, WithinText
  <2> QED
    BY <2>1 DEF TypeOK, FileInv, SealInv, SealTypeOK, OpenTypeOK
<1> QED
  BY <1>1, <1>2, FileInvariant, NextWithinText, PTL DEF Spec

-----------------------------------------------------------------------------
(* Without faults, an intact container opens with its own secret and data and *)
(* with no other.                                                             *)

\* The record an intact container has at the cursor, if the call has read only records of it.
LEMMA IntactRecord ==
    ASSUME FileInv, openPc = "record", NEW f \in File, SealedAs(f, container),
           cursor = Off(expectedIndex), expectedIndex = 0 \/ Pos(expectedIndex) < call[f].len
    PROVE  LET n == call[f].len
               k == expectedIndex IN
           /\ WellFormed /\ ~OpenTooLong
           /\ Record = RecordOf(n, k)
           /\ RecordCiphertext = Ciphertext(<<f, Pos(k)>>, Count(n, k))
           /\ RecordTag = TagAtom(<<f, Pos(k)>>)
           /\ EncOf(f, call[f], header[f], k) \in encs
           /\ container # << >> /\ container[1] = HeaderAtom(header[f])
<1> DEFINE n == call[f].len
           k == expectedIndex
           c == Count(n, k)
<1>1. /\ sealResult[f] = "ok" /\ container = sealed[f] /\ LayoutOf(f)
      /\ n \in Nat /\ k \in Nat /\ k \in 0..MaxIndex
      /\ sealed[f] \in Seq(AtomType) /\ Len(sealed[f]) \in Nat
  BY LenProperties, IndexAssumption
     DEF FileInv, SealInv, SealTypeOK, OpenTypeOK, Layout, SealedAs
<1>2. PICK last \in 0..MaxIndex :
         Complete(f, last) /\ Final(n, last) /\ CompleteTo(f, last)
  BY <1>1 DEF LayoutOf
<1>3. last \in Nat /\ Pos(last) <= n /\ Pos(last) \in Nat /\ Pos(k) \in Nat
  BY <1>1, <1>2, PosNext, IndexAssumption DEF Complete
<1>4. Pos(last) + Count(n, last) = n /\ Count(n, last) \in 0..kChunkSize
  <2> HIDE DEF n
  <2> QED
    BY <1>1, <1>2, <1>3, CountBounds
<1>5. k <= last
  <2>1. CASE k = 0
    BY <1>3, <2>1
  <2>2. CASE Pos(k) < n
    <3>1. last < k => Pos(last) + kChunkSize <= Pos(k)
      BY <1>1, <1>3, PosOrdered
    <3> HIDE DEF n, k
    <3> QED
      BY ONLY <1>1, <1>3, <1>4, <2>2, <3>1, ChunkAssumption
  <2> QED
    BY <2>1, <2>2
<1>6. Complete(f, k)
  <2>1. CASE k = last
    BY <1>2, <2>1
  <2>2. CASE k # last
    <3>1. k \in 0..(last - 1)
      BY <1>1, <1>3, <1>5, <2>2
    <3> QED
      BY <1>2, <3>1 DEF CompleteTo
  <2> QED
    BY <2>1, <2>2
<1>7. ~Final(n, k) => k < last
  BY <1>1, <1>2, <1>3, <1>5
<1>8. /\ Pos(k) <= n /\ cursor = Off(k) /\ Off(k) + c + 2 <= Len(sealed[f])
      /\ \A i \in 1..(c + 2) : sealed[f][Off(k) + i] = AtomsOf(f, n, k)[i]
      /\ EncOf(f, call[f], header[f], k) \in encs
      /\ Final(n, k) => Len(sealed[f]) = Off(k) + c + 2
  BY <1>6 DEF Complete
<1>9. /\ c \in Nat /\ c <= kChunkSize /\ (~Final(n, k) => c = kChunkSize) /\ Off(k) \in Nat
      /\ AtomsOf(f, n, k)[1] = RecordAtom(RecordOf(n, k))
      /\ \A i \in 1..c : AtomsOf(f, n, k)[1 + i] = CipherAtom(<<f, Pos(k)>>, i)
      /\ AtomsOf(f, n, k)[c + 2] = TagAtom(<<f, Pos(k)>>)
  <2>1. Off(k) \in Nat
    <3> HIDE DEF k
    <3> QED
      BY ONLY <1>1, <1>3 DEF Off
  <2>2. c \in 0..kChunkSize /\ (~Final(n, k) => c = kChunkSize)
    <3> HIDE DEF n, k
    <3> QED
      BY <1>1, <1>8, CountBounds DEF c
  <2> HIDE DEF n, k
  <2> QED
    BY <1>1, <1>8, <2>1, <2>2, RecordAtomsType, ChunkAssumption
<1> HIDE DEF n, k, c
<1>10. /\ Ahead(1) = RecordAtom(RecordOf(n, k)) /\ Record = RecordOf(n, k)
  <2>1. Ahead(1) = RecordAtom(RecordOf(n, k))
    <3>1. 1 \in 1..(c + 2)
      BY <1>9
    <3> QED
      BY <1>1, <1>8, <1>9, <3>1 DEF Ahead
  <2> QED
    BY <2>1 DEF Record, RecordAtom
<1>11. /\ Record.index = k /\ Record.size = c /\ Record.flag = (IF Final(n, k) THEN kFinal ELSE kNotFinal)
       /\ Ahead(1).k = "record" /\ RecordLength = 2 + c
  BY <1>10 DEF RecordOf, MakeRecordHeader, RecordAtom, RecordLength, c
<1>12. RecordTag = TagAtom(<<f, Pos(k)>>)
  <2>1. c + 2 \in 1..(c + 2) /\ cursor + (2 + c) = Off(k) + (c + 2)
    BY <1>8, <1>9
  <2>2. RecordTag = container[cursor + (2 + c)]
    BY <1>11 DEF RecordTag, Ahead
  <2> QED
    BY <1>1, <1>8, <1>9, <2>1, <2>2
<1>13. RecordCiphertext = Ciphertext(<<f, Pos(k)>>, c)
  <2>1. ASSUME NEW i \in 1..c PROVE Ahead(1 + i) = CipherAtom(<<f, Pos(k)>>, i)
    <3>1. 1 + i \in 1..(c + 2)
      BY <1>9
    <3> QED
      BY <1>1, <1>8, <1>9, <3>1 DEF Ahead
  <2> QED
    BY <1>11, <2>1 DEF RecordCiphertext, Ciphertext
<1>14. WellFormed
  <2>1. Available(1) /\ Available(RecordLength)
    BY <1>1, <1>8, <1>9, <1>11 DEF Available
  <2>2. RecordHeaderValid(Record) /\ (Record.flag = kNotFinal => Record.size = kChunkSize)
    BY <1>9, <1>11 DEF RecordHeaderValid, kFinal, kNotFinal
  <2>3. InSequence
    BY <1>11 DEF InSequence, k
  <2>4. NothingTrails
    BY <1>1, <1>8, <1>9, <1>11 DEF NothingTrails, kFinal, kNotFinal
  <2> QED
    BY <1>11, <2>1, <2>2, <2>3, <2>4 DEF WellFormed
<1>15. ~OpenTooLong
  <2>1. k # MaxIndex \/ Final(n, k)
    BY <1>1, <1>2, <1>3, <1>7, IndexAssumption
  <2> QED
    BY <1>11, <2>1 DEF OpenTooLong, k
<1>16. container # << >> /\ container[1] = HeaderAtom(header[f])
  <2>1. Len(sealed[f]) # 0
    BY <1>1, <1>8, <1>9
  <2>2. sealed[f] # << >>
    BY <2>1
  <2> QED
    BY <1>1, <2>2 DEF LayoutOf
<1> QED
  BY <1>8, <1>10, <1>12, <1>13, <1>14, <1>15, <1>16 DEF n, k, c

\* An intact container always begins with a header that its own format accepts.
LEMMA IntactHeader ==
    ASSUME FileInv, NEW f \in File, SealedAs(f, container)
    PROVE  /\ container # << >> /\ container[1] = HeaderAtom(header[f])
           /\ header[f] # NoResult /\ ParsesAs(header[f], header[f].format)
<1>1. /\ sealResult[f] = "ok" /\ container = sealed[f] /\ LayoutOf(f)
      /\ sealed[f] \in Seq(AtomType) /\ Len(sealed[f]) \in Nat
      /\ call[f].len \in Nat
  BY LenProperties DEF FileInv, SealInv, SealTypeOK, Layout, SealedAs
<1>2. PICK last \in 0..MaxIndex : Complete(f, last)
  BY <1>1 DEF LayoutOf
<1>3. last \in Nat /\ Pos(last) \in Nat /\ Pos(last) <= call[f].len
  BY <1>2, PosNext, IndexAssumption DEF Complete
<1>4. Count(call[f].len, last) \in Nat
  BY <1>1, <1>3, CountBounds, ChunkAssumption
<1>5. Len(sealed[f]) # 0
  BY <1>1, <1>2, <1>3, <1>4 DEF Complete, Off
<1>6. sealed[f] # << >>
  BY <1>5
<1> QED
  BY <1>1, <1>6 DEF LayoutOf, FileInv, SealInv, Headers

\* The next record of an intact container is authentic for who has its secret and data.
LEMMA IntactAuthentic ==
    ASSUME FileInv, openPc = "record", NEW f \in File, SealedAs(f, container), Opens(f)
    PROVE  WellFormed /\ ~OpenTooLong /\ Authentic # {}
<1> DEFINE n == call[f].len
           k == expectedIndex
<1>1. cursor = Off(k) /\ (k = 0 \/ Pos(k) < n)
  <2>1. CASE cursor = 1 /\ expectedIndex = 0
    BY <2>1, PosNext DEF Off
  <2>2. CASE \E g \in File : InFile(g)
    BY <2>2, OpensOne DEF InFile, FileInv
  <2> QED
    BY <2>1, <2>2 DEF FileInv, AtRecord
<1> DEFINE e == EncOf(f, call[f], header[f], k)
<1>2. /\ WellFormed /\ ~OpenTooLong /\ Record = RecordOf(n, k) /\ e \in encs
      /\ RecordCiphertext = Ciphertext(<<f, Pos(k)>>, Count(n, k))
      /\ RecordTag = TagAtom(<<f, Pos(k)>>)
      /\ container[1] = HeaderAtom(header[f])
  BY <1>1, IntactRecord
<1>3. /\ n \in Nat /\ k \in Nat /\ Pos(k) \in Nat /\ Pos(k) <= n
  <2>1. n \in Nat /\ k \in Nat
    BY IndexAssumption DEF FileInv, SealInv, SealTypeOK, OpenTypeOK
  <2>2. Pos(0) = 0 /\ Pos(k) \in Nat
    BY <2>1, PosNext
  <2> QED
    BY <1>1, <2>1, <2>2
<1>4. Len(e.pt) = Count(n, k)
  <2> HIDE DEF n, k
  <2>1. Count(n, k) \in Nat /\ Pos(k) + Count(n, k) <= n
    BY <1>3, CountBounds, ChunkAssumption
  <2>2. Pos(k) \in 0..n /\ Pos(k) + Count(n, k) \in Pos(k)..n
        /\ (Pos(k) + Count(n, k)) - Pos(k) = Count(n, k)
    BY <1>3, <2>1
  <2>3. Len(SubSeq(Text(f, n), Pos(k) + 1, Pos(k) + Count(n, k))) = Count(n, k)
    BY <1>3, <2>2, TextPiece
  <2> QED
    BY <2>3 DEF EncOf, n
<1>5. /\ e.id = <<f, Pos(k)>> /\ e.key = DeriveKey(call[f].secret, header[f])
      /\ e.nonce = MakeNonce(header[f].prefix, k)
      /\ e.aad = MakeChunkAad(HeaderAtom(header[f]), RecordOf(n, k), call[f].aad)
  BY DEF EncOf
<1>6. FileHeader = header[f] /\ asked.secret = call[f].secret /\ asked.aad = call[f].aad
  BY <1>2 DEF FileHeader, HeaderAtom, Opens
<1>7. Record.index = k
  BY <1>2 DEF RecordOf, MakeRecordHeader
<1> HIDE DEF e, n, k
<1>8. e \in Verifies(RecordCiphertext, RecordTag, DeriveKey(asked.secret, FileHeader),
                    MakeNonce(FileHeader.prefix, Record.index),
                    MakeChunkAad(container[1], Record, asked.aad))
  BY <1>2, <1>4, <1>5, <1>6, <1>7 DEF Verifies
<1>9. e.pt \in Authentic
  BY <1>8 DEF Authentic
<1> QED
  BY <1>2, <1>9

\* With a wrong secret or wrong data no record is authentic and none has been.
LEMMA WrongSecretStuck ==
    ASSUME FileInv, openPc = "record", NEW f \in File, SealedAs(f, container),
           asked.secret # call[f].secret \/ asked.aad # call[f].aad
    PROVE  WellFormed /\ Authentic = {} /\ opened = << >>
<1>1. ASSUME NEW g \in File, Opens(g) PROVE FALSE
  <2>1. container[1] = HeaderAtom(header[f]) /\ header[f] # NoResult
    BY IntactHeader
  <2>2. header[g] = header[f] /\ header[g] # NoResult
    BY <1>1, <2>1 DEF Opens, HeaderAtom
  <2>3. f = g
    BY <2>1, <2>2 DEF FileInv, SealInv, Headers
  <2> QED
    BY <1>1, <2>3 DEF Opens
<1>2. cursor = 1 /\ expectedIndex = 0 /\ opened = << >>
  BY <1>1 DEF FileInv, AtRecord, InFile
<1>3. cursor = Off(expectedIndex)
  BY <1>2, PosNext DEF Off
<1>4. WellFormed
  BY <1>2, <1>3, IntactRecord
<1>5. Authentic = {}
  <2> SUFFICES ASSUME NEW pt \in Authentic PROVE FALSE
    OBVIOUS
  <2> QED
    BY <1>1, <1>4, RecordAuthentic
<1> QED
  BY <1>2, <1>4, <1>5

\* A call returns from an intact container only as it should.
Intact == SealedOpens /\ WrongSecretFailsClosed

\* What a step that returns has to show about file f.
IntactFor(f) ==
    openFaults' = 0 /\ SealedAs(f, container') =>
        /\ Opens(f)' => openResult' = "ok" /\ opened' = Plain(f)
        /\ /\ asked'.format = header[f].format
           /\ asked'.secret # call[f].secret \/ asked'.aad # call[f].aad
           => openResult' = "authentication_failed" /\ opened' = << >>

\* A step that returns without a fault returns from an intact container as it should.
LEMMA IntactReturns ==
    ASSUME FileInv, Opening, openPc' = "done", NEW f \in File, openFaults' = 0, SealedAs(f, container')
    PROVE  IntactFor(f)
<1>1. ~OpenBegin(draft)
  BY DEF OpenBegin
<1>2. ASSUME AllSealed, OpenWithEmptyPassword PROVE FALSE
  <2>1. container = << >> /\ SealedAs(f, container)
    BY <1>2 DEF OpenWithEmptyPassword, FileInv, Stages
  <2> QED
    BY <2>1, IntactHeader
<1>3. ~OpenFails /\ ~OpenWriteFails
  BY DEF OpenFails, OpenWriteFails, OpenFault, FileInv, OpenTypeOK
<1>4. CASE OpenHeader
  <2>1. /\ SealedAs(f, container) /\ cursor = 0 /\ asked' = asked /\ container' = container
        /\ opened = << >> /\ opened' = << >>
    BY <1>4 DEF OpenHeader, FileInv, Stages
  <2>2. /\ container # << >> /\ container[1] = HeaderAtom(header[f])
        /\ ParsesAs(header[f], header[f].format)
    BY <2>1, IntactHeader
  <2>3. asked.format = header[f].format => HeaderAccepted
    <3>1. Len(container) \in Nat /\ Len(container) # 0
      BY <2>2, LenProperties, EmptySeq DEF FileInv, KnownAtoms
    <3> QED
      BY <2>1, <2>2, <3>1 DEF HeaderAccepted, Available, Ahead, HeaderAtom, ParsesAs
  <2>4. openPc = "header" /\ ~HeaderAccepted
    BY <1>4 DEF OpenHeader, OpenFault, FileInv, OpenTypeOK
  <2>5. asked.format # header[f].format
    BY <2>3, <2>4
  <2>6. ~Opens(f)'
    BY <2>1, <2>5, <1>4 DEF Opening, Opens, sealVars
  <2> QED
    BY <2>1, <2>5, <2>6 DEF IntactFor
<1>5. CASE OpenRecord \/ OpenRejects
  <2>1. /\ openPc = "record" /\ asked' = asked /\ container' = container /\ SealedAs(f, container)
    BY <1>5 DEF OpenRecord, OpenRejects
  <2>2. Opens(f)' <=> Opens(f)
    BY <2>1 DEF Opening, Opens, sealVars
  <2>3. ASSUME Opens(f)' PROVE openResult' = "ok" /\ opened' = Plain(f)
    <3>1. WellFormed /\ ~OpenTooLong /\ Authentic # {}
      BY <2>1, <2>2, <2>3, IntactAuthentic
    <3>2. OpenRecord
      BY <1>5, <3>1 DEF OpenRejects
    <3>3. openResult' = "ok"
      BY <2>1, <3>1, <3>2 DEF OpenRecord, OpenReturn
    <3>4. PICK g \in File : Opens(g)' /\ opened' = Plain(g)'
      <4>1. FileInv'
        BY <3>2, OpenRecordKeeps DEF Opening
      <4> QED
        BY <3>3, <4>1 DEF FileInv, Released, AcceptsOnlySealed
    <3>5. f = g
      <4>1. Opens(g)
        BY <2>1, <3>4 DEF Opening, Opens, sealVars
      <4> QED
        BY <2>2, <2>3, <4>1, OpensOne DEF FileInv
    <3>6. Plain(f)' = Plain(f)
      BY DEF Opening, Plain, sealVars
    <3> QED
      BY <3>3, <3>4, <3>5, <3>6
  <2>4. ASSUME asked'.secret # call[f].secret \/ asked'.aad # call[f].aad
        PROVE  openResult' = "authentication_failed" /\ opened' = << >>
    <3>1. WellFormed /\ Authentic = {} /\ opened = << >>
      BY <2>1, <2>4, WrongSecretStuck
    <3> QED
      BY <1>5, <3>1 DEF OpenRecord, OpenRejects, OpenReturn
  <2> QED
    BY <2>3, <2>4 DEF IntactFor
<1> QED
  BY <1>1, <1>2, <1>3, <1>4, <1>5 DEF Opening, OpenStep

\* A call that has returned stays so.
LEMMA NextIntact == FileInv /\ Intact /\ [Next]_vars => Intact'
<1> SUFFICES ASSUME FileInv, Intact, [Next]_vars, openPc' = "done" PROVE Intact'
  BY DEF Intact, SealedOpens, WrongSecretFailsClosed
<1>1. CASE Opening
  <2>1. /\ \A f \in File : SealedAs(f, container') <=> SealedAs(f, container)'
        /\ \A f \in File : Plain(f)' = Plain(f) /\ header'[f] = header[f] /\ call'[f] = call[f]
    BY <1>1 DEF Opening, SealedAs, Plain, sealVars
  <2>2. \A f \in File : IntactFor(f)
    BY <1>1, IntactReturns DEF IntactFor
  <2> QED
    BY <2>1, <2>2 DEF Intact, SealedOpens, WrongSecretFailsClosed, IntactFor
<1>2. CASE UNCHANGED vars
  <2>1. SealedOpens'
    BY <1>2 DEF vars, openVars, sealVars, Intact, SealedOpens, SealedAs, Opens, Plain
  <2>2. WrongSecretFailsClosed'
    BY <1>2 DEF vars, openVars, sealVars, Intact, WrongSecretFailsClosed, SealedAs
  <2> QED
    BY <2>1, <2>2 DEF Intact
<1>3. ~Sealing
  <2> SUFFICES ASSUME Sealing PROVE FALSE
    OBVIOUS
  <2>1. openPc = "done" /\ SealNext
    BY DEF Sealing, openVars
  <2>2. AllSealed
    BY <2>1 DEF FileInv, Stages
  <2> QED
    BY <2>1, <2>2 DEF AllSealed, SealNext, SealStep, SealBegin, SealHeader, SealChunk,
                      SealChunkFails, SealWriteFails
<1>4. ~(\E f \in File : PickUp(f)) /\ ~Splice /\ ~Overwrite
  BY DEF PickUp, Splice, Overwrite, openVars
<1> QED
  BY <1>1, <1>2, <1>3, <1>4 DEF Next

\* What was sealed can be opened: with its own secret and data an intact container always
\* opens, the empty plaintext, full last chunks and the largest index included.
THEOREM SealedOpensCorrect == Spec => []SealedOpens
<1>1. Init => Intact
  BY DEF Init, OpenInit, Intact, SealedOpens, WrongSecretFailsClosed
<1>2. Intact => SealedOpens
  BY DEF Intact
<1> QED
  BY <1>1, <1>2, FileInvariant, NextIntact, PTL DEF Spec

\* With a wrong secret or wrong associated data an intact container is reported as
\* authentication_failed, never as malformed, and nothing is written.
THEOREM WrongSecretFailsClosedCorrect == Spec => []WrongSecretFailsClosed
<1>1. Init => Intact
  BY DEF Init, OpenInit, Intact, SealedOpens, WrongSecretFailsClosed
<1>2. Intact => WrongSecretFailsClosed
  BY DEF Intact
<1> QED
  BY <1>1, <1>2, FileInvariant, NextIntact, PTL DEF Spec
=============================================================================

---------------------------- MODULE PacketProofs ----------------------------
(***************************************************************************)
(* Proofs about Packet, for any number of calls, keys, nonces and faults,  *)
(* and packets of any length, cut and joined anywhere.                     *)
(***************************************************************************)
EXTENDS Packet, SequenceTheorems, TLAPS

USE PacketLengths, NoneAssumption DEF Outcomes

\* The ciphertext of a text, the text that ciphertext is decrypted to, the context and the tag.
CipherOf(k, n, t) == [i \in 1..Len(t) |-> Object!CipherByte(k, n, i, t[i])]
TextOf(k, n, s) ==
    [i \in 1..Len(s) |-> IF s[i] = Object!CipherByte(k, n, i, s[i].byte) THEN s[i].byte ELSE None]
ContextOf(n, a, t) == [nonce |-> n, bound |-> <<"header", a>>, text |-> t, spent |-> FALSE]
TagFor(k, a, n, t) == [key |-> k, nonce |-> n, bound |-> <<"header", a>>, text |-> t]

\* The values of an atom.
CipherBytes == [key : Key, nonce : Nonce, at : Nat, byte : Byte]
AtomType == [kind : {"header", "bad_header", "nonce", "cipher", "tag1", "tag2"},
             val : {None} \cup Nonce \cup CipherBytes \cup Object!TagValue]

-----------------------------------------------------------------------------
(* The inductive invariant. *)

IsObject(s) ==
    s = [phase |-> s.phase, key |-> s.key, aad |-> s.aad, context |-> s.context,
         nonce |-> s.nonce, cipher |-> s.cipher, plain |-> s.plain, tag |-> s.tag,
         lost |-> s.lost, verdict |-> s.verdict]

Shape ==
    /\ DOMAIN enc = Call /\ DOMAIN dec = Call /\ DOMAIN fn = Call /\ DOMAIN pc = Call
    /\ DOMAIN input = Call /\ DOMAIN code = Call /\ DOMAIN output = Call
    /\ \A c \in Call : IsObject(enc[c]) /\ IsObject(dec[c])
    /\ faults \in Nat

\* A nonce belongs to one call.
Nonces ==
    /\ \A c \in Call : enc[c].nonce # None => enc[c].nonce \in drawn
    /\ \A c, e \in Call : enc[c].nonce = enc[e].nonce /\ enc[c].nonce # None => c = e

\* Where an encrypting call is: what its object has processed is what it will give out.
EncAt(c) ==
    LET o == enc[c] IN
    /\ pc[c] \in {"enc_begin", "enc_update", "enc_finalize"} \/ c \in Made =>
          fn[c] \in Encrypting /\ input[c] \in Seq(Byte) /\ o.key \in Key /\ o.aad \in Aad
    /\ pc[c] = "enc_begin" => o.cipher = << >> /\ o.nonce = None
    /\ pc[c] = "enc_update" =>
          /\ o.nonce \in Nonce /\ o.cipher = << >> /\ o.context = ContextOf(o.nonce, o.aad, << >>)
    /\ pc[c] = "enc_finalize" =>
          /\ o.nonce \in Nonce /\ o.cipher = CipherOf(o.key, o.nonce, input[c])
          /\ o.context = ContextOf(o.nonce, o.aad, input[c])
          /\ Len(input[c]) <= IntMax
    /\ c \in Made =>
          /\ o.nonce \in Nonce /\ o.tag = TagFor(o.key, o.aad, o.nonce, input[c])
          /\ output[c] = MakePacket(o.nonce, CipherOf(o.key, o.nonce, input[c]), o.tag)
          /\ Len(input[c]) <= IntMax

\* Where a decrypting call is.
DecAt(c) ==
    LET o == dec[c] IN
    /\ pc[c] \in {"dec_begin", "dec_update", "dec_finalize"} =>
          fn[c] \in Decrypting /\ ~Malformed(input[c]) /\ o.key \in Key /\ o.aad \in Aad
    /\ pc[c] = "dec_begin" => o.plain = << >> /\ o.verdict = None
    /\ pc[c] = "dec_update" =>
          o.plain = << >> /\ o.context = ContextOf(NonceOf(input[c]), o.aad, << >>)
    /\ pc[c] = "dec_finalize" =>
          /\ o.plain = TextOf(o.key, NonceOf(input[c]), CiphertextOf(input[c]))
          /\ o.context = ContextOf(NonceOf(input[c]), o.aad, o.plain)

\* Nobody makes up a nonce, a byte of ciphertext or half a tag.
KnownAtom(a) ==
    /\ a.kind = "nonce" => \E e \in Made : a.val = enc[e].nonce
    /\ a.kind = "cipher" => a.val \in CipherBytes
    /\ a.kind = "tag1" => \E e \in Made : a.val = enc[e].tag
KnownPacket(p) == p \in Seq(AtomType) /\ \A i \in 1..Len(p) : KnownAtom(p[i])

\* What a decrypting call has told.
Outcome(c) ==
    /\ code[c] = "ok" =>
          /\ \E e \in Call : Authentic(c, e) /\ output[c] = input[e]
          /\ fn[c] = "unwrap_key" => Len(output[c]) = kKeySize
    /\ code[c] = "invalid_packet" =>
          \/ Malformed(input[c])
          \/ fn[c] = "unwrap_key" /\ \E e \in Call : Authentic(c, e) /\ Len(input[e]) # kKeySize
    /\ code[c] = "invalid_input" => Len(CiphertextOf(input[c])) > IntMax
    /\ code[c] = "authentication_failed" => \A e \in Call : ~Authentic(c, e)
    /\ code[c] \in Outcomes

CallInv(c) ==
    /\ fn[c] \in Encrypting \cup Decrypting \/ pc[c] = "idle"
    /\ code[c] # None => pc[c] = "done"
    /\ pc[c] = "idle" => code[c] = None /\ enc[c].nonce = None /\ c \notin Made
    /\ EncAt(c) /\ DecAt(c)
    /\ pc[c] # "idle" /\ fn[c] \in Decrypting => KnownPacket(input[c]) /\ enc[c].nonce = None
    /\ pc[c] = "done" /\ fn[c] \in Decrypting => Outcome(c)

CallsInv == Shape /\ Nonces /\ \A c \in Call : CallInv(c)

-----------------------------------------------------------------------------
(* The layout of a packet. *)

\* Where the parts of a packet with m bytes of ciphertext are.
LaidOut(p, n, s, m, tag) ==
    /\ Len(p) = m + 4 /\ p = [i \in 1..(m + 4) |-> p[i]]
    /\ p[1] = Header /\ p[2] = Atom("nonce", n)
    /\ \A i \in 1..m : p[2 + i] = Atom("cipher", s[i])
    /\ p[m + 3] = Atom("tag1", tag) /\ p[m + 4] = Atom("tag2", tag)

\* make_packet_prefix and the two appends lay a packet out so.
LEMMA PacketParts ==
    ASSUME NEW n, NEW m \in Nat, NEW s \in [1..m -> CipherBytes], NEW tag
    PROVE  LaidOut(MakePacket(n, s, tag), n, s, m, tag)
<1> DEFINE head == <<Header, Atom("nonce", n)>>
           body == [i \in 1..Len(s) |-> Atom("cipher", s[i])]
           end == <<Atom("tag1", tag), Atom("tag2", tag)>>
           S == {Header, Atom("nonce", n), Atom("tag1", tag), Atom("tag2", tag)}
                    \cup {Atom("cipher", b) : b \in CipherBytes}
<1>0. Len(s) = m
  <2>1. s \in Seq(CipherBytes)
    BY SeqDef
  <2> QED
    BY <2>1, LenProperties
<1>1. head \in Seq(S) /\ Len(head) = 2
  OBVIOUS
<1>2. end \in Seq(S) /\ Len(end) = 2
  OBVIOUS
<1>3. body \in Seq(S) /\ Len(body) = m
  <2>1. body \in [1..m -> S]
    BY <1>0
  <2> HIDE DEF body, S
  <2>2. body \in Seq(S)
    BY <2>1, SeqDef
  <2> QED
    BY <2>1, <2>2, LenProperties
<1>4. /\ head[1] = Header /\ head[2] = Atom("nonce", n)
      /\ \A i \in 1..m : body[i] = Atom("cipher", s[i])
      /\ end[1] = Atom("tag1", tag) /\ end[2] = Atom("tag2", tag)
  BY <1>0
<1>5. MakePacket(n, s, tag) = head \o body \o end
  BY DEF MakePacket
<1> HIDE DEF head, body, end, S
<1> DEFINE most == head \o body
<1>6. /\ most \in Seq(S) /\ Len(most) = Len(head) + Len(body)
      /\ \A i \in 1..(Len(head) + Len(body)) :
            most[i] = IF i <= Len(head) THEN head[i] ELSE body[i - Len(head)]
  BY ONLY <1>1, <1>3, ConcatProperties
<1>7. /\ most \in Seq(S) /\ Len(most) = m + 2
      /\ \A i \in 1..(m + 2) : most[i] = IF i <= 2 THEN head[i] ELSE body[i - 2]
  BY ONLY <1>1, <1>3, <1>6, m \in Nat
<1> HIDE DEF most
<1>8. /\ most \o end \in Seq(S) /\ Len(most \o end) = Len(most) + Len(end)
      /\ \A i \in 1..(Len(most) + Len(end)) :
            (most \o end)[i] = IF i <= Len(most) THEN most[i] ELSE end[i - Len(most)]
  BY ONLY <1>2, <1>7, ConcatProperties
<1> DEFINE p == most \o end
<1> HIDE DEF p
<1>9. /\ p \in Seq(S) /\ Len(p) = m + 4
      /\ \A i \in 1..(m + 4) : p[i] = IF i <= m + 2 THEN most[i] ELSE end[i - (m + 2)]
  BY ONLY <1>2, <1>7, <1>8, m \in Nat DEF p
<1>10. p[1] = head[1] /\ p[2] = head[2]
  BY ONLY <1>7, <1>9, m \in Nat
<1>11. ASSUME NEW i \in 1..m PROVE p[2 + i] = body[i]
  <2>1. 2 + i \in 1..(m + 2) /\ 2 + i \in 1..(m + 4) /\ ~(2 + i <= 2) /\ (2 + i) - 2 = i
    BY ONLY m \in Nat, i \in 1..m
  <2> QED
    BY ONLY <1>7, <1>9, <2>1
<1>12. p[m + 3] = end[1] /\ p[m + 4] = end[2]
  <2>1. /\ m + 3 \in 1..(m + 4) /\ ~(m + 3 <= m + 2) /\ (m + 3) - (m + 2) = 1
        /\ m + 4 \in 1..(m + 4) /\ ~(m + 4 <= m + 2) /\ (m + 4) - (m + 2) = 2
    BY ONLY m \in Nat
  <2> QED
    BY ONLY <1>9, <2>1
<1>13. p = [i \in 1..(m + 4) |-> p[i]]
  <2>1. p \in [1..Len(p) -> S]
    BY <1>9, LenProperties
  <2> QED
    BY <1>9, <2>1
<1>14. MakePacket(n, s, tag) = p
  BY <1>5 DEF p, most
<1> QED
  BY ONLY <1>4, <1>9, <1>10, <1>11, <1>12, <1>13, <1>14 DEF LaidOut

\* decrypt() takes from a packet the nonce, the ciphertext and the tag encrypt() put in.
LEMMA PacketRead ==
    ASSUME NEW n, NEW m \in Nat, NEW s \in [1..m -> CipherBytes], NEW tag
    PROVE  LET p == MakePacket(n, s, tag) IN
           ~Malformed(p) /\ NonceOf(p) = n /\ CiphertextOf(p) = s /\ TagOf(p) = tag
<1> DEFINE p == MakePacket(n, s, tag)
<1>1. /\ Len(p) = m + 4
      /\ p[1] = Header /\ p[2] = Atom("nonce", n)
      /\ \A i \in 1..m : p[2 + i] = Atom("cipher", s[i])
      /\ p[m + 3] = Atom("tag1", tag) /\ p[m + 4] = Atom("tag2", tag)
  <2>1. LaidOut(p, n, s, m, tag)
    BY PacketParts
  <2> HIDE DEF p
  <2> QED
    BY ONLY <2>1 DEF LaidOut
<1> HIDE DEF p
<1>2. /\ kOverhead = 4 /\ kPrefixSize = 2
  BY DEF kOverhead, kPrefixSize, kTagSize
<1>3. ~Malformed(p)
  BY <1>1, <1>2 DEF Malformed
<1>4. NonceOf(p) = n
  BY <1>1 DEF NonceOf, Atom
<1>5. CiphertextOf(p) = s
  <2>1. Len(p) - kOverhead = m
    BY <1>1, <1>2
  <2>2. ASSUME NEW i \in 1..m
        PROVE  p[kPrefixSize + i].kind = "cipher" /\ p[kPrefixSize + i].val = s[i]
    <3>1. p[kPrefixSize + i] = Atom("cipher", s[i])
      BY <1>1, <1>2
    <3> QED
      BY <3>1 DEF Atom
  <2>3. CiphertextOf(p) = [i \in 1..m |-> s[i]]
    BY <2>1, <2>2 DEF CiphertextOf
  <2> QED
    BY <2>3
<1>6. TagOf(p) = tag
  <2>1. Len(p) - 1 = m + 3 /\ Len(p) = m + 4
    BY <1>1
  <2>2. p[Len(p) - 1] = Atom("tag1", tag) /\ p[Len(p)] = Atom("tag2", tag)
    BY <1>1, <2>1
  <2> QED
    BY <2>2 DEF TagOf, Atom
<1> QED
  BY <1>3, <1>4, <1>5, <1>6 DEF p

\* What reads as a nonce, a ciphertext and a tag is the packet made of them, atom for atom.
LEMMA PacketRebuilt ==
    ASSUME NEW p \in Seq(AtomType), ~Malformed(p), NEW n \in Nonce, NonceOf(p) = n,
           NEW m \in Nat, NEW s \in [1..m -> CipherBytes], CiphertextOf(p) = s,
           NEW tag, tag # None, TagOf(p) = tag,
           \A i \in 1..m : s[i].byte \in Byte
    PROVE  p = MakePacket(n, s, tag)
<1> DEFINE q == MakePacket(n, s, tag)
<1>1. /\ Len(q) = m + 4 /\ q = [i \in 1..(m + 4) |-> q[i]]
      /\ q[1] = Header /\ q[2] = Atom("nonce", n)
      /\ \A i \in 1..m : q[2 + i] = Atom("cipher", s[i])
      /\ q[m + 3] = Atom("tag1", tag) /\ q[m + 4] = Atom("tag2", tag)
  <2>1. LaidOut(q, n, s, m, tag)
    BY PacketParts
  <2> HIDE DEF q
  <2> QED
    BY ONLY <2>1 DEF LaidOut
<1> HIDE DEF q
<1>2. kOverhead = 4 /\ kPrefixSize = 2
  BY DEF kOverhead, kPrefixSize, kTagSize
<1>3. Len(p) \in Nat /\ Len(p) >= 4 /\ p[1] = Header
  BY <1>2, LenProperties DEF Malformed
<1>4. Len(p) = m + 4
  <2>1. DOMAIN CiphertextOf(p) = 1..(Len(p) - 4)
    BY <1>2 DEF CiphertextOf
  <2>2. 1..(Len(p) - 4) = 1..m
    BY <2>1
  <2> QED
    BY <1>3, <2>2
<1>5. \A i \in 1..Len(p) : p[i] \in AtomType
  BY ElementOfSeq
<1>6. \A i \in 1..Len(p) : p[i] = Atom(p[i].kind, p[i].val)
  BY <1>5 DEF AtomType, Atom
<1>7. p[2] = q[2]
  <2>1. 2 \in 1..Len(p)
    BY <1>3
  <2>2. p[2].kind = "nonce" /\ p[2].val = n
    BY NoneAssumption DEF NonceOf
  <2> QED
    BY <1>1, <1>6, <2>1, <2>2
<1>8. ASSUME NEW i \in 1..m PROVE p[2 + i] = q[2 + i]
  <2>1. 2 + i \in 1..Len(p) /\ i \in 1..(Len(p) - kOverhead)
    BY <1>2, <1>4
  <2>2. s[i] = IF p[2 + i].kind = "cipher" THEN p[2 + i].val ELSE Object!CipherByte(None, None, 0, None)
    BY <1>2, <2>1 DEF CiphertextOf
  <2>3. Object!CipherByte(None, None, 0, None).byte = None
    BY DEF Object!CipherByte
  <2>4. p[2 + i].kind = "cipher" /\ p[2 + i].val = s[i]
    BY <2>2, <2>3, NoneAssumption
  <2> QED
    BY <1>1, <1>6, <2>1, <2>4
<1>9. p[m + 3] = q[m + 3] /\ p[m + 4] = q[m + 4]
  <2>1. Len(p) - 1 = m + 3 /\ m + 3 \in 1..Len(p) /\ m + 4 \in 1..Len(p)
    BY <1>4
  <2>2. /\ p[m + 3].kind = "tag1" /\ p[m + 4].kind = "tag2"
        /\ p[m + 3].val = tag /\ p[m + 4].val = tag
    BY <1>4, <2>1 DEF TagOf
  <2> QED
    BY <1>1, <1>6, <2>1, <2>2
<1>10. ASSUME NEW i \in 1..(m + 4) PROVE p[i] = q[i]
  <2>1. CASE i \in 3..(m + 2)
    <3>1. i - 2 \in 1..m /\ 2 + (i - 2) = i
      BY <2>1
    <3> QED
      BY <1>8, <3>1
  <2>2. CASE i \notin 3..(m + 2)
    <3>1. i = 1 \/ i = 2 \/ i = m + 3 \/ i = m + 4
      BY <2>2
    <3> QED
      BY <1>1, <1>3, <1>7, <1>9, <3>1
  <2> QED
    BY <2>1, <2>2
<1>11. p = [i \in 1..(m + 4) |-> p[i]]
  <2>1. p \in [1..Len(p) -> AtomType]
    BY LenProperties
  <2> QED
    BY <1>4, <2>1
<1> QED
  BY <1>1, <1>10, <1>11 DEF q

-----------------------------------------------------------------------------
(* Ciphertext, text and tags. *)

\* The ciphertext of a text, byte by byte.
LEMMA CipherType ==
    ASSUME NEW k \in Key, NEW n \in Nonce, NEW t \in Seq(Byte)
    PROVE  CipherOf(k, n, t) \in [1..Len(t) -> CipherBytes] /\ Len(t) \in Nat
<1>1. \A i \in 1..Len(t) : t[i] \in Byte
  BY ElementOfSeq
<1>2. \A i \in 1..Len(t) : Object!CipherByte(k, n, i, t[i]) \in CipherBytes
  BY <1>1 DEF Object!CipherByte, CipherBytes
<1> QED
  BY <1>2, LenProperties DEF CipherOf

\* The bytes decrypt() passes to update() are those of a ciphertext or no bytes of one.
LEMMA CiphertextType ==
    ASSUME NEW p, KnownPacket(p), ~Malformed(p)
    PROVE  /\ Len(p) - 4 \in Nat /\ Len(CiphertextOf(p)) = Len(p) - 4
           /\ DOMAIN CiphertextOf(p) = 1..(Len(p) - 4)
           /\ \A i \in 1..(Len(p) - 4) : CiphertextOf(p)[i].byte \in Byte \cup {None}
<1> DEFINE m == Len(p) - 4
           s == CiphertextOf(p)
           D == Object!CipherByte(None, None, 0, None)
<1>1. kOverhead = 4 /\ kPrefixSize = 2
  BY DEF kOverhead, kPrefixSize, kTagSize
<1>2. Len(p) \in Nat /\ Len(p) >= 4 /\ m \in Nat /\ Len(p) = m + 4
  BY <1>1, LenProperties DEF Malformed, KnownPacket
<1> HIDE DEF m
<1>3. s = [i \in 1..m |-> IF p[2 + i].kind = "cipher" THEN p[2 + i].val ELSE D]
  BY <1>1 DEF CiphertextOf, m
<1>4. ASSUME NEW i \in 1..m PROVE s[i] \in CipherBytes \cup {D}
  <2>1. 2 + i \in 1..Len(p)
    BY <1>2
  <2>2. KnownAtom(p[2 + i])
    BY <2>1 DEF KnownPacket
  <2>3. s[i] = IF p[2 + i].kind = "cipher" THEN p[2 + i].val ELSE D
    BY <1>3
  <2> QED
    BY <2>2, <2>3 DEF KnownAtom
<1>5. \A b \in CipherBytes \cup {D} : b.byte \in Byte \cup {None}
  BY DEF CipherBytes, Object!CipherByte
<1>6. Len(s) = m
  <2> HIDE DEF D, s
  <2>1. s \in [1..m -> CipherBytes \cup {D}]
    BY <1>3, <1>4
  <2>2. s \in Seq(CipherBytes \cup {D})
    BY <1>2, <2>1, SeqDef
  <2> QED
    BY <1>2, <2>1, <2>2, LenProperties
<1>7. DOMAIN s = 1..m
  BY <1>3
<1> QED
  BY <1>2, <1>4, <1>5, <1>6, <1>7 DEF m

\* The tag of a context is a tag.
LEMMA TagType ==
    ASSUME NEW k \in Key, NEW a \in Aad, NEW n \in Nonce \cup {None}, NEW t \in Seq(Byte \cup {None})
    PROVE  TagFor(k, a, n, t) \in Object!TagValue /\ TagFor(k, a, n, t) # None
<1>1. <<"header", a>> \in Seq({"header"} \cup Aad)
  OBVIOUS
<1>2. TagFor(k, a, n, t) \in Object!TagValue
  BY <1>1 DEF TagFor, Object!TagValue, Object!Bound, Object!Text
<1> QED
  BY <1>2, NoneAssumption

\* The text a decryptor makes of the ciphertext of a known packet.
LEMMA TextType ==
    ASSUME NEW p, KnownPacket(p), ~Malformed(p), NEW k, NEW n
    PROVE  /\ TextOf(k, n, CiphertextOf(p)) \in Seq(Byte \cup {None})
           /\ Len(TextOf(k, n, CiphertextOf(p))) = Len(p) - 4
           /\ CiphertextOf(p) = << >> => TextOf(k, n, CiphertextOf(p)) = << >>
<1> DEFINE m == Len(p) - 4
           s == CiphertextOf(p)
           t == TextOf(k, n, s)
<1>1. m \in Nat /\ Len(s) = m /\ \A i \in 1..m : s[i].byte \in Byte \cup {None}
  BY CiphertextType
<1> HIDE DEF s, m
<1>2. t \in [1..m -> Byte \cup {None}]
  BY <1>1 DEF TextOf
<1> HIDE DEF t
<1>3. t \in Seq(Byte \cup {None}) /\ Len(t) = m
  <2>1. t \in Seq(Byte \cup {None})
    BY <1>1, <1>2, SeqDef
  <2> QED
    BY <1>1, <1>2, <2>1, LenProperties
<1>4. s = << >> => t = << >>
  <2>1. s = << >> => Len(t) = 0
    BY <1>1, <1>3
  <2> QED
    BY <1>3, <2>1, EmptySeq
<1> QED
  BY <1>3, <1>4 DEF m, s, t

\* A tag that fits tells all: key, associated data, nonce and text, and so the packet.
LEMMA TagTells ==
    ASSUME NEW p, KnownPacket(p), ~Malformed(p),
           NEW k \in Key, NEW a \in Aad, NEW n \in Nonce, NEW t \in Seq(Byte),
           NEW dk, NEW da,
           TagOf(p) = TagFor(k, a, n, t),
           TagFor(dk, da, NonceOf(p), TextOf(dk, NonceOf(p), CiphertextOf(p))) = TagFor(k, a, n, t)
    PROVE  /\ dk = k /\ da = a /\ TextOf(dk, NonceOf(p), CiphertextOf(p)) = t
           /\ p = MakePacket(n, CipherOf(k, n, t), TagFor(k, a, n, t))
<1> DEFINE m == Len(p) - 4
           s == CiphertextOf(p)
           w == TextOf(dk, NonceOf(p), s)
<1>1. dk = k /\ NonceOf(p) = n /\ w = t /\ da = a
  <2> DEFINE x == TagFor(dk, da, NonceOf(p), w)
             y == TagFor(k, a, n, t)
  <2>1. x.key = dk /\ x.nonce = NonceOf(p) /\ x.bound = <<"header", da>> /\ x.text = w
    BY DEF TagFor
  <2>2. y.key = k /\ y.nonce = n /\ y.bound = <<"header", a>> /\ y.text = t
    BY DEF TagFor
  <2>3. x = y
    OBVIOUS
  <2> HIDE DEF x, y, w
  <2>4. <<"header", da>> = <<"header", a>>
    BY <2>1, <2>2, <2>3
  <2>5. da = a
    BY <2>4
  <2> QED
    BY <2>1, <2>2, <2>3, <2>5
<1>2. m \in Nat /\ Len(s) = m /\ DOMAIN s = 1..m /\ Len(w) = m
  BY CiphertextType, TextType
<1>3. Len(t) = m /\ \A i \in 1..m : t[i] \in Byte
  BY <1>1, <1>2, ElementOfSeq
<1>4. ASSUME NEW i \in 1..m PROVE s[i] = Object!CipherByte(k, n, i, t[i])
  <2>1. w[i] = IF s[i] = Object!CipherByte(k, n, i, s[i].byte) THEN s[i].byte ELSE None
    BY <1>1, <1>2 DEF TextOf
  <2>2. w[i] = t[i] /\ t[i] # None
    BY <1>1, <1>3, NoneAssumption
  <2> HIDE DEF s, w
  <2> QED
    BY <2>1, <2>2
<1>5. CipherOf(k, n, t) = [i \in 1..m |-> Object!CipherByte(k, n, i, t[i])]
  BY <1>3 DEF CipherOf
<1>6. s = CipherOf(k, n, t)
  <2>1. s = [i \in 1..m |-> s[i]]
    BY <1>2 DEF CiphertextOf
  <2> HIDE DEF s, m
  <2> QED
    BY <1>4, <1>5, <2>1
<1>7. s \in [1..m -> CipherBytes] /\ \A i \in 1..m : s[i].byte \in Byte
  <2>1. s \in [1..m -> CipherBytes]
    BY <1>3, <1>6, CipherType
  <2> HIDE DEF s, m
  <2> QED
    BY <2>1 DEF CipherBytes
<1>8. TagFor(k, a, n, t) # None
  <2>1. t \in Seq(Byte \cup {None}) /\ n \in Nonce \cup {None}
    BY <1>1, TextType
  <2> QED
    BY <2>1, TagType
<1>9. p \in Seq(AtomType)
  BY DEF KnownPacket
<1>10. p = MakePacket(n, s, TagFor(k, a, n, t))
  <2> HIDE DEF m
  <2> QED
    BY <1>1, <1>2, <1>7, <1>8, <1>9, PacketRebuilt
<1> QED
  BY <1>1, <1>6, <1>10

-----------------------------------------------------------------------------
(* What a step leaves alone. *)

\* The steps of call c.
CallStep(c) ==
    \/ \E t \in Plaintexts : EncryptCall(c, "encrypt", t)
    \/ \E t \in [1..kKeySize -> Byte] : EncryptCall(c, "wrap_key", t)
    \/ EncryptBegin(c) \/ EncryptUpdate(c) \/ EncryptFinalize(c)
    \/ \E f \in Decrypting, p \in Presented : DecryptCall(c, f, p)
    \/ DecryptBegin(c) \/ DecryptUpdate(c) \/ DecryptFinalize(c)

Same(c) ==
    /\ pc'[c] = pc[c] /\ fn'[c] = fn[c] /\ input'[c] = input[c] /\ code'[c] = code[c]
    /\ output'[c] = output[c] /\ enc'[c] = enc[c] /\ dec'[c] = dec[c]

\* A step is one call's; a call that has returned makes none.
Framed(x) ==
    /\ pc[x] # "done" /\ \A c \in Call : c # x => Same(c)
    /\ DOMAIN enc' = Call /\ DOMAIN dec' = Call /\ DOMAIN fn' = Call /\ DOMAIN pc' = Call
    /\ DOMAIN input' = Call /\ DOMAIN code' = Call /\ DOMAIN output' = Call
    /\ IsObject(enc'[x]) /\ IsObject(dec'[x]) /\ faults' \in Nat

\* A step of encrypt() or wrap_key() moves one call only.
LEMMA EncryptFrame ==
    ASSUME Shape, NEW x \in Call,
           \/ \E f \in Encrypting : \E t : EncryptCall(x, f, t)
           \/ EncryptBegin(x) \/ EncryptUpdate(x) \/ EncryptFinalize(x)
    PROVE  Framed(x)
<1>1. ASSUME NEW f, NEW t, EncryptCall(x, f, t) PROVE Framed(x)
  <2>1. PICK k \in Key, a \in Aad :
           enc' = [enc EXCEPT ![x] = [Object!Unborn EXCEPT !.phase = "ready", !.key = k, !.aad = a]]
    BY <1>1 DEF EncryptCall, Object!ConstructEncryptor
  <2>2. /\ dec' = dec /\ faults' = faults /\ pc[x] = "idle" /\ pc' = [pc EXCEPT ![x] = "enc_begin"]
        /\ fn' = [fn EXCEPT ![x] = f] /\ input' = [input EXCEPT ![x] = t]
        /\ UNCHANGED <<code, output>>
    BY <1>1 DEF EncryptCall, Object!ConstructEncryptor, Goto, Proceed
  <2>3. DOMAIN enc' = Call /\ IsObject(enc'[x]) /\ \A c \in Call : c # x => enc'[c] = enc[c]
    BY <2>1 DEF Shape, IsObject, Object!Unborn
  <2> QED
    BY <2>2, <2>3 DEF Shape, Framed, Same
<1>2. CASE EncryptBegin(x)
  <2>1. IsObject(enc[x])
    BY DEF Shape
  <2>2. DOMAIN enc' = Call /\ IsObject(enc'[x]) /\ dec' = dec /\ faults' \in Nat
        /\ \A c \in Call : c # x => enc'[c] = enc[c]
    <3>1. Object!EncBegin(x) /\ DOMAIN enc = Call /\ faults \in Nat
      BY <1>2 DEF EncryptBegin, Shape
    <3>2. ASSUME NEW s, NEW n, enc' = [enc EXCEPT ![x].context = s, ![x].phase = "active", ![x].nonce = n]
          PROVE  DOMAIN enc' = Call /\ IsObject(enc'[x]) /\ \A c \in Call : c # x => enc'[c] = enc[c]
      BY <2>1, <3>1, <3>2 DEF IsObject
    <3>3. ASSUME NEW s, enc' = [enc EXCEPT ![x].context = s]
          PROVE  DOMAIN enc' = Call /\ IsObject(enc'[x]) /\ \A c \in Call : c # x => enc'[c] = enc[c]
      BY <2>1, <3>1, <3>3 DEF IsObject
    <3>4. dec' = dec /\ faults' \in Nat
      <4>1. dec' = dec /\ (faults' = faults \/ Object!Fault)
        BY <3>1, Zenon DEF Object!EncBegin
      <4> QED
        BY <3>1, <4>1 DEF Object!Fault
    <3>5. enc' = enc \/ (\E s : enc' = [enc EXCEPT ![x].context = s])
          \/ (\E s, n : enc' = [enc EXCEPT ![x].context = s, ![x].phase = "active", ![x].nonce = n])
      BY <3>1 DEF Object!EncBegin
    <3> QED
      BY <2>1, <3>1, <3>2, <3>3, <3>4, <3>5
  <2>3. pc[x] = "enc_begin" /\ UNCHANGED callVars /\ Continue(x, "enc_update")
    BY <1>2 DEF EncryptBegin
  <2> QED
    BY <2>2, <2>3 DEF callVars, Continue, Throw, End, Goto, Proceed, Shape, Framed, Same
<1>3. CASE EncryptUpdate(x)
  <2>1. IsObject(enc[x])
    BY DEF Shape
  <2>2. DOMAIN enc' = Call /\ IsObject(enc'[x]) /\ dec' = dec /\ faults' \in Nat
        /\ \A c \in Call : c # x => enc'[c] = enc[c]
    BY <1>3, <2>1 DEF EncryptUpdate, Object!EncUpdate, Object!Fault, Shape, IsObject, objectVars
  <2>3. pc[x] = "enc_update" /\ UNCHANGED callVars
        /\ (Throw(x, "invalid_input") \/ Proceed(x, "enc_finalize") \/ Continue(x, "enc_finalize"))
    BY <1>3 DEF EncryptUpdate
  <2> QED
    BY <2>2, <2>3 DEF callVars, Continue, Throw, End, Goto, Proceed, Shape, Framed, Same
<1>4. CASE EncryptFinalize(x)
  <2>1. IsObject(enc[x])
    BY DEF Shape
  <2>2. DOMAIN enc' = Call /\ IsObject(enc'[x]) /\ dec' = dec /\ faults' \in Nat
        /\ \A c \in Call : c # x => enc'[c] = enc[c]
    BY <1>4, <2>1 DEF EncryptFinalize, Object!EncFinalize, Object!Fault, Shape, IsObject
  <2>3. PICK e, r : pc[x] = "enc_finalize" /\ UNCHANGED callVars /\ End(x, e, r)
    BY <1>4 DEF EncryptFinalize, Throw
  <2> QED
    BY <2>2, <2>3 DEF callVars, End, Goto, Shape, Framed, Same
<1> QED
  BY <1>1, <1>2, <1>3, <1>4

\* A step of decrypt() or unwrap_key() moves one call only, and no encryptor.
LEMMA DecryptFrame ==
    ASSUME Shape, NEW x \in Call,
           \/ \E f, p : DecryptCall(x, f, p)
           \/ DecryptBegin(x) \/ DecryptUpdate(x) \/ DecryptFinalize(x)
    PROVE  Framed(x) /\ enc' = enc
<1>1. ASSUME NEW f, NEW p, DecryptCall(x, f, p) PROVE Framed(x) /\ enc' = enc
  <2>1. CASE Throw(x, "invalid_packet") /\ UNCHANGED objectVars
    BY <1>1, <2>1 DEF DecryptCall, objectVars, Throw, End, Goto, Shape, Framed, Same
  <2>2. CASE Object!ConstructDecryptor(x, x) /\ Proceed(x, "dec_begin")
    BY <1>1, <2>2 DEF DecryptCall, Object!ConstructDecryptor, Object!Unborn, Goto, Proceed,
                      Shape, Framed, Same, IsObject
  <2> QED
    BY <1>1, <2>1, <2>2 DEF DecryptCall
<1>2. CASE DecryptBegin(x)
  <2>1. IsObject(dec[x])
    BY DEF Shape
  <2>2. DOMAIN dec' = Call /\ IsObject(dec'[x]) /\ enc' = enc /\ faults' \in Nat
        /\ \A c \in Call : c # x => dec'[c] = dec[c]
    BY <1>2, <2>1 DEF DecryptBegin, Object!DecBegin, Object!Fault, Shape, IsObject
  <2>3. pc[x] = "dec_begin" /\ UNCHANGED callVars /\ Continue(x, "dec_update")
    BY <1>2 DEF DecryptBegin
  <2> QED
    BY <2>2, <2>3 DEF callVars, Continue, Throw, End, Goto, Proceed, Shape, Framed, Same
<1>3. CASE DecryptUpdate(x)
  <2>1. IsObject(dec[x])
    BY DEF Shape
  <2>2. DOMAIN dec' = Call /\ IsObject(dec'[x]) /\ enc' = enc /\ faults' \in Nat
        /\ \A c \in Call : c # x => dec'[c] = dec[c]
    BY <1>3, <2>1 DEF DecryptUpdate, Object!DecUpdate, Object!Fault, Shape, IsObject, objectVars
  <2>3. pc[x] = "dec_update" /\ UNCHANGED callVars
        /\ (Throw(x, "invalid_input") \/ Proceed(x, "dec_finalize") \/ Continue(x, "dec_finalize"))
    BY <1>3 DEF DecryptUpdate
  <2> QED
    BY <2>2, <2>3 DEF callVars, Continue, Throw, End, Goto, Proceed, Shape, Framed, Same
<1>4. CASE DecryptFinalize(x)
  <2>1. IsObject(dec[x])
    BY DEF Shape
  <2>2. DOMAIN dec' = Call /\ IsObject(dec'[x]) /\ enc' = enc /\ faults' \in Nat
        /\ \A c \in Call : c # x => dec'[c] = dec[c]
    BY <1>4, <2>1 DEF DecryptFinalize, Object!DecFinalize, Object!Finish, Object!Fault, Shape, IsObject
  <2>3. PICK e, r : pc[x] = "dec_finalize" /\ UNCHANGED callVars /\ End(x, e, r)
    BY <1>4 DEF DecryptFinalize, Throw, Unwrapped, Refuse
  <2> QED
    BY <2>2, <2>3 DEF callVars, End, Goto, Shape, Framed, Same
<1> QED
  BY <1>1, <1>2, <1>3, <1>4

\* What has been made stays as it is, and is known to whoever holds packets.
LEMMA MadeStays ==
    ASSUME NEW x \in Call, Framed(x), CallsInv
    PROVE  /\ \A e \in Made : e # x /\ e \in Made' /\ Same(e)
           /\ \A e \in Made' : e # x => e \in Made
<1>1. x \notin Made
  BY DEF Framed, CallsInv, CallInv, Made, NoneAssumption
<1> QED
  BY <1>1 DEF Framed, Same, Made

\* Atoms that are known stay known.
LEMMA KnownStays ==
    ASSUME NEW x \in Call, Framed(x), CallsInv, NEW c \in Call, input'[c] = input[c],
           KnownPacket(input[c])
    PROVE  KnownPacket(input[c])'
<1>1. \A e \in Made : e \in Made' /\ enc'[e] = enc[e]
  BY MadeStays DEF Same
<1>2. ASSUME NEW a, KnownAtom(a)
      PROVE  /\ a.kind = "nonce" => \E e \in Made' : a.val = enc'[e].nonce
             /\ a.kind = "cipher" => a.val \in CipherBytes
             /\ a.kind = "tag1" => \E e \in Made' : a.val = enc'[e].tag
  BY <1>1, <1>2 DEF KnownAtom
<1> QED
  BY <1>2 DEF KnownPacket, KnownAtom

\* A packet that has just been made is nobody's input yet: its nonce is new.
LEMMA NewPacketUnknown ==
    ASSUME NEW x \in Call, Framed(x), CallsInv, NEW c \in Call, KnownPacket(input[c]),
           NEW n \in Nonce, enc[x].nonce = n, NEW m \in Nat, NEW s \in [1..m -> CipherBytes], NEW tag
    PROVE  input[c] # MakePacket(n, s, tag)
<1> SUFFICES ASSUME input[c] = MakePacket(n, s, tag) PROVE FALSE
  OBVIOUS
<1>1. Len(input[c]) = m + 4 /\ input[c][2] = Atom("nonce", n)
  <2>1. LaidOut(input[c], n, s, m, tag)
    BY PacketParts
  <2> QED
    BY <2>1 DEF LaidOut
<1>2. KnownAtom(Atom("nonce", n))
  BY <1>1 DEF KnownPacket
<1>3. PICK e \in Made : n = enc[e].nonce
  BY <1>2 DEF KnownAtom, Atom
<1>4. e = x
  BY <1>3, NoneAssumption DEF CallsInv, Nonces, Made
<1> QED
  BY <1>3, <1>4, MadeStays

\* A call that has just made a packet made it with its nonce.
NewlyMade(x) ==
    x \in Made' => \E n \in Nonce, m \in Nat : \E s \in [1..m -> CipherBytes] : \E tag :
                       enc[x].nonce = n /\ output'[x] = MakePacket(n, s, tag)

\* All calls but the one that steps keep their part of the invariant.
LEMMA OthersKeep ==
    ASSUME NEW x \in Call, Framed(x), CallsInv, NEW c \in Call, c # x, NewlyMade(x)
    PROVE  CallInv(c)'
<1>1. CallInv(c) /\ Same(c)
  BY DEF CallsInv, Framed
<1>2. c \in Made' <=> c \in Made
  BY <1>1 DEF Same, Made
<1>3. EncAt(c)'
  BY <1>1, <1>2 DEF CallInv, EncAt, Same
<1>4. DecAt(c)'
  BY <1>1 DEF CallInv, DecAt, Same
<1>5. KnownPacket(input[c]) => KnownPacket(input[c])'
  BY <1>1, KnownStays DEF Same
<1>6. ASSUME pc[c] = "done", fn[c] \in Decrypting PROVE Outcome(c)'
  <2>1. Outcome(c) /\ KnownPacket(input[c])
    BY <1>1, <1>6 DEF CallInv
  <2>2. ASSUME NEW e \in Call PROVE Authentic(c, e)' <=> Authentic(c, e)
    <3>1. CASE e # x
      BY <1>1, <3>1 DEF Same, Framed, Authentic, Intact, Made
    <3>2. CASE e = x
      <4>1. ~Authentic(c, e)
        BY <3>2, MadeStays DEF Authentic, Intact
      <4>2. ~Authentic(c, e)'
        <5> SUFFICES ASSUME x \in Made', output'[x] = input[c] PROVE FALSE
          BY <1>1, <3>2 DEF Same, Authentic, Intact
        <5>1. PICK n \in Nonce, m \in Nat : \E s \in [1..m -> CipherBytes] : \E tag :
                 enc[x].nonce = n /\ output'[x] = MakePacket(n, s, tag)
          BY DEF NewlyMade
        <5> QED
          BY <2>1, <5>1, NewPacketUnknown
      <4> QED
        BY <4>1, <4>2
    <3> QED
      BY <3>1, <3>2
  <2>3. ASSUME NEW e \in Call, Authentic(c, e) PROVE input'[e] = input[e]
    BY <2>3, MadeStays DEF Authentic, Intact, Same
  <2> QED
    BY <1>1, <2>1, <2>2, <2>3 DEF Outcome, Same
<1> QED
  BY <1>1, <1>2, <1>3, <1>4, <1>5, <1>6 DEF CallInv, Same

-----------------------------------------------------------------------------
(* The steps of encrypt() and wrap_key(). *)

\* What is shown of the call that steps.
NonceStep(x) ==
    /\ drawn \subseteq drawn'
    /\ \/ enc'[x].nonce = enc[x].nonce
       \/ enc'[x].nonce \in drawn' \ drawn
Own(x) == CallInv(x)' /\ NewlyMade(x) /\ NonceStep(x)

\* An encrypting call that throws leaves nothing to say about it but what it was.
LEMMA EncryptThrows ==
    ASSUME NEW x \in Call, CallsInv, Framed(x), NEW r, r # "ok", Throw(x, r),
           fn'[x] \in Encrypting, NonceStep(x)
    PROVE  Own(x)
<1>1. pc'[x] = "done" /\ code'[x] = r
  BY DEF CallsInv, Shape, Throw, End, Goto
<1>2. x \notin Made'
  BY <1>1 DEF Made
<1>3. fn'[x] \notin Decrypting
  BY DEF Encrypting, Decrypting
<1> QED
  BY <1>1, <1>2, <1>3 DEF Own, NewlyMade, CallInv, EncAt, DecAt

\* encrypt() makes an object that has drawn no nonce.
LEMMA EncryptCallKeeps ==
    ASSUME CallsInv, NEW x \in Call, NEW f \in Encrypting, NEW t \in Seq(Byte),
           EncryptCall(x, f, t)
    PROVE  Own(x)
<1>1. PICK k \in Key, a \in Aad :
         enc' = [enc EXCEPT ![x] = [Object!Unborn EXCEPT !.phase = "ready", !.key = k, !.aad = a]]
  BY DEF EncryptCall, Object!ConstructEncryptor
<1>2. /\ pc[x] = "idle" /\ pc'[x] = "enc_begin" /\ fn'[x] = f /\ input'[x] = t
      /\ code' = code /\ drawn' = drawn
  BY DEF EncryptCall, Object!ConstructEncryptor, Goto, Proceed, CallsInv, Shape
<1>3. /\ enc'[x].key = k /\ enc'[x].aad = a /\ enc'[x].nonce = None /\ enc'[x].cipher = << >>
  BY <1>1 DEF Object!Unborn, CallsInv, Shape
<1>4. code[x] = None /\ enc[x].nonce = None
  BY <1>2 DEF CallsInv, CallInv
<1>5. x \notin Made' /\ f \notin Decrypting
  BY <1>2, <1>4, NoneAssumption DEF Made, Encrypting, Decrypting
<1>6. EncAt(x)' /\ DecAt(x)'
  BY <1>2, <1>3, <1>5 DEF EncAt, DecAt
<1> QED
  BY <1>2, <1>3, <1>4, <1>5, <1>6 DEF Own, NewlyMade, NonceStep, CallInv

\* begin() on a new object: all of the associated data, and nothing else.
LEMMA BegunContext ==
    ASSUME NEW old, NEW n, NEW a \in Aad
    PROVE  Object!Bind(Object!NewContext(old, n), Object!AadParts(a)) = ContextOf(n, a, << >>)
<1>1. << >> \o <<"header", a>> = <<"header", a>>
  <2>1. <<"header", a>> \in Seq({"header"} \cup Aad)
    OBVIOUS
  <2> QED
    BY <2>1, ConcatEmptySeq
<1> DEFINE ctx == Object!NewContext(old, n)
<1>2. ctx = [nonce |-> n, bound |-> << >>, text |-> << >>, spent |-> FALSE]
  BY DEF Object!NewContext
<1> HIDE DEF ctx
<1>3. Object!Bind(ctx, Object!AadParts(a)) = [ctx EXCEPT !.bound = ctx.bound \o <<"header", a>>]
  BY DEF Object!Bind, Object!AadParts
<1>4. ctx.bound \o <<"header", a>> = <<"header", a>>
  BY <1>1, <1>2
<1>5. Object!Bind(ctx, Object!AadParts(a)) = [ctx EXCEPT !.bound = <<"header", a>>]
  BY <1>3, <1>4
<1>6. Object!Bind(ctx, Object!AadParts(a)) = ContextOf(n, a, << >>)
  BY <1>2, <1>5 DEF ContextOf
<1> QED
  BY <1>6 DEF ctx

\* begin() draws a nonce nobody has and binds the associated data to it.
LEMMA EncryptBeginKeeps ==
    ASSUME CallsInv, NEW x \in Call, EncryptBegin(x)
    PROVE  Own(x)
<1> DEFINE o == enc[x]
<1>1. /\ pc[x] = "enc_begin" /\ Object!EncBegin(x) /\ Continue(x, "enc_update")
      /\ fn' = fn /\ input' = input /\ Framed(x)
  BY EncryptFrame DEF EncryptBegin, callVars, CallsInv
<1>2. /\ fn[x] \in Encrypting /\ input[x] \in Seq(Byte) /\ o.key \in Key /\ o.aad \in Aad
      /\ o.cipher = << >> /\ o.nonce = None /\ code[x] = None
  BY <1>1 DEF CallsInv, CallInv, EncAt
<1>3. faults \in Nat /\ IsObject(o) /\ DOMAIN enc = Call
  BY DEF CallsInv, Shape
<1>4. CASE faults' # faults
  <2>1. Throw(x, "backend_failure")
    BY <1>1, <1>4 DEF Continue, ObjectThrew
  <2>2. drawn \subseteq drawn'
    BY <1>1 DEF Object!EncBegin
  <2>3. enc' = enc \/ \E s : enc' = [enc EXCEPT ![x].context = s]
    BY <1>1, <1>4 DEF Object!EncBegin
  <2>4. enc'[x].nonce = o.nonce
    BY <1>3, <2>3 DEF IsObject
  <2> QED
    BY <1>1, <1>2, <2>1, <2>2, <2>4, EncryptThrows, NoneAssumption DEF NonceStep
<1>5. CASE faults' = faults
  <2>1. pc'[x] = "enc_update" /\ code' = code
    BY <1>1, <1>5 DEF Continue, ObjectThrew, Proceed, Goto, CallsInv, Shape
  <2>2. ~Object!Fault
    BY <1>3, <1>5 DEF Object!Fault
  <2>3. PICK n \in Nonce \ drawn :
           /\ drawn' = drawn \cup {n}
           /\ enc' = [enc EXCEPT ![x].context = Object!Bind(Object!NewContext(o.context, n),
                                                             Object!AadParts(o.aad)),
                                 ![x].phase = "active", ![x].nonce = n]
    BY <1>1, <2>2 DEF Object!EncBegin
  <2> DEFINE ctx == Object!Bind(Object!NewContext(o.context, n), Object!AadParts(o.aad))
  <2>4. ctx = ContextOf(n, o.aad, << >>)
    BY <1>2, BegunContext
  <2> HIDE DEF ctx
  <2>5. enc' = [enc EXCEPT ![x].context = ctx, ![x].phase = "active", ![x].nonce = n]
    BY <2>3 DEF ctx
  <2>6. /\ enc'[x].nonce = n /\ enc'[x].context = ctx
        /\ enc'[x].key = o.key /\ enc'[x].aad = o.aad /\ enc'[x].cipher = o.cipher
    BY <1>3, <2>5 DEF IsObject
  <2>7. x \notin Made'
    BY <1>2, <2>1, NoneAssumption DEF Made
  <2>8. EncAt(x)' /\ DecAt(x)'
    BY <1>1, <1>2, <2>1, <2>4, <2>6, <2>7 DEF EncAt, DecAt, ContextOf
  <2>9. fn[x] \notin Decrypting
    BY <1>2 DEF Encrypting, Decrypting
  <2> QED
    BY <1>1, <1>2, <2>1, <2>3, <2>6, <2>7, <2>8, <2>9 DEF Own, NewlyMade, NonceStep, CallInv
<1> QED
  BY <1>4, <1>5

\* A context that has its text.
LEMMA AbsorbedContext ==
    ASSUME NEW n, NEW a, NEW S, NEW t \in Seq(S)
    PROVE  Object!Absorb(ContextOf(n, a, << >>), t) = ContextOf(n, a, t)
<1> DEFINE ctx == ContextOf(n, a, << >>)
<1>1. ctx.text \o t = t
  BY ConcatEmptySeq DEF ContextOf
<1>2. ctx = [nonce |-> n, bound |-> <<"header", a>>, text |-> << >>, spent |-> FALSE]
  BY DEF ContextOf
<1> HIDE DEF ctx
<1>3. Object!Absorb(ctx, t) = [ctx EXCEPT !.text = ctx.text \o t]
  BY DEF Object!Absorb
<1>4. Object!Absorb(ctx, t) = [ctx EXCEPT !.text = t]
  BY <1>1, <1>3
<1>5. Object!Absorb(ctx, t) = ContextOf(n, a, t)
  BY <1>2, <1>4 DEF ContextOf
<1> QED
  BY <1>5 DEF ctx

\* The one update() of encrypt() gives the whole ciphertext.
LEMMA EncryptedWhole ==
    ASSUME NEW k \in Key, NEW n \in Nonce, NEW a, NEW t \in Seq(Byte)
    PROVE  << >> \o Object!Encrypt(k, ContextOf(n, a, << >>), t) = CipherOf(k, n, t)
<1> DEFINE ctx == ContextOf(n, a, << >>)
<1>1. ctx.nonce = n /\ Len(ctx.text) = 0 /\ Len(t) \in Nat
  BY LenProperties DEF ContextOf
<1> HIDE DEF ctx
<1>2. Object!Encrypt(k, ctx, t) = [i \in 1..Len(t) |-> Object!CipherByte(k, n, i, t[i])]
  <2>1. \A i \in 1..Len(t) : Len(ctx.text) + i = i
    BY <1>1
  <2> QED
    BY <1>1, <2>1 DEF Object!Encrypt
<1>3. Object!Encrypt(k, ctx, t) = CipherOf(k, n, t)
  BY <1>2 DEF CipherOf
<1>4. CipherOf(k, n, t) \in Seq(CipherBytes)
  BY CipherType, SeqDef
<1>5. << >> \o CipherOf(k, n, t) = CipherOf(k, n, t)
  BY <1>4, ConcatEmptySeq
<1> QED
  BY <1>3, <1>5 DEF ctx

\* encrypt() passes a text that fits to update(), once, and none if it is empty.
LEMMA EncryptUpdateKeeps ==
    ASSUME CallsInv, NEW x \in Call, EncryptUpdate(x)
    PROVE  Own(x)
<1> DEFINE o == enc[x]
           t == input[x]
<1>1. /\ pc[x] = "enc_update" /\ fn' = fn /\ input' = input /\ Framed(x) /\ drawn' = drawn
  BY EncryptFrame DEF EncryptUpdate, callVars, CallsInv, objectVars, Object!EncUpdate
<1>2. /\ fn[x] \in Encrypting /\ t \in Seq(Byte) /\ o.key \in Key /\ o.aad \in Aad
      /\ o.nonce \in Nonce /\ o.cipher = << >> /\ o.context = ContextOf(o.nonce, o.aad, << >>)
      /\ code[x] = None
  BY <1>1 DEF CallsInv, CallInv, EncAt
<1>3. faults \in Nat /\ IsObject(o) /\ DOMAIN enc = Call /\ DOMAIN pc = Call /\ Len(t) \in Nat
  BY <1>2, LenProperties DEF CallsInv, Shape
<1>4. fn[x] \notin Decrypting
  BY <1>2 DEF Encrypting, Decrypting
<1>5. CASE Throw(x, "invalid_input") /\ UNCHANGED objectVars
  BY <1>1, <1>2, <1>5, EncryptThrows DEF NonceStep, objectVars
\* The step that goes on.
<1>6. ASSUME enc'[x].cipher = CipherOf(o.key, o.nonce, t),
             enc'[x].context = ContextOf(o.nonce, o.aad, t),
             enc'[x].key = o.key, enc'[x].aad = o.aad, enc'[x].nonce = o.nonce,
             Proceed(x, "enc_finalize"), Len(t) <= IntMax
      PROVE  Own(x)
  <2>1. pc'[x] = "enc_finalize" /\ code' = code
    BY <1>3, <1>6 DEF Proceed, Goto
  <2>2. x \notin Made'
    BY <1>2, <2>1, NoneAssumption DEF Made
  <2>3. EncAt(x)' /\ DecAt(x)'
    BY <1>1, <1>2, <1>6, <2>1, <2>2 DEF EncAt, DecAt, ContextOf, CipherOf
  <2> QED
    BY <1>1, <1>2, <1>4, <1>6, <2>1, <2>2, <2>3 DEF Own, NewlyMade, NonceStep, CallInv
<1>7. CASE t = << >> /\ Proceed(x, "enc_finalize") /\ UNCHANGED objectVars
  <2>1. enc' = enc /\ Len(t) = 0
    BY <1>7 DEF objectVars
  <2>2. CipherOf(o.key, o.nonce, t) = << >>
    <3> DEFINE s == CipherOf(o.key, o.nonce, t)
    <3>1. s \in [1..Len(t) -> CipherBytes] /\ s \in Seq(CipherBytes)
      BY <1>2, CipherType, SeqDef
    <3> HIDE DEF s
    <3>2. Len(s) = 0
      BY <2>1, <3>1, LenProperties
    <3> QED
      BY <3>1, <3>2, EmptySeq DEF s
  <2> QED
    BY <1>2, <1>3, <1>6, <1>7, <2>1, <2>2, PacketLengths
<1>8. CASE ~TooLong(t) /\ Object!EncUpdate(x, t) /\ Continue(x, "enc_finalize")
  <2>1. CASE faults' # faults
    <3>1. Throw(x, "backend_failure")
      BY <1>8, <2>1 DEF Continue, ObjectThrew
    <3>2. \E s : enc' = [enc EXCEPT ![x].context = s, ![x].lost = TRUE]
      BY <1>8, <2>1 DEF Object!EncUpdate
    <3>3. enc'[x].nonce = o.nonce
      BY <1>3, <3>2 DEF IsObject
    <3> QED
      BY <1>1, <1>2, <3>1, <3>3, EncryptThrows DEF NonceStep
  <2>2. CASE faults' = faults
    <3>1. Proceed(x, "enc_finalize")
      BY <1>8, <2>2 DEF Continue, ObjectThrew
    <3>2. ~Object!Fault
      BY <1>3, <2>2 DEF Object!Fault
    <3> DEFINE ctx == Object!Absorb(o.context, t)
               s == o.cipher \o Object!Encrypt(o.key, o.context, t)
               r == o.plain \o t
    <3>3. enc' = [enc EXCEPT ![x].context = ctx, ![x].cipher = s, ![x].plain = r]
      BY <1>8, <3>2 DEF Object!EncUpdate
    <3>4. ctx = ContextOf(o.nonce, o.aad, t)
      BY <1>2, AbsorbedContext
    <3>5. s = CipherOf(o.key, o.nonce, t)
      BY <1>2, EncryptedWhole
    <3> HIDE DEF ctx, s, r
    <3>6. /\ enc'[x].context = ctx /\ enc'[x].cipher = s
          /\ enc'[x].key = o.key /\ enc'[x].aad = o.aad /\ enc'[x].nonce = o.nonce
      BY <1>3, <3>3 DEF IsObject
    <3>7. Len(t) <= IntMax
      BY <1>3, <1>8, PacketLengths DEF TooLong
    <3> QED
      BY <1>6, <3>1, <3>4, <3>5, <3>6, <3>7
  <2> QED
    BY <2>1, <2>2
<1> QED
  BY <1>5, <1>7, <1>8 DEF EncryptUpdate

\* finalize() completes the packet.
LEMMA EncryptFinalizeKeeps ==
    ASSUME CallsInv, NEW x \in Call, EncryptFinalize(x)
    PROVE  Own(x)
<1> DEFINE o == enc[x]
           t == input[x]
<1>1. /\ pc[x] = "enc_finalize" /\ fn' = fn /\ input' = input /\ Framed(x) /\ drawn' = drawn
      /\ Object!EncFinalize(x)
  BY EncryptFrame DEF EncryptFinalize, callVars, CallsInv, Object!EncFinalize
<1>2. /\ fn[x] \in Encrypting /\ t \in Seq(Byte) /\ o.key \in Key /\ o.aad \in Aad
      /\ o.nonce \in Nonce /\ o.cipher = CipherOf(o.key, o.nonce, t)
      /\ o.context = ContextOf(o.nonce, o.aad, t) /\ Len(t) <= IntMax
  BY <1>1 DEF CallsInv, CallInv, EncAt
<1>3. /\ faults \in Nat /\ IsObject(o) /\ DOMAIN enc = Call
      /\ DOMAIN pc = Call /\ DOMAIN code = Call /\ DOMAIN output = Call
  BY DEF CallsInv, Shape
<1>4. fn[x] \notin Decrypting
  BY <1>2 DEF Encrypting, Decrypting
<1>5. CASE faults' # faults
  <2>1. Throw(x, "backend_failure")
    BY <1>5 DEF EncryptFinalize, ObjectThrew
  <2>2. enc' = [enc EXCEPT ![x].context.spent = TRUE]
    BY <1>1, <1>5 DEF Object!EncFinalize
  <2>3. enc'[x].nonce = o.nonce
    BY <1>3, <2>2 DEF IsObject
  <2> QED
    BY <1>1, <1>2, <2>1, <2>3, EncryptThrows DEF NonceStep
<1>6. CASE faults' = faults
  <2>1. End(x, "ok", MakePacket(o.nonce, o.cipher, enc'[x].tag))
    BY <1>6 DEF EncryptFinalize, ObjectThrew
  <2>2. pc'[x] = "done" /\ code'[x] = "ok" /\ output'[x] = MakePacket(o.nonce, o.cipher, enc'[x].tag)
    BY <1>3, <2>1 DEF End, Goto
  <2>3. ~Object!Fault
    BY <1>3, <1>6 DEF Object!Fault
  <2> DEFINE tag == Object!Tag(o.key, o.context)
  <2>4. enc' = [enc EXCEPT ![x].tag = tag, ![x].context = None, ![x].phase = "finished"]
    BY <1>1, <2>3 DEF Object!EncFinalize
  <2>5. tag = TagFor(o.key, o.aad, o.nonce, t)
    BY <1>2 DEF Object!Tag, TagFor, ContextOf
  <2> HIDE DEF tag
  <2>6. enc'[x].tag = tag /\ enc'[x].key = o.key /\ enc'[x].aad = o.aad /\ enc'[x].nonce = o.nonce
    BY <1>3, <2>4 DEF IsObject
  <2>7. EncAt(x)' /\ DecAt(x)'
    BY <1>1, <1>2, <2>2, <2>5, <2>6 DEF EncAt, DecAt, MakePacket, TagFor, CipherOf
  <2>8. NewlyMade(x)
    <3>1. o.cipher \in [1..Len(t) -> CipherBytes] /\ Len(t) \in Nat
      BY <1>2, CipherType
    <3> QED
      BY <1>2, <2>2, <3>1 DEF NewlyMade
  <2> QED
    BY <1>1, <1>2, <1>4, <2>2, <2>6, <2>7, <2>8 DEF Own, NonceStep, CallInv
<1> QED
  BY <1>5, <1>6

-----------------------------------------------------------------------------
(* What the holder of the packets puts together. *)

\* The packets of encrypt() and wrap_key() are made of known atoms.
LEMMA MadeKnown ==
    ASSUME CallsInv, NEW e \in Made
    PROVE  KnownPacket(output[e])
<1> DEFINE o == enc[e]
           t == input[e]
           n == o.nonce
           s == CipherOf(o.key, n, t)
           p == output[e]
           m == Len(t)
<1>1. /\ o.nonce \in Nonce /\ o.tag = TagFor(o.key, o.aad, n, t) /\ o.key \in Key /\ o.aad \in Aad
      /\ p = MakePacket(n, s, o.tag) /\ t \in Seq(Byte)
  BY DEF Made, CallsInv, CallInv, EncAt
<1>2. s \in [1..m -> CipherBytes] /\ m \in Nat
  BY <1>1, CipherType
<1>3. o.tag \in Object!TagValue
  <2>1. t \in Seq(Byte \cup {None})
    BY <1>1, SeqDef
  <2> QED
    BY <1>1, <2>1, TagType
<1> DEFINE tag == o.tag
<1>4. LaidOut(p, n, s, m, tag)
  BY <1>1, <1>2, PacketParts
<1>5. n \in Nonce /\ n = enc[e].nonce /\ tag = enc[e].tag /\ tag \in Object!TagValue
  BY <1>1, <1>3
<1> HIDE DEF o, n, s, p, m, tag, t
<1>6. /\ Len(p) = m + 4 /\ p = [i \in 1..(m + 4) |-> p[i]]
      /\ p[1] = Header /\ p[2] = Atom("nonce", n)
      /\ \A i \in 1..m : p[2 + i] = Atom("cipher", s[i])
      /\ p[m + 3] = Atom("tag1", tag) /\ p[m + 4] = Atom("tag2", tag)
  BY <1>4 DEF LaidOut
<1>7. ASSUME NEW i \in 1..(m + 4) PROVE p[i] \in AtomType /\ KnownAtom(p[i])
  <2>1. CASE i \in 3..(m + 2)
    <3>1. i - 2 \in 1..m /\ 2 + (i - 2) = i
      BY <1>2, <2>1
    <3>2. p[i] = Atom("cipher", s[i - 2]) /\ s[i - 2] \in CipherBytes
      BY <1>2, <1>6, <3>1
    <3> QED
      BY <3>2 DEF Atom, AtomType, KnownAtom
  <2>2. CASE i \notin 3..(m + 2)
    <3>1. i = 1 \/ i = 2 \/ i = m + 3 \/ i = m + 4
      BY <1>2, <2>2
    <3> QED
      BY <1>5, <1>6, <3>1 DEF Atom, Header, AtomType, KnownAtom
  <2> QED
    BY <2>1, <2>2
<1>8. p \in Seq(AtomType)
  <2>1. m + 4 \in Nat /\ p \in [1..(m + 4) -> AtomType]
    BY <1>2, <1>6, <1>7
  <2> QED
    BY <2>1, SeqDef
<1> QED
  BY <1>6, <1>7, <1>8 DEF KnownPacket, p

\* Cutting two packets and joining the pieces brings no unknown atom.
LEMMA CutKnown ==
    ASSUME NEW c, NEW d, KnownPacket(c), KnownPacket(d), NEW x \in Cut(c, d)
    PROVE  KnownPacket(x)
<1>1. /\ c \in Seq(AtomType) /\ d \in Seq(AtomType) /\ Len(c) \in Nat /\ Len(d) \in Nat
  BY LenProperties DEF KnownPacket
<1>2. PICK A \in Fronts(c), B \in Backs(d) : x = A \o B
  BY DEF Cut
<1>3. PICK i \in 0..Len(c), j \in 1..(Len(d) + 1) : A = SubSeq(c, 1, i) /\ B = SubSeq(d, j, Len(d))
  BY DEF Fronts, Backs
<1>4. A \in Seq(AtomType) /\ Len(A) = i /\ \A m \in 1..i : A[m] = c[m]
  <2>1. 1 \in Int /\ i \in Int /\ \A m \in 1..i : c[m] \in AtomType
    BY <1>1, ElementOfSeq
  <2>2. /\ A \in Seq(AtomType) /\ Len(A) = IF 1 <= i THEN i - 1 + 1 ELSE 0
        /\ \A m \in 1..(i - 1 + 1) : A[m] = c[1 + m - 1]
    BY ONLY <1>3, <2>1, SubSeqProperties
  <2> QED
    BY <1>1, <2>2
<1>5. /\ B \in Seq(AtomType) /\ Len(B) = Len(d) + 1 - j
      /\ \A m \in 1..(Len(d) + 1 - j) : B[m] = d[j + m - 1]
  <2>1. j \in Int /\ Len(d) \in Int /\ \A m \in j..Len(d) : d[m] \in AtomType
    BY <1>1, ElementOfSeq
  <2>2. /\ B \in Seq(AtomType) /\ Len(B) = IF j <= Len(d) THEN Len(d) - j + 1 ELSE 0
        /\ \A m \in 1..(Len(d) - j + 1) : B[m] = d[j + m - 1]
    BY ONLY <1>3, <2>1, SubSeqProperties
  <2>3. Len(B) = Len(d) + 1 - j
    BY ONLY <1>1, <2>2, j \in 1..(Len(d) + 1)
  <2>4. ASSUME NEW m \in 1..(Len(d) + 1 - j) PROVE B[m] = d[j + m - 1]
    <3>1. m \in 1..(Len(d) - j + 1)
      BY ONLY <1>1, j \in 1..(Len(d) + 1), m \in 1..(Len(d) + 1 - j)
    <3> QED
      BY ONLY <2>2, <3>1
  <2> QED
    BY ONLY <2>2, <2>3, <2>4
<1>6. /\ A \o B \in Seq(AtomType) /\ Len(A \o B) = Len(A) + Len(B)
      /\ \A m \in 1..(Len(A) + Len(B)) :
            (A \o B)[m] = IF m <= Len(A) THEN A[m] ELSE B[m - Len(A)]
  BY ONLY <1>4, <1>5, ConcatProperties
<1>7. ASSUME NEW m \in 1..Len(A \o B) PROVE KnownAtom((A \o B)[m])
  <2>1. CASE m <= Len(A)
    <3>1. (A \o B)[m] = c[m] /\ m \in 1..Len(c)
      BY <1>1, <1>4, <1>5, <1>6, <2>1
    <3> QED
      BY <3>1 DEF KnownPacket
  <2>2. CASE ~(m <= Len(A))
    <3> DEFINE r == m - Len(A)
    <3>1. r \in 1..(Len(d) + 1 - j) /\ j + r - 1 \in 1..Len(d)
      BY <1>1, <1>4, <1>5, <1>6, <2>2
    <3>2. (A \o B)[m] = d[j + r - 1]
      BY <1>5, <1>6, <2>2, <3>1
    <3> QED
      BY <3>1, <3>2 DEF KnownPacket
  <2> QED
    BY <2>1, <2>2
<1> QED
  BY <1>2, <1>6, <1>7 DEF KnownPacket

\* Nor does spoiling a header.
LEMMA SpoiltKnown ==
    ASSUME NEW p, KnownPacket(p)
    PROVE  KnownPacket(Spoilt(p))
<1> DEFINE q == Spoilt(p)
<1>1. p \in Seq(AtomType) /\ Len(p) \in Nat /\ p \in [1..Len(p) -> AtomType]
  BY LenProperties DEF KnownPacket
<1>2. BadHeader \in AtomType /\ KnownAtom(BadHeader)
  BY DEF BadHeader, Atom, AtomType, KnownAtom
<1>3. \A i \in 1..Len(p) : q[i] = (IF i = 1 THEN BadHeader ELSE p[i])
  BY <1>1 DEF Spoilt
<1>4. q \in [1..Len(p) -> AtomType]
  BY <1>1, <1>2 DEF Spoilt
<1> HIDE DEF q
<1>5. q \in Seq(AtomType)
  BY <1>1, <1>4, SeqDef
<1>6. Len(q) = Len(p)
  BY <1>1, <1>4, <1>5, LenProperties
<1>7. \A i \in 1..Len(p) : KnownAtom(q[i])
  BY <1>2, <1>3 DEF KnownPacket
<1> QED
  BY <1>5, <1>6, <1>7 DEF KnownPacket, q

\* Every packet a decrypting call is given is made of known atoms.
LEMMA PresentedKnown ==
    ASSUME CallsInv, NEW p \in Presented
    PROVE  KnownPacket(p)
<1>1. PICK c \in Made, d \in Made : p \in Cut(output[c], output[d]) \/ p = Spoilt(output[c])
  BY DEF Presented
<1> QED
  BY <1>1, MadeKnown, CutKnown, SpoiltKnown

-----------------------------------------------------------------------------
(* The steps of decrypt() and unwrap_key(). *)

\* What has been presented stays known.
LEMMA InputKnown ==
    ASSUME NEW x \in Call, Framed(x), CallsInv, NEW CONSTANT p, KnownPacket(p), input'[x] = p
    PROVE  KnownPacket(input[x])'
<1>1. \A e \in Made : e \in Made' /\ enc'[e] = enc[e]
  BY MadeStays DEF Same
<1>2. ASSUME NEW a, KnownAtom(a)
      PROVE  /\ a.kind = "nonce" => \E e \in Made' : a.val = enc'[e].nonce
             /\ a.kind = "cipher" => a.val \in CipherBytes
             /\ a.kind = "tag1" => \E e \in Made' : a.val = enc'[e].tag
  BY <1>1, <1>2 DEF KnownAtom
<1> QED
  BY <1>2 DEF KnownPacket, KnownAtom

\* A decrypting call that ends has nothing more to show than what it told.
LEMMA DecryptEnds ==
    ASSUME NEW x \in Call, enc' = enc, drawn' = drawn, fn'[x] \in Decrypting, enc[x].nonce = None,
           KnownPacket(input[x])', pc'[x] = "done", Outcome(x)'
    PROVE  Own(x)
<1>1. fn'[x] \notin Encrypting
  BY DEF Encrypting, Decrypting
<1>2. x \notin Made'
  BY <1>1 DEF Made
<1> QED
  BY <1>2 DEF Own, NewlyMade, NonceStep, CallInv, EncAt, DecAt

\* A decrypting call that goes on.
LEMMA DecryptGoesOn ==
    ASSUME NEW x \in Call, enc' = enc, drawn' = drawn, fn'[x] \in Decrypting, enc[x].nonce = None,
           KnownPacket(input[x])', pc'[x] \in {"dec_begin", "dec_update", "dec_finalize"},
           code'[x] = None, DecAt(x)'
    PROVE  Own(x)
<1>1. fn'[x] \notin Encrypting
  BY DEF Encrypting, Decrypting
<1>2. x \notin Made'
  BY <1>1 DEF Made
<1>3. EncAt(x)'
  BY <1>2 DEF EncAt
<1> QED
  BY <1>2, <1>3 DEF Own, NewlyMade, NonceStep, CallInv

\* An OpenSSL failure is reported as such.
LEMMA DecryptFails ==
    ASSUME CallsInv, NEW x \in Call, Framed(x), enc' = enc, drawn' = drawn, fn'[x] \in Decrypting,
           enc[x].nonce = None, KnownPacket(input[x])', Throw(x, "backend_failure")
    PROVE  Own(x)
<1>1. pc'[x] = "done" /\ code'[x] = "backend_failure"
  BY DEF CallsInv, Shape, Throw, End, Goto
<1>2. Outcome(x)'
  BY <1>1 DEF Outcome
<1> QED
  BY <1>1, <1>2, DecryptEnds

\* decrypt() looks at the size and the header, and makes an object.
LEMMA DecryptCallKeeps ==
    ASSUME CallsInv, NEW x \in Call, NEW f \in Decrypting, NEW p \in Presented,
           DecryptCall(x, f, p)
    PROVE  Own(x)
<1>1. Framed(x) /\ enc' = enc
  BY DecryptFrame DEF CallsInv
<1>2. /\ pc[x] = "idle" /\ fn'[x] = f /\ input'[x] = p
  BY DEF DecryptCall, CallsInv, Shape
<1>3. code[x] = None /\ enc[x].nonce = None
  BY <1>2 DEF CallsInv, CallInv
<1>4. KnownPacket(p)
  BY PresentedKnown
<1>5. KnownPacket(input[x])'
  BY <1>1, <1>2, <1>4, InputKnown
<1>6. CASE Malformed(p) /\ Throw(x, "invalid_packet") /\ UNCHANGED objectVars
  <2>1. pc'[x] = "done" /\ code'[x] = "invalid_packet"
    BY <1>6 DEF CallsInv, Shape, Throw, End, Goto
  <2>2. Outcome(x)'
    BY <1>2, <1>6, <2>1 DEF Outcome, Malformed
  <2> QED
    BY <1>1, <1>2, <1>3, <1>5, <1>6, <2>1, <2>2, DecryptEnds DEF objectVars
<1>7. CASE ~Malformed(p) /\ Object!ConstructDecryptor(x, x) /\ Proceed(x, "dec_begin")
  <2>1. pc'[x] = "dec_begin" /\ code' = code
    BY <1>7 DEF CallsInv, Shape, Proceed, Goto
  <2>2. PICK k \in Key, a \in Aad :
           dec' = [dec EXCEPT ![x] = [Object!Unborn EXCEPT !.phase = "ready", !.key = k, !.aad = a]]
    BY <1>7 DEF Object!ConstructDecryptor
  <2>3. /\ dec'[x].key = k /\ dec'[x].aad = a /\ dec'[x].plain = << >> /\ dec'[x].verdict = None
    BY <2>2 DEF Object!Unborn, CallsInv, Shape
  <2>4. DecAt(x)'
    BY <1>2, <1>7, <2>1, <2>3 DEF DecAt, Malformed
  <2>5. drawn' = drawn
    BY <1>7 DEF Object!ConstructDecryptor
  <2> QED
    BY <1>1, <1>2, <1>3, <1>5, <2>1, <2>4, <2>5, DecryptGoesOn
<1> QED
  BY <1>6, <1>7 DEF DecryptCall

\* begin() takes the nonce from the packet and binds the associated data to it.
LEMMA DecryptBeginKeeps ==
    ASSUME CallsInv, NEW x \in Call, DecryptBegin(x)
    PROVE  Own(x)
<1> DEFINE o == dec[x]
           p == input[x]
<1>1. /\ pc[x] = "dec_begin" /\ Object!DecBegin(x, NonceOf(p)) /\ Continue(x, "dec_update")
      /\ fn' = fn /\ input' = input /\ Framed(x) /\ enc' = enc /\ drawn' = drawn
  BY DecryptFrame DEF DecryptBegin, callVars, CallsInv, Object!DecBegin
<1>2. /\ fn[x] \in Decrypting /\ ~Malformed(p) /\ o.key \in Key /\ o.aad \in Aad
      /\ o.plain = << >> /\ o.verdict = None /\ code[x] = None /\ enc[x].nonce = None
      /\ KnownPacket(p)
  BY <1>1 DEF CallsInv, CallInv, DecAt
<1>3. faults \in Nat /\ IsObject(o) /\ DOMAIN dec = Call
  BY DEF CallsInv, Shape
<1>4. KnownPacket(input[x])'
  BY <1>1, <1>2, KnownStays
<1>5. CASE faults' # faults
  <2>1. Throw(x, "backend_failure")
    BY <1>1, <1>5 DEF Continue, ObjectThrew
  <2> QED
    BY <1>1, <1>2, <1>4, <2>1, DecryptFails
<1>6. CASE faults' = faults
  <2>1. pc'[x] = "dec_update" /\ code' = code
    BY <1>1, <1>6 DEF Continue, ObjectThrew, Proceed, Goto, CallsInv, Shape
  <2>2. ~Object!Fault
    BY <1>3, <1>6 DEF Object!Fault
  <2> DEFINE ctx == Object!Bind(Object!NewContext(o.context, NonceOf(p)), Object!AadParts(o.aad))
             n == NonceOf(p)
  <2>3. dec' = [dec EXCEPT ![x].context = ctx, ![x].phase = "active", ![x].nonce = n]
    BY <1>1, <2>2 DEF Object!DecBegin
  <2>4. ctx = ContextOf(NonceOf(p), o.aad, << >>)
    BY <1>2, BegunContext
  <2> HIDE DEF ctx, n
  <2>5. dec'[x].context = ctx /\ dec'[x].key = o.key /\ dec'[x].aad = o.aad /\ dec'[x].plain = o.plain
    BY <1>3, <2>3 DEF IsObject
  <2>6. DecAt(x)'
    BY <1>1, <1>2, <2>1, <2>4, <2>5 DEF DecAt, Malformed, NonceOf, ContextOf
  <2> QED
    BY <1>1, <1>2, <1>4, <2>1, <2>6, DecryptGoesOn
<1> QED
  BY <1>5, <1>6

\* The one update() of decrypt() gives the whole text.
LEMMA DecryptedWhole ==
    ASSUME NEW k, NEW n, NEW a, NEW s, Len(s) \in Nat
    PROVE  Object!Decrypt(k, ContextOf(n, a, << >>), s) = TextOf(k, n, s)
<1> DEFINE ctx == ContextOf(n, a, << >>)
<1>1. ctx.nonce = n /\ Len(ctx.text) = 0
  BY DEF ContextOf
<1> HIDE DEF ctx
<1>2. \A i \in 1..Len(s) : Len(ctx.text) + i = i
  BY <1>1
<1>3. Object!Decrypt(k, ctx, s) =
        [i \in 1..Len(s) |-> IF s[i] = Object!CipherByte(k, n, i, s[i].byte) THEN s[i].byte ELSE None]
  BY <1>1, <1>2 DEF Object!Decrypt
<1> QED
  BY <1>3 DEF ctx, TextOf

\* decrypt() passes the ciphertext to update(), once, and none if it is empty.
LEMMA DecryptUpdateKeeps ==
    ASSUME CallsInv, NEW x \in Call, DecryptUpdate(x)
    PROVE  Own(x)
<1> DEFINE o == dec[x]
           p == input[x]
           n == NonceOf(p)
           s == CiphertextOf(p)
           t == TextOf(o.key, n, s)
<1>1. /\ pc[x] = "dec_update" /\ fn' = fn /\ input' = input /\ Framed(x)
      /\ enc' = enc /\ drawn' = drawn
  BY DecryptFrame DEF DecryptUpdate, callVars, CallsInv, objectVars, Object!DecUpdate
<1>2. /\ fn[x] \in Decrypting /\ ~Malformed(p) /\ o.key \in Key /\ o.aad \in Aad
      /\ o.plain = << >> /\ o.context = ContextOf(n, o.aad, << >>)
      /\ code[x] = None /\ enc[x].nonce = None /\ KnownPacket(p)
  BY <1>1 DEF CallsInv, CallInv, DecAt
<1>3. faults \in Nat /\ IsObject(o) /\ DOMAIN dec = Call /\ DOMAIN pc = Call /\ DOMAIN code = Call
  BY DEF CallsInv, Shape
<1>4. KnownPacket(input[x])'
  BY <1>1, <1>2, KnownStays
<1>5. t \in Seq(Byte \cup {None}) /\ Len(s) \in Nat /\ (s = << >> => t = << >>)
  BY <1>2, CiphertextType, TextType
<1>6. CASE TooLong(s) /\ Throw(x, "invalid_input") /\ UNCHANGED objectVars
  <2>1. pc'[x] = "done" /\ code'[x] = "invalid_input" /\ Len(s) > IntMax
    BY <1>3, <1>6 DEF Throw, End, Goto, TooLong
  <2>2. Outcome(x)'
    BY <1>1, <2>1 DEF Outcome, CiphertextOf
  <2> QED
    BY <1>1, <1>2, <1>4, <2>1, <2>2, DecryptEnds
\* The step that goes on.
<1>7. ASSUME dec'[x].plain = t, dec'[x].context = ContextOf(n, o.aad, t),
             dec'[x].key = o.key, dec'[x].aad = o.aad, Proceed(x, "dec_finalize")
      PROVE  Own(x)
  <2>1. pc'[x] = "dec_finalize" /\ code' = code
    BY <1>3, <1>7 DEF Proceed, Goto
  <2>2. DecAt(x)'
    BY <1>1, <1>2, <1>7, <2>1 DEF DecAt, Malformed, NonceOf, CiphertextOf, TextOf, ContextOf
  <2> QED
    BY <1>1, <1>2, <1>4, <2>1, <2>2, DecryptGoesOn
<1>8. CASE s = << >> /\ Proceed(x, "dec_finalize") /\ UNCHANGED objectVars
  <2>1. dec'[x] = o
    BY <1>8 DEF objectVars
  <2> HIDE DEF t, s, n
  <2>2. t = << >>
    BY ONLY <1>5, <1>8
  <2>3. dec'[x].plain = t /\ dec'[x].context = ContextOf(n, o.aad, t)
    BY <1>2, <2>1, <2>2
  <2> QED
    BY <1>7, <1>8, <2>1, <2>3
<1>9. CASE Object!DecUpdate(x, s) /\ Continue(x, "dec_finalize")
  <2>1. CASE faults' # faults
    <3>1. Throw(x, "backend_failure")
      BY <1>9, <2>1 DEF Continue, ObjectThrew
    <3> QED
      BY <1>1, <1>2, <1>4, <3>1, DecryptFails
  <2>2. CASE faults' = faults
    <3>1. Proceed(x, "dec_finalize")
      BY <1>9, <2>2 DEF Continue, ObjectThrew
    <3>2. ~Object!Fault
      BY <1>3, <2>2 DEF Object!Fault
    <3> DEFINE ctx == Object!Absorb(o.context, Object!Decrypt(o.key, o.context, s))
               w == o.plain \o Object!Decrypt(o.key, o.context, s)
               r == o.cipher \o s
    <3>3. dec' = [dec EXCEPT ![x].context = ctx, ![x].plain = w, ![x].cipher = r]
      BY <1>9, <3>2 DEF Object!DecUpdate
    <3>4. Object!Decrypt(o.key, o.context, s) = t
      BY <1>2, <1>5, DecryptedWhole
    <3>5. ctx = ContextOf(n, o.aad, t)
      <4> HIDE DEF t, s, n
      <4>1. ctx = Object!Absorb(ContextOf(n, o.aad, << >>), t)
        BY <1>2, <3>4
      <4>2. t \in Seq(Byte \cup {None})
        BY <1>5
      <4>3. Object!Absorb(ContextOf(n, o.aad, << >>), t) = ContextOf(n, o.aad, t)
        BY ONLY <4>2, AbsorbedContext
      <4> QED
        BY ONLY <4>1, <4>3
    <3>6. w = t
      BY <1>2, <1>5, <3>4, ConcatEmptySeq
    <3> HIDE DEF ctx, w, r
    <3>7. dec'[x].context = ctx /\ dec'[x].plain = w /\ dec'[x].key = o.key /\ dec'[x].aad = o.aad
      BY <1>3, <3>3 DEF IsObject
    <3> QED
      BY <1>7, <3>1, <3>5, <3>6, <3>7
  <2> QED
    BY <2>1, <2>2
<1> QED
  BY <1>6, <1>8, <1>9 DEF DecryptUpdate

\* The tag in a packet is accepted exactly if one call made the packet with the key and the
\* associated data at hand.
LEMMA TagAccepted ==
    ASSUME CallsInv, NEW x \in Call, pc[x] = "dec_finalize"
    PROVE  LET o == dec[x] IN
           /\ TagOf(input[x]) = Object!Tag(o.key, o.context) =>
                 \E e \in Call : Authentic(x, e) /\ o.plain = input[e]
           /\ TagOf(input[x]) # Object!Tag(o.key, o.context) =>
                 \A e \in Call : ~Authentic(x, e)
<1> DEFINE o == dec[x]
           p == input[x]
           n == NonceOf(p)
           s == CiphertextOf(p)
           t == TextOf(o.key, n, s)
           tag == TagFor(o.key, o.aad, n, t)
<1>1. /\ fn[x] \in Decrypting /\ ~Malformed(p) /\ o.key \in Key /\ o.aad \in Aad
      /\ o.plain = t /\ o.context = ContextOf(n, o.aad, t) /\ KnownPacket(p)
  BY DEF CallsInv, CallInv, DecAt
<1>2. Object!Tag(o.key, o.context) = tag
  BY <1>1 DEF Object!Tag, ContextOf, TagFor
<1>3. /\ t \in Seq(Byte \cup {None}) /\ Len(p) - 4 \in Nat /\ Len(p) \in Nat
  BY <1>1, CiphertextType, TextType, LenProperties DEF KnownPacket
\* What is known of a packet that has been made.
<1>4. ASSUME NEW e \in Made
      PROVE  /\ enc[e].key \in Key /\ enc[e].aad \in Aad /\ enc[e].nonce \in Nonce
             /\ input[e] \in Seq(Byte)
             /\ enc[e].tag = TagFor(enc[e].key, enc[e].aad, enc[e].nonce, input[e])
             /\ output[e] = MakePacket(enc[e].nonce,
                                       CipherOf(enc[e].key, enc[e].nonce, input[e]), enc[e].tag)
  BY DEF Made, CallsInv, CallInv, EncAt
<1>5. n \in Nonce \cup {None}
  <2>1. 2 \in 1..Len(p)
    BY <1>3
  <2>2. p[2].kind = "nonce" => \E e \in Made : p[2].val = enc[e].nonce
    BY <1>1, <2>1 DEF KnownPacket, KnownAtom
  <2> QED
    BY <1>4, <2>2 DEF NonceOf
<1>6. tag # None
  BY <1>1, <1>3, <1>5, TagType
<1>7. ASSUME TagOf(p) = tag PROVE \E e \in Call : Authentic(x, e) /\ o.plain = input[e]
  <2>1. p[Len(p) - 1].kind = "tag1" /\ p[Len(p) - 1].val = tag
    BY <1>6, <1>7 DEF TagOf
  <2>2. Len(p) - 1 \in 1..Len(p)
    BY <1>3
  <2>3. PICK e \in Made : tag = enc[e].tag
    BY <1>1, <2>1, <2>2 DEF KnownPacket, KnownAtom
  <2> DEFINE k == enc[e].key
             a == enc[e].aad
             en == enc[e].nonce
             et == input[e]
  <2>4. k \in Key /\ a \in Aad /\ en \in Nonce /\ et \in Seq(Byte) /\ tag = TagFor(k, a, en, et)
    BY <1>4, <2>3
  <2>5. output[e] = MakePacket(en, CipherOf(k, en, et), TagFor(k, a, en, et)) /\ e \in Call
    BY <1>4 DEF Made
  <2> HIDE DEF k, a, en, et
  <2>6. /\ o.key = k /\ o.aad = a /\ t = et
        /\ p = MakePacket(en, CipherOf(k, en, et), TagFor(k, a, en, et))
    <3> DEFINE dk == o.key
               da == o.aad
    <3>1. TagOf(p) = TagFor(k, a, en, et)
      BY <1>7, <2>4
    <3>2. TagFor(dk, da, NonceOf(p), TextOf(dk, NonceOf(p), CiphertextOf(p))) = TagFor(k, a, en, et)
      BY <2>4
    <3> HIDE DEF dk, da
    <3>3. dk = k /\ da = a /\ TextOf(dk, NonceOf(p), CiphertextOf(p)) = et
          /\ p = MakePacket(en, CipherOf(k, en, et), TagFor(k, a, en, et))
      BY <1>1, <2>4, <3>1, <3>2, TagTells
    <3> QED
      BY <3>3 DEF dk, da
  <2>7. Authentic(x, e)
    BY <2>3, <2>5, <2>6 DEF Authentic, Intact, k, a
  <2> QED
    BY <1>1, <2>5, <2>6, <2>7 DEF et
<1>8. ASSUME NEW e \in Call, Authentic(x, e) PROVE TagOf(p) = tag
  <2> DEFINE k == enc[e].key
             en == enc[e].nonce
             et == input[e]
             c == CipherOf(k, en, et)
  <2>1. e \in Made /\ p = output[e] /\ o.key = k /\ o.aad = enc[e].aad
    BY <1>8 DEF Authentic, Intact
  <2>2. /\ k \in Key /\ en \in Nonce /\ et \in Seq(Byte)
        /\ enc[e].tag = TagFor(k, o.aad, en, et) /\ p = MakePacket(en, c, enc[e].tag)
    BY <1>4, <2>1
  <2>3. c \in [1..Len(et) -> CipherBytes] /\ Len(et) \in Nat
    BY <2>2, CipherType
  <2>4. NonceOf(p) = en /\ CiphertextOf(p) = c /\ TagOf(p) = enc[e].tag
    BY <2>2, <2>3, PacketRead
  <2>5. TextOf(k, en, c) = et
    <3>1. et \in [1..Len(et) -> Byte]
      BY <2>2, LenProperties
    <3>2. Len(c) = Len(et)
      <4> HIDE DEF c, et
      <4>1. c \in Seq(CipherBytes)
        BY <2>3, SeqDef
      <4> QED
        BY <2>3, <4>1, LenProperties
    <3>3. \A i \in 1..Len(et) : c[i] = Object!CipherByte(k, en, i, et[i])
      BY DEF CipherOf
    <3>4. \A i \in 1..Len(et) : c[i].byte = et[i]
      <4> SUFFICES ASSUME NEW i \in 1..Len(et) PROVE c[i].byte = et[i]
        OBVIOUS
      <4>1. c[i] = Object!CipherByte(k, en, i, et[i])
        BY <3>3
      <4> HIDE DEF c, et
      <4> QED
        BY <4>1 DEF Object!CipherByte
    <3> HIDE DEF c, et
    <3>5. TextOf(k, en, c) = [i \in 1..Len(et) |-> et[i]]
      BY <3>2, <3>3, <3>4 DEF TextOf
    <3> QED
      BY <3>1, <3>5
  <2> QED
    BY <2>1, <2>2, <2>4, <2>5
<1> QED
  BY <1>2, <1>7, <1>8

\* Whether a packet is authentic does not change when the call that opens it steps.
LEMMA AuthenticStays ==
    ASSUME CallsInv, NEW x \in Call, Framed(x), enc' = enc, fn' = fn, input' = input,
           fn[x] \in Decrypting, dec'[x].key = dec[x].key, dec'[x].aad = dec[x].aad
    PROVE  \A e \in Call : Authentic(x, e)' <=> Authentic(x, e)
<1>1. \A e \in Made : e \in Made' /\ output'[e] = output[e]
  BY MadeStays DEF Same
<1>2. ASSUME NEW e \in Made' PROVE e \in Made
  <2>1. e # x
    BY DEF Made, Encrypting, Decrypting
  <2> QED
    BY <2>1, MadeStays
<1> QED
  BY <1>1, <1>2 DEF Authentic, Intact

\* finalize() gives the verdict; only then does unwrap_key look at the size of the key.
LEMMA DecryptFinalizeKeeps ==
    ASSUME CallsInv, NEW x \in Call, DecryptFinalize(x)
    PROVE  Own(x)
<1> DEFINE o == dec[x]
           p == input[x]
           tag == Object!Tag(o.key, o.context)
<1>1. /\ pc[x] = "dec_finalize" /\ fn' = fn /\ input' = input /\ Framed(x) /\ enc' = enc
      /\ drawn' = drawn /\ Object!DecFinalize(x, TagOf(p))
  BY DecryptFrame DEF DecryptFinalize, callVars, CallsInv, Object!DecFinalize
<1>2. /\ fn[x] \in Decrypting /\ ~Malformed(p) /\ enc[x].nonce = None /\ KnownPacket(p)
      /\ o.context.spent = FALSE
  <2>1. /\ fn[x] \in Decrypting /\ ~Malformed(p) /\ enc[x].nonce = None /\ KnownPacket(p)
        /\ o.context = ContextOf(NonceOf(p), o.aad, o.plain)
    BY <1>1 DEF CallsInv, CallInv, DecAt
  <2>2. o.context.spent = FALSE
    BY <2>1 DEF ContextOf
  <2> QED
    BY <2>1, <2>2
<1>3. /\ faults \in Nat /\ IsObject(o) /\ DOMAIN dec = Call
      /\ DOMAIN pc = Call /\ DOMAIN code = Call /\ DOMAIN output = Call
  BY DEF CallsInv, Shape
<1>4. KnownPacket(input[x])'
  BY <1>1, <1>2, KnownStays
<1>5. CASE faults' # faults
  <2>1. Throw(x, "backend_failure")
    BY <1>1, <1>5 DEF DecryptFinalize, ObjectThrew
  <2> QED
    BY <1>1, <1>2, <1>4, <2>1, DecryptFails
<1>6. CASE faults' = faults
  <2>1. ~Object!Fault
    BY <1>3, <1>6 DEF Object!Fault
  <2>2. \/ TagOf(p) = tag /\ Object!Finish(x, "ok")
        \/ TagOf(p) # tag /\ Object!Finish(x, "authentication_failed")
    BY <1>1, <1>2, <2>1 DEF Object!DecFinalize
  <2>3. ASSUME NEW v, Object!Finish(x, v)
        PROVE  dec'[x].key = o.key /\ dec'[x].aad = o.aad /\ dec'[x].verdict = v
    BY <1>3, <2>3 DEF Object!Finish, IsObject
  <2>4. dec'[x].key = o.key /\ dec'[x].aad = o.aad
    BY <2>2, <2>3
  <2>5. \A e \in Call : Authentic(x, e)' <=> Authentic(x, e)
    BY <1>1, <1>2, <2>4, AuthenticStays
  <2>6. CASE TagOf(p) = tag /\ Object!Finish(x, "ok")
    <3>1. Unwrapped(x, o.plain)
      BY <1>1, <1>6, <2>3, <2>6 DEF DecryptFinalize, ObjectThrew
    <3>2. PICK e \in Call : Authentic(x, e) /\ o.plain = input[e]
      BY <1>1, <2>6, TagAccepted
    <3>3. Authentic(x, e)' /\ input'[e] = o.plain
      BY <1>1, <2>5, <3>2
    <3>4. CASE fn[x] = "unwrap_key" /\ Len(o.plain) # kKeySize
      <4>1. pc'[x] = "done" /\ code'[x] = "invalid_packet"
        BY <1>3, <3>1, <3>4 DEF Unwrapped, Throw, End, Goto
      <4>2. Outcome(x)'
        BY <1>1, <3>3, <3>4, <4>1 DEF Outcome
      <4> QED
        BY <1>1, <1>2, <1>4, <4>1, <4>2, DecryptEnds
    <3>5. CASE ~(fn[x] = "unwrap_key" /\ Len(o.plain) # kKeySize)
      <4>1. pc'[x] = "done" /\ code'[x] = "ok" /\ output'[x] = o.plain
        BY <1>3, <3>1, <3>5 DEF Unwrapped, End, Goto
      <4>2. Outcome(x)'
        BY <1>1, <3>3, <3>5, <4>1 DEF Outcome
      <4> QED
        BY <1>1, <1>2, <1>4, <4>1, <4>2, DecryptEnds
    <3> QED
      BY <3>4, <3>5
  <2>7. CASE TagOf(p) # tag /\ Object!Finish(x, "authentication_failed")
    <3>1. Refuse(x)
      BY <1>1, <1>6, <2>3, <2>7 DEF DecryptFinalize, ObjectThrew
    <3>2. pc'[x] = "done" /\ code'[x] = "authentication_failed"
      BY <1>3, <3>1 DEF Refuse, Throw, End, Goto
    <3>3. \A e \in Call : ~Authentic(x, e)'
      BY <1>1, <2>5, <2>7, TagAccepted
    <3>4. Outcome(x)'
      BY <3>2, <3>3 DEF Outcome
    <3> QED
      BY <1>1, <1>2, <1>4, <3>2, <3>4, DecryptEnds
  <2> QED
    BY <2>2, <2>6, <2>7
<1> QED
  BY <1>5, <1>6

-----------------------------------------------------------------------------
(* The theorems. *)

\* No call is running, and nothing has been made.
LEMMA InitInv == Init => CallsInv
<1> SUFFICES ASSUME Init PROVE CallsInv
  OBVIOUS
<1>1. /\ \A c \in Call : enc[c] = Object!Unborn /\ dec[c] = Object!Unborn
      /\ DOMAIN enc = Call /\ DOMAIN dec = Call /\ faults = 0
  BY DEF Init, Object!Init
<1>2. Shape
  BY <1>1 DEF Init, Shape, IsObject, Object!Unborn
<1>3. \A c \in Call : enc[c].nonce = None
  <2>1. Object!Unborn.nonce = None
    BY DEF Object!Unborn
  <2> QED
    BY <1>1, <2>1
<1>4. Made = {}
  BY NoneAssumption DEF Init, Made
<1>5. \A c \in Call : pc[c] = "idle" /\ code[c] = None
  BY DEF Init
<1>6. ASSUME NEW c \in Call PROVE CallInv(c)
  BY <1>3, <1>4, <1>5 DEF CallInv, EncAt, DecAt
<1> QED
  BY <1>2, <1>3, <1>6 DEF CallsInv, Nonces

\* A plaintext is a sequence of bytes, and so is a key.
LEMMA PlaintextType == Plaintexts \subseteq Seq(Byte) /\ [1..kKeySize -> Byte] \subseteq Seq(Byte)
<1>1. ASSUME NEW n \in Nat PROVE [1..n -> Byte] \subseteq Seq(Byte)
  BY SeqDef
<1>2. ASSUME NEW t \in Plaintexts PROVE t \in Seq(Byte)
  <2>1. PICK n \in PlainLen : t \in [1..n -> Byte]
    BY DEF Plaintexts
  <2> QED
    BY <1>1, <2>1, PacketLengths
<1> QED
  BY <1>1, <1>2, PacketLengths

\* Every step of a call keeps that call's part of the invariant and moves only that call.
LEMMA StepKeeps ==
    ASSUME CallsInv, NEW x \in Call, CallStep(x)
    PROVE  Framed(x) /\ Own(x)
<1>1. ASSUME NEW f \in Encrypting, NEW t \in Seq(Byte), EncryptCall(x, f, t)
      PROVE  Framed(x) /\ Own(x)
  BY <1>1, EncryptFrame, EncryptCallKeeps DEF CallsInv
<1>2. CASE EncryptBegin(x)
  BY <1>2, EncryptFrame, EncryptBeginKeeps DEF CallsInv
<1>3. CASE EncryptUpdate(x)
  BY <1>3, EncryptFrame, EncryptUpdateKeeps DEF CallsInv
<1>4. CASE EncryptFinalize(x)
  BY <1>4, EncryptFrame, EncryptFinalizeKeeps DEF CallsInv
<1>5. ASSUME NEW f \in Decrypting, NEW p \in Presented, DecryptCall(x, f, p)
      PROVE  Framed(x) /\ Own(x)
  BY <1>5, DecryptFrame, DecryptCallKeeps DEF CallsInv
<1>6. CASE DecryptBegin(x)
  BY <1>6, DecryptFrame, DecryptBeginKeeps DEF CallsInv
<1>7. CASE DecryptUpdate(x)
  BY <1>7, DecryptFrame, DecryptUpdateKeeps DEF CallsInv
<1>8. CASE DecryptFinalize(x)
  BY <1>8, DecryptFrame, DecryptFinalizeKeeps DEF CallsInv
<1>9. "encrypt" \in Encrypting /\ "wrap_key" \in Encrypting
  BY DEF Encrypting
<1> QED
  BY <1>1, <1>2, <1>3, <1>4, <1>5, <1>6, <1>7, <1>8, <1>9, PlaintextType DEF CallStep

\* The invariant is inductive.
LEMMA InvKept == CallsInv /\ [Next]_vars => CallsInv'
<1> SUFFICES ASSUME CallsInv, [Next]_vars PROVE CallsInv'
  OBVIOUS
<1>1. CASE Next
  <2>1. PICK x \in Call : CallStep(x)
    BY <1>1 DEF Next, CallStep
  <2>2. Framed(x) /\ Own(x)
    BY <2>1, StepKeeps
  <2>3. Shape'
    BY <2>2 DEF CallsInv, Shape, Framed, Same
  <2>4. Nonces'
    BY <2>2 DEF CallsInv, Nonces, Framed, Same, Own, NonceStep
  <2>5. ASSUME NEW c \in Call PROVE CallInv(c)'
    BY <2>2, OthersKeep DEF Own
  <2> QED
    BY <2>3, <2>4, <2>5 DEF CallsInv
<1>2. CASE UNCHANGED vars
  <2>1. /\ enc' = enc /\ dec' = dec /\ drawn' = drawn /\ faults' = faults /\ fn' = fn /\ pc' = pc
        /\ input' = input /\ code' = code /\ output' = output
    BY <1>2 DEF vars, objectVars, callVars
  <2>2. Shape' /\ Nonces'
    BY <2>1 DEF CallsInv, Shape, Nonces
  <2>3. Made' = Made
    BY <2>1 DEF Made
  <2>4. ASSUME NEW c \in Call PROVE CallInv(c)'
    <3>1. CallInv(c)
      BY DEF CallsInv
    <3>2. EncAt(c)' /\ DecAt(c)'
      BY <2>1, <2>3, <3>1 DEF CallInv, EncAt, DecAt
    <3>3. KnownPacket(input[c]) => KnownPacket(input[c])'
      BY <2>1, <2>3 DEF KnownPacket, KnownAtom
    <3>4. Outcome(c) => Outcome(c)'
      BY <2>1, <2>3 DEF Outcome, Authentic, Intact
    <3> QED
      BY <2>1, <2>3, <3>1, <3>2, <3>3, <3>4 DEF CallInv
  <2> QED
    BY <2>2, <2>4 DEF CallsInv
<1> QED
  BY <1>1, <1>2

\* The inductive invariant of the one-shot calls.
THEOREM CallsInvariant == Spec => []CallsInv
<1> QED
  BY InitInv, InvKept, PTL DEF Spec

\* A call that has told something is over, and what it told is its outcome.
LEMMA Told ==
    ASSUME CallsInv, NEW c \in Call, fn[c] \in Decrypting, code[c] # None \/ pc[c] = "done"
    PROVE  Outcome(c) /\ pc[c] = "done"
BY DEF CallsInv, CallInv

\* What the packet of a completed encrypting call reads as.
LEMMA IntactReads ==
    ASSUME CallsInv, NEW c \in Call, NEW e \in Call, Intact(c, e)
    PROVE  /\ ~Malformed(input[c]) /\ NonceOf(input[c]) = enc[e].nonce
           /\ enc[e].nonce \in Nonce /\ ~(Len(CiphertextOf(input[c])) > IntMax)
<1> DEFINE o == enc[e]
           t == input[e]
           s == CipherOf(o.key, o.nonce, t)
<1>1. /\ o.nonce \in Nonce /\ o.key \in Key /\ t \in Seq(Byte) /\ Len(t) <= IntMax
      /\ input[c] = MakePacket(o.nonce, s, o.tag)
  BY DEF Intact, Made, CallsInv, CallInv, EncAt
<1>2. s \in [1..Len(t) -> CipherBytes] /\ Len(t) \in Nat
  BY <1>1, CipherType
<1>3. /\ ~Malformed(input[c]) /\ NonceOf(input[c]) = o.nonce /\ CiphertextOf(input[c]) = s
  BY <1>1, <1>2, PacketRead
<1>4. Len(s) = Len(t)
  <2> HIDE DEF s, t
  <2>1. s \in Seq(CipherBytes)
    BY <1>2, SeqDef
  <2> QED
    BY <1>2, <2>1, LenProperties
<1> QED
  BY <1>1, <1>2, <1>3, <1>4

\* Only what encrypt or wrap_key returned opens, and to its own plaintext (OpensOnlyMade): for
\* any number of calls, keys and packets, and any cutting and joining of them.
THEOREM OpensOnlyMadeCorrect == Spec => []OpensOnlyMade
<1>1. CallsInv => OpensOnlyMade
  BY Told DEF OpensOnlyMade, Outcome
<1> QED
  BY <1>1, CallsInvariant, PTL

\* What encrypt or wrap_key returned opens again (IntactOpens): no other error than one of
\* OpenSSL, a wrong key or associated data, or a wrapped text that is no key.
THEOREM IntactOpensCorrect == Spec => []IntactOpens
<1>1. ASSUME CallsInv, NEW c \in Call, NEW e \in Call, fn[c] \in Decrypting, pc[c] = "done",
             Intact(c, e)
      PROVE  \/ code[c] \in {"ok", "backend_failure"}
             \/ code[c] = "authentication_failed" /\ ~Authentic(c, e)
             \/ fn[c] = "unwrap_key" /\ Len(input[e]) # kKeySize
  <2>1. Outcome(c)
    BY <1>1, Told
  <2>2. /\ ~Malformed(input[c]) /\ NonceOf(input[c]) = enc[e].nonce
        /\ enc[e].nonce \in Nonce /\ ~(Len(CiphertextOf(input[c])) > IntMax)
    BY <1>1, IntactReads
  <2>3. ASSUME NEW d \in Call, Authentic(c, d) PROVE d = e
    <3>1. Intact(c, d)
      BY <2>3 DEF Authentic
    <3>2. NonceOf(input[c]) = enc[d].nonce
      BY <1>1, <3>1, IntactReads
    <3> QED
      BY <1>1, <2>2, <3>2 DEF CallsInv, Nonces
  <2> QED
    BY <2>1, <2>2, <2>3 DEF Outcome
<1>2. CallsInv => IntactOpens
  BY <1>1 DEF IntactOpens
<1> QED
  BY <1>2, CallsInvariant, PTL

\* A failure tells nothing but the packet's shape or the size of an authenticated key
\* (FailureTellsLittle).
THEOREM FailureTellsLittleCorrect == Spec => []FailureTellsLittle
<1>1. CallsInv => FailureTellsLittle
  BY Told DEF FailureTellsLittle, Outcome
<1> QED
  BY <1>1, CallsInvariant, PTL

\* unwrap_key returns a key, whatever has been wrapped (UnwrapsKeys).
THEOREM UnwrapsKeysCorrect == Spec => []UnwrapsKeys
<1>1. CallsInv => UnwrapsKeys
  BY Told DEF UnwrapsKeys, Outcome, Decrypting
<1> QED
  BY <1>1, CallsInvariant, PTL
=============================================================================

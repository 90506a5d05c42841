------------------------- MODULE PacketStreamProofs -------------------------
(***************************************************************************)
(* Proofs about PacketStream, for any number of objects, variables, keys,  *)
(* nonces, bytes and faults, and packets of any length.                    *)
(***************************************************************************)
EXTENDS PacketStream, SequenceTheorems, TLAPS

USE LenAssumption, FaultsAssumption, PacketNoneAssumption

\* An encryptor is not a decryptor, nor is a variable for the one a variable for the other.
ObjectsDistinct == EncVar \cap DecVar = {} /\ EncImpl \cap DecImpl = {}

\* The values of an impl object.
Cipher == [key : Key \cup {None}, nonce : Nonce \cup {None}, at : Nat, byte : Byte \cup {None}]
State == [phase : Phase, key : Key \cup {None}, aad : Aad \cup {None},
          context : Context \cup {None}, nonce : Nonce \cup {None},
          cipher : Seq(Cipher), plain : Text, tag : TagValue \cup {None}, lost : BOOLEAN,
          verdict : Verdict \cup {None}]

\* What holds of both kinds of object: an active one works on a context with its own nonce
\* and all the associated data, which has processed exactly the text unless an update threw.
Sound(s) ==
    /\ s.phase # "unborn" => s.key \in Key /\ s.aad \in Aad
    /\ s.phase \in {"unborn", "ready"} =>
          s.nonce = None /\ s.cipher = << >> /\ s.plain = << >> /\ ~s.lost
    /\ s.phase = "active" =>
          /\ s.context \in Context
          /\ s.context.nonce = s.nonce /\ s.context.bound = AadParts(s.aad)
          /\ ~s.lost => s.context.text = s.plain
    /\ s.phase = "finished" => s.context = None

\* An encryptor's ciphertext is its plaintext, byte by byte; it has a tag when it is finished.
EncSound(s) ==
    /\ Sound(s)
    /\ s.tag # None <=> s.phase = "finished"
    /\ s.phase = "finished" => /\ s.tag.key = s.key /\ s.tag.nonce = s.nonce
                               /\ s.tag.bound = AadParts(s.aad)
                               /\ ~s.lost => s.tag.text = s.plain
    /\ ~s.lost => /\ Len(s.plain) = Len(s.cipher)
                  /\ \A n \in 1..Len(s.cipher) :
                        s.cipher[n] = CipherByte(s.key, s.nonce, n, s.plain[n])

\* The byte a decryptor makes of the n-th byte of ciphertext.
Deciphered(key, nonce, n, c) == IF c = CipherByte(key, nonce, n, c.byte) THEN c.byte ELSE None

\* A decryptor's plaintext is its ciphertext decrypted; it has a verdict when it is finished.
DecSound(s) ==
    /\ Sound(s)
    /\ s.verdict # None <=> s.phase = "finished"
    /\ ~s.lost => /\ Len(s.plain) = Len(s.cipher)
                  /\ \A n \in 1..Len(s.cipher) :
                        s.plain[n] = Deciphered(s.key, s.nonce, n, s.cipher[n])

-----------------------------------------------------------------------------
(* Contexts. *)

\* begin() binds a new context to all the associated data, whatever context it replaces.
LEMMA NewContextBound ==
    ASSUME NEW old, NEW n \in Nonce \cup {None}, NEW a \in Aad
    PROVE  /\ Bind(NewContext(old, n), AadParts(a)) \in Context
           /\ Bind(NewContext(old, n), AadParts(a)).nonce = n
           /\ Bind(NewContext(old, n), AadParts(a)).bound = AadParts(a)
           /\ Bind(NewContext(old, n), AadParts(a)).text = << >>
<1>1. AadParts(a) \in Bound /\ << >> \in Bound /\ << >> \in Text
  BY DEF AadParts, Bound, Text
<1>2. << >> \o AadParts(a) = AadParts(a)
  BY <1>1, ConcatEmptySeq DEF Bound
<1> QED
  BY <1>1, <1>2 DEF Bind, NewContext, Context

\* A begin() that fails after m parts of the associated data still leaves a context.
LEMMA HalfContext ==
    ASSUME NEW old, NEW n \in Nonce \cup {None}, NEW a \in Aad, NEW m \in 0..1
    PROVE  Bind(NewContext(old, n), SubSeq(AadParts(a), 1, m)) \in Context
<1>1. AadParts(a) \in Bound /\ << >> \in Bound /\ << >> \in Text /\ Len(AadParts(a)) = 2
  BY DEF AadParts, Bound, Text
<1>2. SubSeq(AadParts(a), 1, m) \in Bound
  <2>1. \A i \in 1..m : AadParts(a)[i] \in {"header"} \cup Aad
    BY DEF AadParts
  <2> QED
    BY <2>1, SubSeqProperties DEF Bound
<1>3. << >> \o SubSeq(AadParts(a), 1, m) \in Bound
  BY <1>1, <1>2, ConcatProperties DEF Bound
<1> QED
  BY <1>1, <1>3 DEF Bind, NewContext, Context

\* EVP_EncryptUpdate or EVP_DecryptUpdate adds to the text a context has processed.
LEMMA AbsorbContext ==
    ASSUME NEW ctx \in Context, NEW t \in Text
    PROVE  /\ Absorb(ctx, t) \in Context
           /\ Absorb(ctx, t).nonce = ctx.nonce /\ Absorb(ctx, t).bound = ctx.bound
           /\ Absorb(ctx, t).text = ctx.text \o t
<1>1. ctx.text \o t \in Text
  BY ConcatProperties DEF Context, Text
<1> QED
  BY <1>1 DEF Absorb, Context

\* A failed final call changes nothing else of a context.
LEMMA SpentContext ==
    ASSUME NEW ctx \in Context
    PROVE  LET c == [ctx EXCEPT !.spent = TRUE] IN
           c \in Context /\ c.nonce = ctx.nonce /\ c.bound = ctx.bound /\ c.text = ctx.text
  BY DEF Context

-----------------------------------------------------------------------------
(* Ciphertext. *)

\* Ciphertext is as long as the text, and each byte is bound to its place in the stream.
LEMMA EncryptBytes ==
    ASSUME NEW k \in Key, NEW ctx \in Context, NEW t \in Text
    PROVE  /\ Encrypt(k, ctx, t) \in Seq(Cipher) /\ Len(Encrypt(k, ctx, t)) = Len(t)
           /\ \A n \in 1..Len(t) :
                 Encrypt(k, ctx, t)[n] = CipherByte(k, ctx.nonce, Len(ctx.text) + n, t[n])
<1>1. Len(t) \in Nat /\ Len(ctx.text) \in Nat /\ \A n \in 1..Len(t) : t[n] \in Byte \cup {None}
  BY DEF Context, Text
<1>2. \A n \in 1..Len(t) : CipherByte(k, ctx.nonce, Len(ctx.text) + n, t[n]) \in Cipher
  BY <1>1 DEF CipherByte, Cipher, Context
<1>3. Encrypt(k, ctx, t) \in [1..Len(t) -> Cipher]
  BY <1>2 DEF Encrypt
<1>4. Encrypt(k, ctx, t) \in Seq(Cipher)
  BY <1>1, <1>3, SeqDef
<1>5. Len(Encrypt(k, ctx, t)) = Len(t)
  BY <1>1, <1>3, <1>4, LenProperties
<1> QED
  BY <1>4, <1>5 DEF Encrypt

\* Decrypted text is as long as the ciphertext, byte by byte.
LEMMA DecryptBytes ==
    ASSUME NEW k \in Key, NEW ctx \in Context, NEW c \in Seq(Cipher)
    PROVE  /\ Decrypt(k, ctx, c) \in Text /\ Len(Decrypt(k, ctx, c)) = Len(c)
           /\ \A n \in 1..Len(c) :
                 Decrypt(k, ctx, c)[n] = Deciphered(k, ctx.nonce, Len(ctx.text) + n, c[n])
<1>1. Len(c) \in Nat /\ \A n \in 1..Len(c) : c[n].byte \in Byte \cup {None}
  <2>1. \A n \in 1..Len(c) : c[n] \in Cipher
    BY ElementOfSeq
  <2> QED
    BY <2>1, LenProperties DEF Cipher
<1>2. Decrypt(k, ctx, c) \in [1..Len(c) -> Byte \cup {None}]
  BY <1>1 DEF Decrypt
<1>3. Decrypt(k, ctx, c) \in Text
  BY <1>1, <1>2, SeqDef DEF Text
<1>4. Len(Decrypt(k, ctx, c)) = Len(c)
  BY <1>1, <1>2, <1>3, LenProperties DEF Text
<1> QED
  BY <1>3, <1>4 DEF Decrypt, Deciphered

-----------------------------------------------------------------------------
(* Each call on an object, as a change of its state s. *)

\* A constructor makes a ready object.
LEMMA Constructed ==
    ASSUME NEW k \in Key, NEW a \in Aad
    PROVE  LET s == [Unborn EXCEPT !.phase = "ready", !.key = k, !.aad = a] IN
           s \in State /\ EncSound(s) /\ DecSound(s)
<1> DEFINE s == [Unborn EXCEPT !.phase = "ready", !.key = k, !.aad = a]
<1>1. << >> \in Seq(Cipher) /\ << >> \in Text
  BY DEF Text
<1>2. s \in State
  BY <1>1 DEF Unborn, State, Phase
<1>3. /\ s.phase = "ready" /\ s.key = k /\ s.aad = a /\ s.nonce = None /\ s.tag = None
      /\ s.cipher = << >> /\ s.plain = << >> /\ s.lost = FALSE /\ s.verdict = None
  BY DEF Unborn
<1> HIDE DEF s
<1>4. Sound(s)
  BY <1>3 DEF Sound
<1>5. Len(s.cipher) = 0 /\ Len(s.plain) = 0
  BY <1>3
<1>6. EncSound(s) /\ DecSound(s)
  BY <1>3, <1>4, <1>5 DEF EncSound, DecSound
<1> QED
  BY <1>2, <1>6 DEF s

\* The state an impl object has before its constructor runs.
LEMMA UnbornSound == Unborn \in State /\ EncSound(Unborn) /\ DecSound(Unborn)
  BY DEF Unborn, State, Sound, EncSound, DecSound, Phase, Text

\* begin() on either side: a sound ready object becomes a sound active one.
LEMMA Begun ==
    ASSUME NEW s \in State, s.phase = "ready", NEW n \in Nonce \cup {None}
    PROVE  LET t == [s EXCEPT !.context = Bind(NewContext(s.context, n), AadParts(s.aad)),
                              !.phase = "active", !.nonce = n] IN
           /\ EncSound(s) => t \in State /\ EncSound(t)
           /\ DecSound(s) => t \in State /\ DecSound(t)
<1> SUFFICES ASSUME Sound(s) PROVE
           LET t == [s EXCEPT !.context = Bind(NewContext(s.context, n), AadParts(s.aad)),
                              !.phase = "active", !.nonce = n] IN
           /\ EncSound(s) => t \in State /\ EncSound(t)
           /\ DecSound(s) => t \in State /\ DecSound(t)
  BY DEF EncSound, DecSound
<1> DEFINE ctx == Bind(NewContext(s.context, n), AadParts(s.aad))
           t == [s EXCEPT !.context = ctx, !.phase = "active", !.nonce = n]
<1>1. /\ ctx \in Context /\ ctx.nonce = n /\ ctx.bound = AadParts(s.aad) /\ ctx.text = << >>
  BY NewContextBound DEF Sound
<1> HIDE DEF ctx
<1>2. /\ t \in State
      /\ t.phase = "active" /\ t.nonce = n /\ t.context = ctx
      /\ t.key = s.key /\ t.aad = s.aad /\ t.cipher = s.cipher /\ t.plain = s.plain
      /\ t.tag = s.tag /\ t.lost = s.lost /\ t.verdict = s.verdict
  BY <1>1 DEF State, Phase
<1> HIDE DEF t
<1>3. s.cipher = << >> /\ s.plain = << >> /\ Len(s.cipher) = 0 /\ Len(s.plain) = 0
  BY DEF Sound
<1>4. Sound(t)
  BY <1>1, <1>2, <1>3 DEF Sound
<1> QED
  BY <1>2, <1>3, <1>4 DEF EncSound, DecSound, t, ctx

\* begin() failed on either side; the context may be half made.
LEMMA HalfBegun ==
    ASSUME NEW s \in State, s.phase = "ready", NEW n \in Nonce \cup {None}, NEW m \in 0..1
    PROVE  LET t == [s EXCEPT !.context = Bind(NewContext(s.context, n),
                                               SubSeq(AadParts(s.aad), 1, m))] IN
           /\ EncSound(s) => t \in State /\ EncSound(t)
           /\ DecSound(s) => t \in State /\ DecSound(t)
<1> DEFINE ctx == Bind(NewContext(s.context, n), SubSeq(AadParts(s.aad), 1, m))
           t == [s EXCEPT !.context = ctx]
<1>1. Sound(s) => ctx \in Context
  BY HalfContext DEF Sound
<1> HIDE DEF ctx
<1>2. ctx \in Context =>
      /\ t \in State
      /\ t.phase = s.phase /\ t.nonce = s.nonce
      /\ t.key = s.key /\ t.aad = s.aad /\ t.cipher = s.cipher /\ t.plain = s.plain
      /\ t.tag = s.tag /\ t.lost = s.lost /\ t.verdict = s.verdict
  BY DEF State
<1> HIDE DEF t
<1> QED
  BY <1>1, <1>2 DEF Sound, EncSound, DecSound, t, ctx

\* encryptor.update().
LEMMA EncUpdated ==
    ASSUME NEW s \in State, EncSound(s), s.phase = "active", NEW text \in Text
    PROVE  LET t == [s EXCEPT !.context = Absorb(@, text),
                              !.cipher = @ \o Encrypt(s.key, s.context, text),
                              !.plain = @ \o text] IN
           t \in State /\ EncSound(t)
<1> DEFINE ctx == Absorb(s.context, text)
           made == Encrypt(s.key, s.context, text)
           t == [s EXCEPT !.context = ctx, !.cipher = @ \o made, !.plain = @ \o text]
<1>1. s.context \in Context /\ s.key \in Key /\ s.cipher \in Seq(Cipher) /\ s.plain \in Text
  BY DEF EncSound, Sound, State
<1>2. /\ ctx \in Context /\ ctx.nonce = s.context.nonce /\ ctx.bound = s.context.bound
      /\ ctx.text = s.context.text \o text
  BY <1>1, AbsorbContext
<1>3. /\ made \in Seq(Cipher) /\ Len(made) = Len(text)
      /\ \A n \in 1..Len(text) :
            made[n] = CipherByte(s.key, s.context.nonce, Len(s.context.text) + n, text[n])
  BY <1>1, EncryptBytes
<1> HIDE DEF ctx, made
<1>4. /\ s.cipher \o made \in Seq(Cipher)
      /\ Len(s.cipher \o made) = Len(s.cipher) + Len(made)
      /\ \A n \in 1..(Len(s.cipher) + Len(made)) :
            (s.cipher \o made)[n] = IF n <= Len(s.cipher) THEN s.cipher[n]
                                    ELSE made[n - Len(s.cipher)]
  BY ONLY <1>1, <1>3, ConcatProperties
<1>5. /\ s.plain \o text \in Text
      /\ Len(s.plain \o text) = Len(s.plain) + Len(text)
      /\ \A n \in 1..(Len(s.plain) + Len(text)) :
            (s.plain \o text)[n] = IF n <= Len(s.plain) THEN s.plain[n]
                                   ELSE text[n - Len(s.plain)]
  BY <1>1, ConcatProperties DEF Text
<1>6. /\ t \in State
      /\ t.phase = "active" /\ t.context = ctx /\ t.nonce = s.nonce
      /\ t.key = s.key /\ t.aad = s.aad /\ t.cipher = s.cipher \o made
      /\ t.plain = s.plain \o text
      /\ t.tag = s.tag /\ t.lost = s.lost /\ t.verdict = s.verdict
  BY <1>2, <1>4, <1>5 DEF State
<1> HIDE DEF t
<1>7. Sound(t)
  BY <1>1, <1>2, <1>6 DEF Sound, EncSound
<1>8. ASSUME ~s.lost, NEW n \in 1..Len(t.cipher)
      PROVE  t.cipher[n] = CipherByte(t.key, t.nonce, n, t.plain[n])
  <2>1. Len(s.plain) = Len(s.cipher) /\ s.context.text = s.plain /\ s.context.nonce = s.nonce
    BY <1>8 DEF EncSound, Sound
  <2>2. Len(s.cipher) \in Nat /\ Len(text) \in Nat /\ n \in 1..(Len(s.cipher) + Len(text))
    BY <1>1, <1>3, <1>4, <1>6, LenProperties DEF Text
  <2>3. CASE n <= Len(s.cipher)
    <3>1. s.cipher[n] = CipherByte(s.key, s.nonce, n, s.plain[n])
      BY <1>8, <2>2, <2>3 DEF EncSound
    <3> QED
      BY <1>3, <1>4, <1>5, <1>6, <2>1, <2>2, <2>3, <3>1
  <2>4. CASE n > Len(s.cipher)
    <3>1. /\ n - Len(s.cipher) \in 1..Len(text)
          /\ Len(s.context.text) + (n - Len(s.cipher)) = n
      BY <2>1, <2>2, <2>4
    <3>2. made[n - Len(s.cipher)] = CipherByte(s.key, s.nonce, n, text[n - Len(s.cipher)])
      BY <1>3, <2>1, <3>1
    <3> QED
      BY <1>3, <1>4, <1>5, <1>6, <2>1, <2>2, <2>4, <3>2
  <2> QED
    BY <2>2, <2>3, <2>4
<1>9. ~s.lost => Len(t.plain) = Len(t.cipher)
  BY <1>3, <1>4, <1>5, <1>6 DEF EncSound
<1>10. EncSound(t)
  BY <1>6, <1>7, <1>8, <1>9 DEF EncSound
<1> QED
  BY <1>6, <1>10 DEF t, ctx, made

\* update() threw on either side; the context may have processed the text.
LEMMA UpdateLost ==
    ASSUME NEW s \in State, s.phase = "active", NEW text \in Text
    PROVE  LET t == [s EXCEPT !.context = Absorb(@, text), !.lost = TRUE] IN
           /\ EncSound(s) => t \in State /\ EncSound(t)
           /\ DecSound(s) => t \in State /\ DecSound(t)
<1> DEFINE ctx == Absorb(s.context, text)
           t == [s EXCEPT !.context = ctx, !.lost = TRUE]
<1>1. Sound(s) => /\ ctx \in Context /\ ctx.nonce = s.nonce /\ ctx.bound = AadParts(s.aad)
  BY AbsorbContext DEF Sound
<1> HIDE DEF ctx
<1>2. ctx \in Context =>
      /\ t \in State
      /\ t.phase = s.phase /\ t.nonce = s.nonce /\ t.context = ctx
      /\ t.key = s.key /\ t.aad = s.aad /\ t.lost
      /\ t.tag = s.tag /\ t.verdict = s.verdict
  BY DEF State
<1> HIDE DEF t
<1> QED
  BY <1>1, <1>2 DEF Sound, EncSound, DecSound, t, ctx

\* A final call failed; the context cannot be used any more.
LEMMA FinalSpent ==
    ASSUME NEW s \in State, s.phase = "active"
    PROVE  LET t == [s EXCEPT !.context.spent = TRUE] IN
           /\ EncSound(s) => t \in State /\ EncSound(t)
           /\ DecSound(s) => t \in State /\ DecSound(t)
<1> DEFINE ctx == [s.context EXCEPT !.spent = TRUE]
           t == [s EXCEPT !.context = ctx]
<1>1. Sound(s) => /\ ctx \in Context /\ ctx.nonce = s.nonce /\ ctx.bound = AadParts(s.aad)
                  /\ ctx.text = s.context.text
  BY SpentContext DEF Sound
<1> HIDE DEF ctx
<1>2. ctx \in Context =>
      /\ t \in State
      /\ t.phase = s.phase /\ t.nonce = s.nonce /\ t.context = ctx
      /\ t.key = s.key /\ t.aad = s.aad /\ t.cipher = s.cipher /\ t.plain = s.plain
      /\ t.tag = s.tag /\ t.lost = s.lost /\ t.verdict = s.verdict
  BY DEF State
<1> HIDE DEF t
<1> QED
  BY <1>1, <1>2 DEF Sound, EncSound, DecSound, t, ctx

\* encryptor.finalize().
LEMMA EncFinalized ==
    ASSUME NEW s \in State, EncSound(s), s.phase = "active"
    PROVE  LET t == [s EXCEPT !.tag = Tag(s.key, s.context), !.context = None,
                              !.phase = "finished"] IN
           t \in State /\ EncSound(t)
<1> DEFINE tag == Tag(s.key, s.context)
           t == [s EXCEPT !.tag = tag, !.context = None, !.phase = "finished"]
<1>1. s.context \in Context /\ s.key \in Key
  BY DEF EncSound, Sound
<1>2. /\ tag \in TagValue /\ tag.key = s.key /\ tag.nonce = s.nonce
      /\ tag.bound = AadParts(s.aad) /\ (~s.lost => tag.text = s.plain)
  BY <1>1 DEF Tag, TagValue, Context, EncSound, Sound
<1> HIDE DEF tag
<1>3. /\ t \in State
      /\ t.phase = "finished" /\ t.context = None /\ t.nonce = s.nonce /\ t.tag = tag
      /\ t.key = s.key /\ t.aad = s.aad /\ t.cipher = s.cipher /\ t.plain = s.plain
      /\ t.lost = s.lost
  BY <1>2 DEF State, Phase
<1> HIDE DEF t
<1>4. Sound(t) /\ t.tag # None
  BY <1>2, <1>3 DEF EncSound, Sound
<1> QED
  BY <1>2, <1>3, <1>4 DEF EncSound, t, tag

\* decryptor.update().
LEMMA DecUpdated ==
    ASSUME NEW s \in State, DecSound(s), s.phase = "active", NEW piece \in Seq(Cipher)
    PROVE  LET t == [s EXCEPT !.context = Absorb(@, Decrypt(s.key, @, piece)),
                              !.plain = @ \o Decrypt(s.key, s.context, piece),
                              !.cipher = @ \o piece] IN
           t \in State /\ DecSound(t)
<1> DEFINE text == Decrypt(s.key, s.context, piece)
           ctx == Absorb(s.context, text)
           t == [s EXCEPT !.context = ctx, !.plain = @ \o text, !.cipher = @ \o piece]
<1>1. s.context \in Context /\ s.key \in Key /\ s.cipher \in Seq(Cipher) /\ s.plain \in Text
  BY DEF DecSound, Sound, State
<1>3. /\ text \in Text /\ Len(text) = Len(piece)
      /\ \A n \in 1..Len(piece) :
            text[n] = Deciphered(s.key, s.context.nonce, Len(s.context.text) + n, piece[n])
  BY <1>1, DecryptBytes
<1> HIDE DEF text
<1>2. /\ ctx \in Context /\ ctx.nonce = s.context.nonce /\ ctx.bound = s.context.bound
      /\ ctx.text = s.context.text \o text
  BY <1>1, <1>3, AbsorbContext
<1> HIDE DEF ctx
<1>4. /\ s.cipher \o piece \in Seq(Cipher)
      /\ Len(s.cipher \o piece) = Len(s.cipher) + Len(piece)
      /\ \A n \in 1..(Len(s.cipher) + Len(piece)) :
            (s.cipher \o piece)[n] = IF n <= Len(s.cipher) THEN s.cipher[n]
                                    ELSE piece[n - Len(s.cipher)]
  BY ONLY <1>1, piece \in Seq(Cipher), ConcatProperties
<1>5. /\ s.plain \o text \in Text
      /\ Len(s.plain \o text) = Len(s.plain) + Len(text)
      /\ \A n \in 1..(Len(s.plain) + Len(text)) :
            (s.plain \o text)[n] = IF n <= Len(s.plain) THEN s.plain[n]
                                   ELSE text[n - Len(s.plain)]
  BY ONLY <1>1, <1>3, ConcatProperties DEF Text
<1>6. /\ t \in State
      /\ t.phase = "active" /\ t.context = ctx /\ t.nonce = s.nonce
      /\ t.key = s.key /\ t.aad = s.aad /\ t.cipher = s.cipher \o piece
      /\ t.plain = s.plain \o text
      /\ t.tag = s.tag /\ t.lost = s.lost /\ t.verdict = s.verdict
  BY <1>2, <1>4, <1>5 DEF State
<1> HIDE DEF t
<1>7. Sound(t)
  BY <1>1, <1>2, <1>6 DEF Sound, DecSound
<1>8. ASSUME ~s.lost, NEW n \in 1..Len(t.cipher)
      PROVE  t.plain[n] = Deciphered(t.key, t.nonce, n, t.cipher[n])
  <2>1. Len(s.plain) = Len(s.cipher) /\ s.context.text = s.plain /\ s.context.nonce = s.nonce
    BY <1>8 DEF DecSound, Sound
  <2>2. Len(s.cipher) \in Nat /\ Len(piece) \in Nat /\ n \in 1..(Len(s.cipher) + Len(piece))
    BY <1>1, <1>4, <1>6, LenProperties
  <2>3. CASE n <= Len(s.cipher)
    <3>1. s.plain[n] = Deciphered(s.key, s.nonce, n, s.cipher[n])
      BY <1>8, <2>2, <2>3 DEF DecSound
    <3> QED
      BY <1>3, <1>4, <1>5, <1>6, <2>1, <2>2, <2>3, <3>1
  <2>4. CASE n > Len(s.cipher)
    <3>1. /\ n - Len(s.cipher) \in 1..Len(piece)
          /\ Len(s.context.text) + (n - Len(s.cipher)) = n
      BY <2>1, <2>2, <2>4
    <3>2. text[n - Len(s.cipher)] = Deciphered(s.key, s.nonce, n, piece[n - Len(s.cipher)])
      BY <1>3, <2>1, <3>1
    <3> QED
      BY <1>3, <1>4, <1>5, <1>6, <2>1, <2>2, <2>4, <3>2
  <2> QED
    BY <2>2, <2>3, <2>4
<1>9. ~s.lost => Len(t.plain) = Len(t.cipher)
  BY <1>3, <1>4, <1>5, <1>6 DEF DecSound
<1>10. DecSound(t)
  BY <1>6, <1>7, <1>8, <1>9 DEF DecSound
<1> QED
  BY <1>6, <1>10 DEF t, ctx, text

\* decryptor.finalize(), whatever the verdict.
LEMMA DecFinished ==
    ASSUME NEW s \in State, DecSound(s), s.phase = "active", NEW v \in Verdict
    PROVE  LET t == [s EXCEPT !.context = None, !.phase = "finished", !.verdict = v] IN
           t \in State /\ DecSound(t)
<1> DEFINE t == [s EXCEPT !.context = None, !.phase = "finished", !.verdict = v]
<1>1. /\ t \in State
      /\ t.phase = "finished" /\ t.context = None /\ t.nonce = s.nonce /\ t.verdict = v
      /\ t.key = s.key /\ t.aad = s.aad /\ t.cipher = s.cipher /\ t.plain = s.plain
      /\ t.lost = s.lost
  BY DEF State, Phase
<1> HIDE DEF t
<1>2. Sound(t) /\ t.verdict # None
  BY <1>1 DEF DecSound, Sound
<1> QED
  BY <1>1, <1>2 DEF DecSound, t

-----------------------------------------------------------------------------
(* The objects together. *)

Objects ==
    /\ enc \in [EncImpl -> State] /\ dec \in [DecImpl -> State]
    /\ \A i \in EncImpl : EncSound(enc[i])
    /\ \A i \in DecImpl : DecSound(dec[i])
    /\ \A i \in EncImpl : enc[i].phase \in {"active", "finished"} => enc[i].nonce # None
    /\ \A i \in DecImpl : dec[i].phase \in {"active", "finished"} => dec[i].nonce # None
    /\ drawn \subseteq Nonce
    /\ faults \in 0..MaxFaults

\* The texts and the pieces of ciphertext that callers feed.
LEMMA TextsType == << >> \in Text /\ Texts \subseteq Text
<1>1. ASSUME NEW b \in Byte PROVE <<b>> \in Text
  BY DEF Text
<1>2. ASSUME NEW b \in Byte, NEW c \in Byte PROVE <<b, c>> \in Text
  BY DEF Text
<1>3. << >> \in Text
  BY DEF Text
<1> QED
  BY <1>1, <1>2, <1>3 DEF Texts

\* KnownPieces, cut from what encryptors gave out, is ciphertext.
LEMMA PiecesType == Objects => KnownPieces \subseteq Seq(Cipher)
<1> SUFFICES ASSUME Objects, NEW c \in KnownPieces PROVE c \in Seq(Cipher)
  OBVIOUS
<1>1. PICK i \in EncImpl :
         \E m, n \in 1..Len(enc[i].cipher) : c = SubSeq(enc[i].cipher, m, n)
  BY DEF KnownPieces
<1> PICK m \in 1..Len(enc[i].cipher), n \in 1..Len(enc[i].cipher) :
         c = SubSeq(enc[i].cipher, m, n)
  BY <1>1
<1>2. enc[i].cipher \in Seq(Cipher)
  BY DEF Objects, State
<1>3. m \in Int /\ n \in Int /\ \A k \in m..n : k \in 1..Len(enc[i].cipher)
  BY <1>2, LenProperties
<1>4. \A k \in m..n : enc[i].cipher[k] \in Cipher
  BY ONLY <1>2, <1>3, ElementOfSeq
<1>5. SubSeq(enc[i].cipher, m, n) \in Seq(Cipher)
  BY ONLY <1>3, <1>4, SubSeqProperties
<1> QED
  BY <1>5

\* What a call on encryptor i leads to.
EncChange(i) ==
    \E t \in State :
        /\ enc' = [enc EXCEPT ![i] = t]
        /\ EncSound(t)
        /\ t.phase \in {"active", "finished"} => t.nonce # None
        /\ enc[i].phase = "ready" => t.phase \in {"ready", "active"}
        /\ enc[i].phase = "active" => t.phase \in {"active", "finished"}

\* Every call of an encryptor, failing or not, keeps what EncSound says of it.
LEMMA EncCalls ==
    ASSUME Objects, NEW i \in EncImpl,
           EncBegin(i) \/ EncFinalize(i) \/ \E t \in Texts : EncUpdate(i, t)
    PROVE  /\ EncChange(i) \/ UNCHANGED enc
           /\ enc[i].phase \in {"ready", "active"}
           /\ drawn' \subseteq Nonce /\ faults' \in 0..MaxFaults /\ UNCHANGED <<held, dec>>
<1> DEFINE s == enc[i]
<1>1. s \in State /\ EncSound(s)
  BY DEF Objects
<1>2. s.phase \in {"active", "finished"} => s.nonce # None
  BY DEF Objects
<1>3. ASSUME EncBegin(i) PROVE EncChange(i) \/ UNCHANGED enc
  <2>1. s.phase = "ready"
    BY <1>3 DEF EncBegin
  <2>2. ASSUME NEW n \in Nonce,
               enc' = [enc EXCEPT ![i].context = Bind(NewContext(enc[i].context, n),
                                                      AadParts(enc[i].aad)),
                                  ![i].phase = "active", ![i].nonce = n]
        PROVE  EncChange(i)
    <3> DEFINE t == [s EXCEPT !.context = Bind(NewContext(s.context, n), AadParts(s.aad)),
                              !.phase = "active", !.nonce = n]
    <3>1. enc' = [enc EXCEPT ![i] = t]
      BY <2>2 DEF Objects
    <3>2. t \in State /\ EncSound(t)
      BY <1>1, <2>1, Begun
    <3>3. t.phase = "active" /\ t.nonce = n
      BY <1>1 DEF State
    <3> QED
      BY <2>1, <3>1, <3>2, <3>3 DEF EncChange
  <2>3. ASSUME NEW n \in Nonce, NEW m \in 0..1,
               enc' = [enc EXCEPT ![i].context = Bind(NewContext(enc[i].context, n),
                                                      SubSeq(AadParts(enc[i].aad), 1, m))]
        PROVE  EncChange(i)
    <3> DEFINE t == [s EXCEPT !.context = Bind(NewContext(s.context, n),
                                               SubSeq(AadParts(s.aad), 1, m))]
    <3>1. enc' = [enc EXCEPT ![i] = t]
      BY <2>3 DEF Objects
    <3>2. t \in State /\ EncSound(t)
      BY <1>1, <2>1, HalfBegun
    <3>3. t.phase = "ready"
      BY <1>1, <2>1 DEF State
    <3> QED
      BY <2>1, <3>1, <3>2, <3>3 DEF EncChange
  <2> QED
    BY <1>3, <2>2, <2>3 DEF EncBegin
<1>4. ASSUME NEW t \in Texts, EncUpdate(i, t) PROVE EncChange(i) \/ UNCHANGED enc
  <2>1. s.phase = "active" /\ t \in Text /\ << >> \in Text
    BY <1>4, TextsType DEF EncUpdate
  <2>2. ASSUME enc' = [enc EXCEPT ![i].context = Absorb(@, t),
                                  ![i].cipher = @ \o Encrypt(enc[i].key, enc[i].context, t),
                                  ![i].plain = @ \o t]
        PROVE  EncChange(i)
    <3> DEFINE u == [s EXCEPT !.context = Absorb(@, t),
                              !.cipher = @ \o Encrypt(s.key, s.context, t), !.plain = @ \o t]
    <3>1. enc' = [enc EXCEPT ![i] = u]
      BY <2>2 DEF Objects, State
    <3>2. u \in State /\ EncSound(u)
      BY <1>1, <2>1, EncUpdated
    <3>3. u.phase = "active" /\ u.nonce = s.nonce
      BY <1>1, <2>1 DEF State
    <3> HIDE DEF u
    <3> QED
      BY <1>2, <2>1, <3>1, <3>2, <3>3 DEF EncChange
  <2>3. ASSUME NEW r \in {t, << >>},
               enc' = [enc EXCEPT ![i].context = Absorb(@, r), ![i].lost = TRUE]
        PROVE  EncChange(i)
    <3> DEFINE u == [s EXCEPT !.context = Absorb(@, r), !.lost = TRUE]
    <3>1. enc' = [enc EXCEPT ![i] = u]
      BY <2>3 DEF Objects, State
    <3>2. u \in State /\ EncSound(u)
      BY <1>1, <2>1, UpdateLost
    <3>3. u.phase = "active" /\ u.nonce = s.nonce
      BY <1>1, <2>1 DEF State
    <3> HIDE DEF u
    <3> QED
      BY <1>2, <2>1, <3>1, <3>2, <3>3 DEF EncChange
  <2> QED
    BY <1>4, <2>2, <2>3 DEF EncUpdate
<1>5. ASSUME EncFinalize(i) PROVE EncChange(i) \/ UNCHANGED enc
  <2>1. s.phase = "active"
    BY <1>5 DEF EncFinalize
  <2>2. ASSUME enc' = [enc EXCEPT ![i].tag = Tag(enc[i].key, enc[i].context),
                                  ![i].context = None, ![i].phase = "finished"]
        PROVE  EncChange(i)
    <3> DEFINE u == [s EXCEPT !.tag = Tag(s.key, s.context), !.context = None,
                              !.phase = "finished"]
    <3>1. enc' = [enc EXCEPT ![i] = u]
      BY <2>2 DEF Objects, State
    <3>2. u \in State /\ EncSound(u)
      BY <1>1, <2>1, EncFinalized
    <3>3. u.phase = "finished" /\ u.nonce = s.nonce
      BY <1>1, <2>1 DEF State
    <3> HIDE DEF u
    <3> QED
      BY <1>2, <2>1, <3>1, <3>2, <3>3 DEF EncChange
  <2>3. ASSUME enc' = [enc EXCEPT ![i].context.spent = TRUE] PROVE EncChange(i)
    <3> DEFINE u == [s EXCEPT !.context.spent = TRUE]
    <3>1. enc' = [enc EXCEPT ![i] = u]
      BY <2>3 DEF Objects, State
    <3>2. u \in State /\ EncSound(u)
      BY <1>1, <2>1, FinalSpent
    <3>3. u.phase = "active" /\ u.nonce = s.nonce
      BY <1>1, <2>1 DEF State
    <3> HIDE DEF u
    <3> QED
      BY <1>2, <2>1, <3>1, <3>2, <3>3 DEF EncChange
  <2> QED
    BY <1>5, <2>2, <2>3 DEF EncFinalize
<1>6. enc[i].phase \in {"ready", "active"}
  BY DEF EncBegin, EncUpdate, EncFinalize
<1>7. drawn' \subseteq Nonce
  BY DEF Objects, EncBegin, EncUpdate, EncFinalize
<1>8. faults' \in 0..MaxFaults
  <2>1. faults' = faults \/ Fault
    BY DEF EncBegin, EncUpdate, EncFinalize
  <2> QED
    BY <2>1 DEF Objects, Fault
<1>9. UNCHANGED <<held, dec>>
  BY DEF EncBegin, EncUpdate, EncFinalize
<1> QED
  BY <1>3, <1>4, <1>5, <1>6, <1>7, <1>8, <1>9

\* What an accepted packet has in common with the encryptor that made it (VerdictSound).
Verifies(d, e) ==
    /\ e.key = d.key /\ e.aad = d.aad /\ e.nonce = d.nonce
    /\ e.phase = "finished"
    /\ ~e.lost /\ ~d.lost => d.plain = e.plain

\* A tag that fits the decryptor's context comes from an encryptor that made this packet.
LEMMA TagTells ==
    ASSUME Objects, NEW e \in EncImpl, NEW i \in DecImpl, dec[i].phase = "active",
           enc[e].tag # None, enc[e].tag = Tag(dec[i].key, dec[i].context)
    PROVE  Verifies(dec[i], enc[e])
<1>1. enc[e].phase = "finished" /\ Sound(dec[i]) /\ EncSound(enc[e]) /\ Sound(enc[e])
  BY DEF Objects, EncSound, DecSound
<1>2. /\ enc[e].tag.key = dec[i].key /\ enc[e].tag.nonce = dec[i].context.nonce
      /\ enc[e].tag.bound = dec[i].context.bound /\ enc[e].tag.text = dec[i].context.text
  BY DEF Tag
<1>3. enc[e].key = dec[i].key /\ enc[e].nonce = dec[i].nonce
  BY <1>1, <1>2 DEF EncSound, Sound
<1>4. AadParts(enc[e].aad) = AadParts(dec[i].aad)
  BY <1>1, <1>2 DEF EncSound, Sound
<1>5. enc[e].aad = dec[i].aad
  BY <1>4 DEF AadParts
<1>6. ~enc[e].lost /\ ~dec[i].lost => dec[i].plain = enc[e].plain
  BY <1>1, <1>2 DEF EncSound, Sound
<1> QED
  BY <1>1, <1>3, <1>5, <1>6 DEF Verifies

\* What a call on decryptor i leads to.
DecChange(i) ==
    \E t \in State :
        /\ dec' = [dec EXCEPT ![i] = t]
        /\ DecSound(t)
        /\ t.phase \in {"active", "finished"} => t.nonce # None
        /\ dec[i].phase = "ready" => t.phase \in {"ready", "active"}
        /\ dec[i].phase = "active" => t.phase \in {"active", "finished"}
        /\ t.verdict = "ok" => \E e \in EncImpl : Verifies(t, enc[e])

\* Every call of a decryptor keeps what DecSound says of it, and accepts only a packet
\* that some encryptor made.
LEMMA DecCalls ==
    ASSUME Objects, NEW i \in DecImpl,
           \/ \E n \in KnownNonces : DecBegin(i, n)
           \/ \E c \in KnownPieces : DecUpdate(i, c)
           \/ DecFinalizeWrongSize(i)
           \/ \E t \in KnownTags : DecFinalize(i, t)
    PROVE  /\ DecChange(i) \/ UNCHANGED dec
           /\ dec[i].phase \in {"ready", "active"}
           /\ faults' \in 0..MaxFaults /\ UNCHANGED <<held, enc, drawn>>
<1> DEFINE s == dec[i]
<1>1. s \in State /\ DecSound(s)
  BY DEF Objects
<1>2. s.phase \in {"active", "finished"} => s.nonce # None
  BY DEF Objects
<1>3. ASSUME NEW n \in KnownNonces, DecBegin(i, n) PROVE DecChange(i) \/ UNCHANGED dec
  <2>1. s.phase = "ready" /\ s.verdict = None
    BY <1>1, <1>3 DEF DecBegin, DecSound
  <2>2. n \in Nonce \cup {None} /\ n # None
    BY DEF KnownNonces, Objects, State
  <2>3. ASSUME dec' = [dec EXCEPT ![i].context = Bind(NewContext(dec[i].context, n),
                                                      AadParts(dec[i].aad)),
                                  ![i].phase = "active", ![i].nonce = n]
        PROVE  DecChange(i)
    <3> DEFINE u == [s EXCEPT !.context = Bind(NewContext(s.context, n), AadParts(s.aad)),
                              !.phase = "active", !.nonce = n]
    <3>1. dec' = [dec EXCEPT ![i] = u]
      BY <2>3 DEF Objects
    <3>2. u \in State /\ DecSound(u)
      BY <1>1, <2>1, <2>2, Begun
    <3>3. u.phase = "active" /\ u.nonce = n /\ u.verdict = None
      BY <1>1, <2>1 DEF State
    <3> HIDE DEF u
    <3> QED
      BY <2>1, <2>2, <3>1, <3>2, <3>3 DEF DecChange, Verdict
  <2>4. ASSUME NEW m \in 0..1,
               dec' = [dec EXCEPT ![i].context = Bind(NewContext(dec[i].context, n),
                                                      SubSeq(AadParts(dec[i].aad), 1, m))]
        PROVE  DecChange(i)
    <3> DEFINE u == [s EXCEPT !.context = Bind(NewContext(s.context, n),
                                               SubSeq(AadParts(s.aad), 1, m))]
    <3>1. dec' = [dec EXCEPT ![i] = u]
      BY <2>4 DEF Objects
    <3>2. u \in State /\ DecSound(u)
      BY <1>1, <2>1, <2>2, HalfBegun
    <3>3. u.phase = "ready" /\ u.verdict = None
      BY <1>1, <2>1 DEF State
    <3> HIDE DEF u
    <3> QED
      BY <2>1, <3>1, <3>2, <3>3 DEF DecChange, Verdict
  <2> QED
    BY <1>3, <2>3, <2>4 DEF DecBegin
<1>4. ASSUME NEW c \in KnownPieces, DecUpdate(i, c) PROVE DecChange(i) \/ UNCHANGED dec
  <2>1. s.phase = "active" /\ s.verdict = None
    BY <1>1, <1>4 DEF DecUpdate, DecSound
  <2>2. c \in Seq(Cipher) /\ << >> \in Seq(Cipher)
    BY PiecesType
  <2>3. s.context \in Context /\ s.key \in Key
    BY <1>1, <2>1 DEF DecSound, Sound
  <2>4. ASSUME dec' = [dec EXCEPT ![i].context = Absorb(@, Decrypt(dec[i].key, @, c)),
                                  ![i].plain = @ \o Decrypt(dec[i].key, dec[i].context, c),
                                  ![i].cipher = @ \o c]
        PROVE  DecChange(i)
    <3> DEFINE u == [s EXCEPT !.context = Absorb(@, Decrypt(s.key, @, c)),
                              !.plain = @ \o Decrypt(s.key, s.context, c),
                              !.cipher = @ \o c]
    <3>1. dec' = [dec EXCEPT ![i] = u]
      BY <2>4 DEF Objects, State
    <3>2. u \in State /\ DecSound(u)
      BY <1>1, <2>1, <2>2, DecUpdated
    <3>3. u.phase = "active" /\ u.nonce = s.nonce /\ u.verdict = None
      BY <1>1, <2>1 DEF State
    <3> HIDE DEF u
    <3> QED
      BY <1>2, <2>1, <3>1, <3>2, <3>3 DEF DecChange, Verdict
  <2>5. ASSUME NEW r \in {c, << >>},
               dec' = [dec EXCEPT ![i].context = Absorb(@, Decrypt(dec[i].key, @, r)),
                                  ![i].lost = TRUE]
        PROVE  DecChange(i)
    <3> DEFINE text == Decrypt(s.key, s.context, r)
               u == [s EXCEPT !.context = Absorb(@, text), !.lost = TRUE]
    <3>1. dec' = [dec EXCEPT ![i] = u]
      BY <2>5 DEF Objects, State
    <3>2. text \in Text
      BY <2>2, <2>3, DecryptBytes
    <3>3. u \in State /\ DecSound(u)
      BY <1>1, <2>1, <3>2, UpdateLost
    <3>4. u.phase = "active" /\ u.nonce = s.nonce /\ u.verdict = None
      BY <1>1, <2>1 DEF State
    <3> HIDE DEF u
    <3> QED
      BY <1>2, <2>1, <3>1, <3>3, <3>4 DEF DecChange, Verdict
  <2> QED
    BY <1>4, <2>4, <2>5 DEF DecUpdate
<1>5. ASSUME s.phase = "active", NEW v \in Verdict, Finish(i, v),
             v = "ok" => \E e \in EncImpl : Verifies(s, enc[e])
      PROVE  DecChange(i)
  <2> DEFINE u == [s EXCEPT !.context = None, !.phase = "finished", !.verdict = v]
  <2>1. dec' = [dec EXCEPT ![i] = u]
    BY <1>5 DEF Objects, State, Finish
  <2>2. u \in State /\ DecSound(u)
    BY <1>1, <1>5, DecFinished
  <2>3. /\ u.phase = "finished" /\ u.nonce = s.nonce /\ u.verdict = v
        /\ u.key = s.key /\ u.aad = s.aad /\ u.plain = s.plain /\ u.lost = s.lost
    BY <1>1 DEF State
  <2> HIDE DEF u
  <2>4. v = "ok" => \E e \in EncImpl : Verifies(u, enc[e])
    BY <1>5, <2>3 DEF Verifies
  <2> QED
    BY <1>2, <1>5, <2>1, <2>2, <2>3, <2>4 DEF DecChange
<1>6. ASSUME DecFinalizeWrongSize(i) PROVE DecChange(i)
  BY <1>5, <1>6 DEF DecFinalizeWrongSize, WrongSize, Verdict
<1>7. ASSUME NEW t \in KnownTags, DecFinalize(i, t) PROVE DecChange(i) \/ UNCHANGED dec
  <2>1. s.phase = "active" /\ s.verdict = None
    BY <1>1, <1>7 DEF DecFinalize, DecSound
  <2>2. ASSUME t = Tag(s.key, s.context), Finish(i, "ok") PROVE DecChange(i)
    <3>1. PICK e \in EncImpl : t = enc[e].tag /\ t # None
      BY DEF KnownTags
    <3>2. Verifies(s, enc[e])
      BY <2>1, <2>2, <3>1, TagTells
    <3> QED
      BY <1>5, <2>1, <2>2, <3>2 DEF Verdict
  <2>3. ASSUME Finish(i, "authentication_failed") PROVE DecChange(i)
    BY <1>5, <2>1, <2>3 DEF Verdict
  <2>4. ASSUME dec' = [dec EXCEPT ![i].context.spent = TRUE] PROVE DecChange(i)
    <3> DEFINE u == [s EXCEPT !.context.spent = TRUE]
    <3>1. dec' = [dec EXCEPT ![i] = u]
      BY <2>4 DEF Objects, State
    <3>2. u \in State /\ DecSound(u)
      BY <1>1, <2>1, FinalSpent
    <3>3. u.phase = "active" /\ u.nonce = s.nonce /\ u.verdict = None
      BY <1>1, <2>1 DEF State
    <3> HIDE DEF u
    <3> QED
      BY <1>2, <2>1, <3>1, <3>2, <3>3 DEF DecChange, Verdict
  <2> QED
    BY <1>7, <2>2, <2>3, <2>4 DEF DecFinalize
<1>8. dec[i].phase \in {"ready", "active"}
  BY DEF DecBegin, DecUpdate, DecFinalizeWrongSize, DecFinalize
<1>9. faults' \in 0..MaxFaults
  <2>1. faults' = faults \/ Fault
    BY DEF DecBegin, DecUpdate, DecFinalizeWrongSize, DecFinalize
  <2> QED
    BY <2>1 DEF Objects, Fault
<1>10. UNCHANGED <<held, enc, drawn>>
  BY DEF DecBegin, DecUpdate, DecFinalizeWrongSize, DecFinalize
<1> QED
  BY <1>3, <1>4, <1>6, <1>7, <1>8, <1>9, <1>10

-----------------------------------------------------------------------------
(* The inductive invariant. *)

\* Who owns what: a variable owns an object of its own kind that a constructor made, and
\* no other variable owns it.
Owners ==
    /\ held \in [EncVar \cup DecVar -> EncImpl \cup DecImpl \cup {None}]
    /\ \A v \in EncVar : held[v] # None => held[v] \in EncImpl /\ enc[held[v]].phase # "unborn"
    /\ \A v \in DecVar : held[v] # None => held[v] \in DecImpl /\ dec[held[v]].phase # "unborn"
    /\ SingleOwner

PacketInv == Objects /\ Owners /\ VerdictSound

\* What a step may do to an object: a finished one stays as it is, one that has been made
\* does not become unborn.
Kept ==
    /\ \A i \in EncImpl : /\ enc[i].phase = "finished" => enc'[i] = enc[i]
                          /\ enc[i].phase # "unborn" => enc'[i].phase # "unborn"
    /\ \A i \in DecImpl : /\ dec[i].phase = "finished" => dec'[i] = dec[i]
                          /\ dec[i].phase # "unborn" => dec'[i].phase # "unborn"

\* The part of the invariant that a call on an existing object can disturb.
LEMMA CallsKeep ==
    ASSUME Objects, VerdictSound, UNCHANGED held, Kept, Owners, Objects'
    PROVE  Owners'
<1>1. /\ \A v \in EncVar : held[v] # None => held[v] \in EncImpl /\ enc'[held[v]].phase # "unborn"
      /\ \A v \in DecVar : held[v] # None => held[v] \in DecImpl /\ dec'[held[v]].phase # "unborn"
  BY DEF Owners, Kept
<1> QED
  BY <1>1 DEF Owners, SingleOwner

\* One encryptor changes, as EncChange says or by its construction.
LEMMA EncKept ==
    ASSUME PacketInv, NEW i \in EncImpl, NEW t \in State, UNCHANGED dec,
           enc' = [enc EXCEPT ![i] = t], EncSound(t),
           t.phase \in {"active", "finished"} => t.nonce # None,
           enc[i].phase # "finished", t.phase # "unborn",
           drawn' \subseteq Nonce, faults' \in 0..MaxFaults
    PROVE  Objects' /\ Kept /\ VerdictSound'
<1>1. /\ enc'[i] = t /\ enc' \in [EncImpl -> State]
      /\ \A j \in EncImpl : j # i => enc'[j] = enc[j]
  BY DEF PacketInv, Objects
<1>2. Objects'
  BY <1>1 DEF PacketInv, Objects
<1>3. Kept
  BY <1>1 DEF Kept
<1>4. VerdictSound'
  <2> SUFFICES ASSUME NEW d \in DecImpl, dec[d].verdict = "ok"
               PROVE  \E e \in EncImpl : Verifies(dec[d], enc'[e])
    BY DEF VerdictSound, Verifies
  <2>1. PICK e \in EncImpl : Verifies(dec[d], enc[e])
    BY DEF PacketInv, VerdictSound, Verifies
  <2>2. enc'[e] = enc[e]
    BY <1>3, <2>1 DEF Kept, Verifies
  <2> QED
    BY <2>1, <2>2
<1> QED
  BY <1>2, <1>3, <1>4

\* One decryptor changes, as DecChange says or by its construction.
LEMMA DecKept ==
    ASSUME PacketInv, NEW i \in DecImpl, NEW t \in State, UNCHANGED <<enc, drawn>>,
           dec' = [dec EXCEPT ![i] = t], DecSound(t),
           t.phase \in {"active", "finished"} => t.nonce # None,
           dec[i].phase # "finished", t.phase # "unborn",
           t.verdict = "ok" => \E e \in EncImpl : Verifies(t, enc[e]),
           faults' \in 0..MaxFaults
    PROVE  Objects' /\ Kept /\ VerdictSound'
<1>1. /\ dec'[i] = t /\ dec' \in [DecImpl -> State]
      /\ \A j \in DecImpl : j # i => dec'[j] = dec[j]
  BY DEF PacketInv, Objects
<1>2. Objects'
  BY <1>1 DEF PacketInv, Objects
<1>3. Kept
  BY <1>1 DEF Kept
<1>4. VerdictSound'
  <2> SUFFICES ASSUME NEW d \in DecImpl, dec'[d].verdict = "ok"
               PROVE  \E e \in EncImpl : Verifies(dec'[d], enc[e])
    BY DEF VerdictSound, Verifies
  <2>1. CASE d = i
    BY <1>1, <2>1
  <2>2. CASE d # i
    BY <1>1, <2>2 DEF PacketInv, VerdictSound, Verifies
  <2> QED
    BY <2>1, <2>2
<1> QED
  BY <1>2, <1>3, <1>4

\* No object has been made and no variable owns one.
LEMMA InitPacket == Init => PacketInv
<1> SUFFICES ASSUME Init PROVE PacketInv
  OBVIOUS
<1>1. /\ \A i \in EncImpl : enc[i] = Unborn
      /\ \A i \in DecImpl : dec[i] = Unborn
  BY DEF Init
<1>2. Unborn.phase = "unborn" /\ Unborn.verdict = None
  BY DEF Unborn
<1>3. Objects
  BY <1>1, <1>2, UnbornSound DEF Init, Objects
<1>4. \A v \in EncVar \cup DecVar : held[v] = None
  BY DEF Init
<1>5. held \in [EncVar \cup DecVar -> EncImpl \cup DecImpl \cup {None}]
  BY DEF Init
<1>6. Owners
  BY <1>4, <1>5 DEF Owners, SingleOwner
<1>7. VerdictSound
  BY <1>1, <1>2 DEF VerdictSound, Verdict
<1> QED
  BY <1>3, <1>6, <1>7 DEF PacketInv

\* Every step keeps the invariant, and finished objects as they are.
LEMMA NextPacket == ObjectsDistinct /\ PacketInv /\ [Next]_vars => PacketInv' /\ Kept
<1> SUFFICES ASSUME ObjectsDistinct, PacketInv, [Next]_vars PROVE PacketInv' /\ Kept
  OBVIOUS
<1> USE DEF PacketInv
<1>1. CASE UNCHANGED vars
  <2>1. Kept
    BY <1>1 DEF vars, Kept
  <2>2. Objects'
    BY <1>1 DEF vars, Objects
  <2>3. VerdictSound'
    BY <1>1 DEF vars, VerdictSound
  <2> QED
    BY <1>1, <2>1, <2>2, <2>3, CallsKeep DEF vars
<1>2. ASSUME NEW v \in EncVar, NEW i \in EncImpl, ConstructEncryptor(v, i)
      PROVE  PacketInv' /\ Kept
  <2>1. PICK k \in Key, a \in Aad :
           enc' = [enc EXCEPT ![i] = [Unborn EXCEPT !.phase = "ready", !.key = k, !.aad = a]]
    BY <1>2 DEF ConstructEncryptor
  <2> DEFINE t == [Unborn EXCEPT !.phase = "ready", !.key = k, !.aad = a]
  <2>2. t \in State /\ EncSound(t) /\ t.phase = "ready"
    BY Constructed DEF Unborn
  <2> HIDE DEF t
  <2>3. enc' = [enc EXCEPT ![i] = t]
    BY <2>1 DEF t
  <2>4. /\ enc[i].phase = "unborn" /\ held' = [held EXCEPT ![v] = i]
        /\ UNCHANGED <<dec, drawn, faults>>
    BY <1>2 DEF ConstructEncryptor
  <2>5. Objects' /\ Kept /\ VerdictSound'
    BY <2>2, <2>3, <2>4, EncKept DEF Objects
  <2>6. /\ enc'[i] = t /\ \A w \in EncVar \cup DecVar : held'[w] = IF w = v THEN i ELSE held[w]
    BY <2>3, <2>4 DEF Objects, Owners
  <2>7. held' \in [EncVar \cup DecVar -> EncImpl \cup DecImpl \cup {None}]
    BY <2>4 DEF Owners
  <2>8. \A w \in EncVar \cup DecVar : held[w] # i
    BY <2>4 DEF Owners, ObjectsDistinct
  <2>9. SingleOwner'
    BY <2>6, <2>8 DEF Owners, SingleOwner
  <2>10. /\ \A w \in EncVar : held'[w] # None => held'[w] \in EncImpl /\ enc'[held'[w]].phase # "unborn"
         /\ \A w \in DecVar : held'[w] # None => held'[w] \in DecImpl /\ dec'[held'[w]].phase # "unborn"
    BY <2>2, <2>5, <2>6 DEF Owners, Kept, ObjectsDistinct
  <2> QED
    BY <2>5, <2>7, <2>9, <2>10 DEF Owners
<1>3. ASSUME NEW v \in DecVar, NEW i \in DecImpl, ConstructDecryptor(v, i)
      PROVE  PacketInv' /\ Kept
  <2>1. PICK k \in Key, a \in Aad :
           dec' = [dec EXCEPT ![i] = [Unborn EXCEPT !.phase = "ready", !.key = k, !.aad = a]]
    BY <1>3 DEF ConstructDecryptor
  <2> DEFINE t == [Unborn EXCEPT !.phase = "ready", !.key = k, !.aad = a]
  <2>2. t \in State /\ DecSound(t) /\ t.phase = "ready" /\ t.verdict # "ok"
    BY Constructed DEF Unborn, Verdict
  <2> HIDE DEF t
  <2>3. dec' = [dec EXCEPT ![i] = t]
    BY <2>1 DEF t
  <2>4. /\ dec[i].phase = "unborn" /\ held' = [held EXCEPT ![v] = i]
        /\ UNCHANGED <<enc, drawn, faults>>
    BY <1>3 DEF ConstructDecryptor
  <2>5. Objects' /\ Kept /\ VerdictSound'
    BY <2>2, <2>3, <2>4, DecKept DEF Objects
  <2>6. /\ dec'[i] = t /\ \A w \in EncVar \cup DecVar : held'[w] = IF w = v THEN i ELSE held[w]
    BY <2>3, <2>4 DEF Objects, Owners
  <2>7. held' \in [EncVar \cup DecVar -> EncImpl \cup DecImpl \cup {None}]
    BY <2>4 DEF Owners
  <2>8. \A w \in EncVar \cup DecVar : held[w] # i
    BY <2>4 DEF Owners, ObjectsDistinct
  <2>9. SingleOwner'
    BY <2>6, <2>8 DEF Owners, SingleOwner
  <2>10. /\ \A w \in EncVar : held'[w] # None => held'[w] \in EncImpl /\ enc'[held'[w]].phase # "unborn"
         /\ \A w \in DecVar : held'[w] # None => held'[w] \in DecImpl /\ dec'[held'[w]].phase # "unborn"
    BY <2>2, <2>5, <2>6 DEF Owners, Kept, ObjectsDistinct
  <2> QED
    BY <2>5, <2>7, <2>9, <2>10 DEF Owners
<1>4. ASSUME NEW v \in EncVar \cup DecVar, NEW w \in EncVar \cup DecVar, Move(v, w),
             v \in EncVar <=> w \in EncVar
      PROVE  PacketInv' /\ Kept
  <2>1. /\ v # w /\ held[v] # None /\ UNCHANGED <<enc, dec, drawn, faults>>
        /\ held' = [held EXCEPT ![w] = held[v], ![v] = None]
    BY <1>4 DEF Move, MovedFrom
  <2>2. \A u \in EncVar \cup DecVar :
           held'[u] = IF u = v THEN None ELSE IF u = w THEN held[v] ELSE held[u]
    BY <2>1 DEF Owners
  <2>3. held' \in [EncVar \cup DecVar -> EncImpl \cup DecImpl \cup {None}]
    BY <2>1 DEF Owners
  <2>4. SingleOwner'
    BY <2>2 DEF Owners, SingleOwner
  <2>5. /\ \A u \in EncVar : held'[u] # None => held'[u] \in EncImpl /\ enc'[held'[u]].phase # "unborn"
        /\ \A u \in DecVar : held'[u] # None => held'[u] \in DecImpl /\ dec'[held'[u]].phase # "unborn"
    BY <1>4, <2>1, <2>2 DEF Owners, ObjectsDistinct
  <2>6. Objects' /\ Kept /\ VerdictSound'
    BY <2>1 DEF Objects, Kept, VerdictSound
  <2> QED
    BY <2>3, <2>4, <2>5, <2>6 DEF Owners
<1>5. ASSUME NEW v \in EncVar, held[v] # None,
             \/ EncBegin(held[v]) \/ EncFinalize(held[v])
             \/ \E t \in Texts : EncUpdate(held[v], t)
      PROVE  PacketInv' /\ Kept
  <2> DEFINE i == held[v]
  <2>1. i \in EncImpl
    BY <1>5 DEF Owners
  <2>2. /\ EncChange(i) \/ UNCHANGED enc
        /\ enc[i].phase \in {"ready", "active"}
        /\ drawn' \subseteq Nonce /\ faults' \in 0..MaxFaults /\ UNCHANGED <<held, dec>>
    BY <1>5, <2>1, EncCalls
  <2>3. CASE EncChange(i)
    <3> PICK t \in State :
            /\ enc' = [enc EXCEPT ![i] = t]
            /\ EncSound(t)
            /\ t.phase \in {"active", "finished"} => t.nonce # None
            /\ t.phase # "unborn"
      BY <2>2, <2>3 DEF EncChange
    <3>1. Objects' /\ Kept /\ VerdictSound'
      BY <2>1, <2>2, EncKept
    <3> QED
      BY <2>2, <3>1, CallsKeep
  <2>4. CASE UNCHANGED enc
    <3>1. Objects' /\ Kept /\ VerdictSound'
      BY <2>2, <2>4 DEF Objects, Kept, VerdictSound
    <3> QED
      BY <2>2, <3>1, CallsKeep
  <2> QED
    BY <2>2, <2>3, <2>4
<1>6. ASSUME NEW v \in DecVar, held[v] # None,
             \/ \E n \in KnownNonces : DecBegin(held[v], n)
             \/ \E c \in KnownPieces : DecUpdate(held[v], c)
             \/ DecFinalizeWrongSize(held[v])
             \/ \E t \in KnownTags : DecFinalize(held[v], t)
      PROVE  PacketInv' /\ Kept
  <2> DEFINE i == held[v]
  <2>1. i \in DecImpl
    BY <1>6 DEF Owners
  <2>2. /\ DecChange(i) \/ UNCHANGED dec
        /\ dec[i].phase \in {"ready", "active"}
        /\ faults' \in 0..MaxFaults /\ UNCHANGED <<held, enc, drawn>>
    BY <1>6, <2>1, DecCalls
  <2>3. CASE DecChange(i)
    <3> PICK t \in State :
            /\ dec' = [dec EXCEPT ![i] = t]
            /\ DecSound(t)
            /\ t.phase \in {"active", "finished"} => t.nonce # None
            /\ t.phase # "unborn"
            /\ t.verdict = "ok" => \E e \in EncImpl : Verifies(t, enc[e])
      BY <2>2, <2>3 DEF DecChange
    <3>1. Objects' /\ Kept /\ VerdictSound'
      BY <2>1, <2>2, DecKept
    <3> QED
      BY <2>2, <3>1, CallsKeep
  <2>4. CASE UNCHANGED dec
    <3>1. Objects' /\ Kept /\ VerdictSound'
      BY <2>2, <2>4 DEF Objects, Kept, VerdictSound
    <3> QED
      BY <2>2, <3>1, CallsKeep
  <2> QED
    BY <2>2, <2>3, <2>4
<1> QED
  BY <1>1, <1>2, <1>3, <1>4, <1>5, <1>6 DEF Next, ObjectsDistinct

-----------------------------------------------------------------------------
(* Results. *)

\* The invariant holds in every reachable state.
LEMMA PacketInvariant == ASSUME ObjectsDistinct PROVE Spec => []PacketInv
<1>1. PacketInv /\ [Next]_vars => PacketInv'
  BY NextPacket
<1> QED
  BY <1>1, InitPacket, PTL DEF Spec

\* A context exists exactly while an object is active (see TypeOK), whatever fails.
LEMMA TypeFollows == PacketInv => TypeOK
<1> SUFFICES ASSUME PacketInv PROVE TypeOK
  OBVIOUS
<1>1. ASSUME NEW s \in State, Sound(s), s.phase \in {"active", "finished"} => s.nonce # None
      PROVE  /\ s.phase \in Phase
             /\ s.phase = "active" <=> s.context # None /\ s.nonce # None
  BY <1>1 DEF State, Sound, Phase
<1>2. /\ \A i \in EncImpl : /\ enc[i] \in State /\ Sound(enc[i])
                            /\ enc[i].phase \in {"active", "finished"} => enc[i].nonce # None
      /\ \A i \in DecImpl : /\ dec[i] \in State /\ Sound(dec[i])
                            /\ dec[i].phase \in {"active", "finished"} => dec[i].nonce # None
  BY DEF PacketInv, Objects, EncSound, DecSound
<1>3. \A s \in {enc[i] : i \in EncImpl} \cup {dec[i] : i \in DecImpl} :
         /\ s.phase \in Phase
         /\ s.phase = "active" <=> s.context # None /\ s.nonce # None
  BY <1>1, <1>2
<1> QED
  BY <1>3 DEF PacketInv, Objects, Owners, TypeOK

\* Plaintext and context of a decryptor that was fed an encryptor's whole output are the
\* encryptor's, byte by byte, so its tag fits.
LEMMA VerifiesFollows == PacketInv => PacketVerifies
<1> SUFFICES ASSUME PacketInv, NEW d \in DecImpl, NEW e \in EncImpl,
                    dec[d].phase = "active", ~dec[d].lost,
                    enc[e].phase = "finished", ~enc[e].lost,
                    dec[d].key = enc[e].key, dec[d].aad = enc[e].aad,
                    dec[d].nonce = enc[e].nonce, dec[d].cipher = enc[e].cipher
             PROVE  Tag(dec[d].key, dec[d].context) = enc[e].tag
  BY DEF PacketVerifies
<1>1. /\ EncSound(enc[e]) /\ Sound(enc[e]) /\ DecSound(dec[d]) /\ Sound(dec[d])
      /\ enc[e] \in State /\ dec[d] \in State
  BY DEF PacketInv, Objects, EncSound, DecSound
<1>2. /\ dec[d].plain \in Text /\ enc[e].plain \in Text
      /\ Len(dec[d].plain) = Len(enc[e].plain) /\ Len(dec[d].plain) = Len(enc[e].cipher)
  BY <1>1 DEF State, EncSound, DecSound
<1>3. ASSUME NEW n \in 1..Len(enc[e].cipher) PROVE dec[d].plain[n] = enc[e].plain[n]
  <2>1. enc[e].cipher[n] = CipherByte(enc[e].key, enc[e].nonce, n, enc[e].plain[n])
    BY <1>1 DEF EncSound
  <2>2. dec[d].plain[n] = Deciphered(dec[d].key, dec[d].nonce, n, enc[e].cipher[n])
    BY <1>1 DEF DecSound
  <2>3. enc[e].cipher[n].byte = enc[e].plain[n]
    BY <2>1 DEF CipherByte
  <2> QED
    BY <2>1, <2>2, <2>3 DEF Deciphered
<1>4. dec[d].plain = enc[e].plain
  BY ONLY <1>2, <1>3, SeqEqual DEF Text
<1>5. /\ enc[e].tag \in TagValue
      /\ enc[e].tag.key = dec[d].key /\ enc[e].tag.nonce = dec[d].context.nonce
      /\ enc[e].tag.bound = dec[d].context.bound /\ enc[e].tag.text = dec[d].context.text
  BY <1>1, <1>4 DEF State, EncSound, Sound
<1> QED
  BY <1>5 DEF Tag, TagValue

\* The type invariant: an active object has a context to work on, no other object does, on
\* every path out of begin() and finalize().
THEOREM PacketTypeCorrect == ASSUME ObjectsDistinct PROVE Spec => []TypeOK
  BY PacketInvariant, TypeFollows, PTL

\* The defaulted moves: however objects are moved and moved over, no two variables drive the
\* same stream.
THEOREM SingleOwnerCorrect == ASSUME ObjectsDistinct PROVE Spec => []SingleOwner
<1>1. PacketInv => SingleOwner
  BY DEF PacketInv, Owners
<1> QED
  BY <1>1, PacketInvariant, PTL

\* decryptor.finalize() accepts only an encryptor's whole packet, and its plaintext.
THEOREM VerdictSoundCorrect == ASSUME ObjectsDistinct PROVE Spec => []VerdictSound
<1>1. PacketInv => VerdictSound
  BY DEF PacketInv
<1> QED
  BY <1>1, PacketInvariant, PTL

\* Whatever a finished encryptor gave out verifies, in any pieces and after any failures.
THEOREM PacketVerifiesCorrect == ASSUME ObjectsDistinct PROVE Spec => []PacketVerifies
  BY VerifiesFollows, PacketInvariant, PTL

\* A tag and a verdict are final.
THEOREM FinishedIsFinalCorrect == ASSUME ObjectsDistinct PROVE Spec => FinishedIsFinal
<1>1. PacketInv /\ Kept =>
         /\ \A i \in EncImpl : enc[i].tag # None => enc'[i] = enc[i]
         /\ \A i \in DecImpl : dec[i].verdict # None => dec'[i] = dec[i]
  BY DEF PacketInv, Objects, Kept, EncSound, DecSound
<1>2. ObjectsDistinct /\ PacketInv /\ [Next]_vars =>
         [/\ \A i \in EncImpl : enc[i].tag # None => enc'[i] = enc[i]
          /\ \A i \in DecImpl : dec[i].verdict # None => dec'[i] = dec[i]]_vars
  BY <1>1, NextPacket
<1> QED
  BY <1>2, PacketInvariant, PTL DEF Spec, FinishedIsFinal
=============================================================================

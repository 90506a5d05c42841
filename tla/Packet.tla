------------------------------- MODULE Packet -------------------------------
(***************************************************************************)
(* The one-shot calls encrypt and decrypt (src/src/aead.cpp) and wrap_key  *)
(* and unwrap_key (src/src/key_wrap.cpp).  Each drives a local             *)
(* packet_encryptor or packet_decryptor, so the calls are made of the      *)
(* actions of PacketStream, and any of them may throw.                     *)
(*                                                                         *)
(* A packet is a sequence of atoms: a header, a nonce, ciphertext bytes    *)
(* and a tag of kTagSize atoms.  Whoever holds packets may cut and join    *)
(* them anywhere, also inside a tag, and spoil a header, before a          *)
(* decrypting call is made on them with any key and associated data.       *)
(***************************************************************************)
EXTENDS Naturals, Sequences

CONSTANTS
    Call,       \* calls; the object a call makes is named after it
    Key, Aad, Byte, Nonce, None,
    PlainLen,   \* lengths of plaintexts
    kKeySize,   \* bytes of a key256
    IntMax,     \* the limit of one OpenSSL update
    MaxLen,     \* bound: ciphertext bytes of a packet put together by its holder
    MaxFaults

ASSUME PacketLengths == PlainLen \subseteq Nat /\ kKeySize \in Nat \ {0} /\ IntMax \in Nat

VARIABLES
    held, enc, dec, drawn, faults,  \* the objects, see PacketStream
    fn,         \* the function each call runs
    pc,         \* the step it is about to make
    input,      \* its plaintext or packet
    code,       \* "ok" or the error it threw
    output      \* what it returned

objectVars == <<held, enc, dec, drawn, faults>>
callVars == <<fn, input>>
vars == <<objectVars, callVars, pc, code, output>>

Object == INSTANCE PacketStream WITH
              EncVar <- Call, DecVar <- Call, EncImpl <- Call, DecImpl <- Call

\* What a call may report, and None is no outcome, no byte, no nonce and no tag.
Outcomes == {"ok", "invalid_packet", "invalid_input", "authentication_failed", "backend_failure"}
ASSUME NoneAssumption ==
    None \notin Byte \cup Nonce \cup Outcomes /\ None \notin Object!TagValue

Encrypting == {"encrypt", "wrap_key"}
Decrypting == {"decrypt", "unwrap_key"}
Plaintexts == UNION {[1..n -> Byte] : n \in PlainLen}

Init ==
    /\ Object!Init
    /\ fn = [c \in Call |-> None]
    /\ pc = [c \in Call |-> "idle"]
    /\ input = [c \in Call |-> << >>]
    /\ code = [c \in Call |-> None]
    /\ output = [c \in Call |-> << >>]

-----------------------------------------------------------------------------
(* The layout of a packet. *)

Atom(kind, val) == [kind |-> kind, val |-> val]
Header == Atom("header", None)
BadHeader == Atom("bad_header", None)

\* make_packet_prefix, then ciphertext and tag are appended.
MakePacket(nonce, cipher, tag) ==
    <<Header, Atom("nonce", nonce)>>
        \o [i \in 1..Len(cipher) |-> Atom("cipher", cipher[i])]
        \o <<Atom("tag1", tag), Atom("tag2", tag)>>

kPrefixSize == 2
kTagSize == 2
kOverhead == kPrefixSize + kTagSize

\* require_valid_packet and require_valid_prefix.
\* Mutant of Malformed: a packet without ciphertext counts as too short.
MalformedIfEmpty(p) == ~(Len(p) > kOverhead /\ p[1] = Header)
Malformed(p) == ~(Len(p) >= kOverhead /\ p[1] = Header)

\* The spans decrypt() takes; atoms out of place are bytes like any others.
NonceOf(p) == IF p[2].kind = "nonce" THEN p[2].val ELSE None
CiphertextOf(p) ==
    [i \in 1..(Len(p) - kOverhead) |->
        LET a == p[kPrefixSize + i] IN
        IF a.kind = "cipher" THEN a.val ELSE Object!CipherByte(None, None, 0, None)]
TagOf(p) ==
    LET a == p[Len(p) - 1]  b == p[Len(p)] IN
    IF a.kind = "tag1" /\ b.kind = "tag2" /\ a.val = b.val THEN a.val ELSE None

-----------------------------------------------------------------------------

Goto(c, step) == pc' = [pc EXCEPT ![c] = step]
End(c, e, bytes) ==
    /\ Goto(c, "done")
    /\ code' = [code EXCEPT ![c] = e]
    /\ output' = [output EXCEPT ![c] = bytes]
Throw(c, e) == End(c, e, << >>)
Proceed(c, step) == Goto(c, step) /\ UNCHANGED <<code, output>>

\* The call on the object threw backend_failure.
ObjectThrew == faults' # faults
Continue(c, step) == IF ObjectThrew THEN Throw(c, "backend_failure") ELSE Proceed(c, step)

\* update() refuses more than OpenSSL takes, and does not call it for nothing.
TooLong(bytes) == Len(bytes) > IntMax

-----------------------------------------------------------------------------
(* encrypt() and wrap_key(), which passes the key on as the plaintext. *)

EncryptCall(c, f, text) ==
    /\ pc[c] = "idle"
    /\ Object!ConstructEncryptor(c, c)
    /\ fn' = [fn EXCEPT ![c] = f]
    /\ input' = [input EXCEPT ![c] = text]
    /\ Proceed(c, "enc_begin")

EncryptBegin(c) ==
    /\ pc[c] = "enc_begin"
    /\ Object!EncBegin(c)
    /\ Continue(c, "enc_update")
    /\ UNCHANGED callVars

EncryptUpdate(c) ==
    /\ pc[c] = "enc_update"
    /\ \/ TooLong(input[c]) /\ Throw(c, "invalid_input") /\ UNCHANGED objectVars
       \/ input[c] = << >> /\ Proceed(c, "enc_finalize") /\ UNCHANGED objectVars
       \/ /\ input[c] # << >> /\ ~TooLong(input[c])
          /\ Object!EncUpdate(c, input[c])
          /\ Continue(c, "enc_finalize")
    /\ UNCHANGED callVars

EncryptFinalize(c) ==
    /\ pc[c] = "enc_finalize"
    /\ Object!EncFinalize(c)
    /\ IF ObjectThrew THEN Throw(c, "backend_failure")
       ELSE End(c, "ok", MakePacket(enc[c].nonce, enc[c].cipher, enc'[c].tag))
    /\ UNCHANGED callVars

-----------------------------------------------------------------------------
(* decrypt() and unwrap_key(). *)

DecryptCall(c, f, packet) ==
    /\ pc[c] = "idle"
    /\ fn' = [fn EXCEPT ![c] = f]
    /\ input' = [input EXCEPT ![c] = packet]
    /\ \/ Malformed(packet) /\ Throw(c, "invalid_packet") /\ UNCHANGED objectVars
       \/ ~Malformed(packet) /\ Object!ConstructDecryptor(c, c) /\ Proceed(c, "dec_begin")

DecryptBegin(c) ==
    /\ pc[c] = "dec_begin"
    /\ Object!DecBegin(c, NonceOf(input[c]))
    /\ Continue(c, "dec_update")
    /\ UNCHANGED callVars

DecryptUpdate(c) ==
    LET cipher == CiphertextOf(input[c]) IN
    /\ pc[c] = "dec_update"
    /\ \/ TooLong(cipher) /\ Throw(c, "invalid_input") /\ UNCHANGED objectVars
       \/ cipher = << >> /\ Proceed(c, "dec_finalize") /\ UNCHANGED objectVars
       \/ /\ cipher # << >> /\ ~TooLong(cipher)
          /\ Object!DecUpdate(c, cipher)
          /\ Continue(c, "dec_finalize")
    /\ UNCHANGED callVars

\* What unwrap_key adds: only then is the size of the key looked at.
\* Mutant of Unwrapped: the size of the authenticated plaintext is not looked at.
UnwrappedAnySize(c, plain) == End(c, "ok", plain)
Unwrapped(c, plain) ==
    IF fn[c] = "unwrap_key" /\ Len(plain) # kKeySize THEN Throw(c, "invalid_packet")
    ELSE End(c, "ok", plain)

\* The verdict of finalize() is the call's.
\* Mutant of Refuse: a refused tag is reported as a malformed packet.
RefuseAsMalformed(c) == Throw(c, "invalid_packet")
Refuse(c) == Throw(c, "authentication_failed")

DecryptFinalize(c) ==
    /\ pc[c] = "dec_finalize"
    /\ Object!DecFinalize(c, TagOf(input[c]))
    /\ IF ObjectThrew THEN Throw(c, "backend_failure")
       ELSE IF dec'[c].verdict = "ok" THEN Unwrapped(c, dec[c].plain)
       ELSE Refuse(c)
    /\ UNCHANGED callVars

-----------------------------------------------------------------------------
(* The holder of the packets. *)

Made == {c \in Call : fn[c] \in Encrypting /\ code[c] = "ok"}
Fronts(p) == {SubSeq(p, 1, i) : i \in 0..Len(p)}
Backs(p) == {SubSeq(p, j, Len(p)) : j \in 1..(Len(p) + 1)}
Cut(p, q) == {front \o back : front \in Fronts(p), back \in Backs(q)}
Spoilt(p) == [p EXCEPT ![1] = BadHeader]
Presented ==
    {p \in UNION {Cut(output[c], output[d]) \cup {Spoilt(output[c])} : c, d \in Made} :
        Len(p) <= kOverhead + MaxLen}

Next ==
    \E c \in Call :
        \/ \E t \in Plaintexts : EncryptCall(c, "encrypt", t)
        \/ \E t \in [1..kKeySize -> Byte] : EncryptCall(c, "wrap_key", t)
        \/ EncryptBegin(c) \/ EncryptUpdate(c) \/ EncryptFinalize(c)
        \/ \E f \in Decrypting, p \in Presented : DecryptCall(c, f, p)
        \/ DecryptBegin(c) \/ DecryptUpdate(c) \/ DecryptFinalize(c)

Spec == Init /\ [][Next]_vars

-----------------------------------------------------------------------------
(* Properties. *)

\* Call c was given the very packet of the completed encrypting call e; with its key and
\* associated data as well.
Intact(c, e) == e \in Made /\ output[e] = input[c]
Authentic(c, e) == Intact(c, e) /\ enc[e].key = dec[c].key /\ enc[e].aad = dec[c].aad

\* Only a packet that encrypt or wrap_key returned opens, byte for byte, with its own key
\* and associated data, and to its own plaintext: cutting it anywhere, joining it with another
\* or moving the border between ciphertext and tag is noticed (require_valid_packet, the
\* spans of decrypt and finalize together).
OpensOnlyMade ==
    \A c \in Call : fn[c] \in Decrypting /\ code[c] = "ok" =>
        \E e \in Call : Authentic(c, e) /\ output[c] = input[e]

\* What encrypt or wrap_key returned opens again, an empty plaintext included, unless OpenSSL
\* fails; for unwrap_key it also has to be a key in size.  With another key it is at least
\* well formed.
IntactOpens ==
    \A c, e \in Call : fn[c] \in Decrypting /\ pc[c] = "done" /\ Intact(c, e) =>
        \/ code[c] \in {"ok", "backend_failure"}
        \/ code[c] = "authentication_failed" /\ ~Authentic(c, e)
        \/ fn[c] = "unwrap_key" /\ Len(input[e]) # kKeySize

\* "Wrong keys, wrong AAD, modified ciphertext, modified nonces, and tag failures report a
\* generic authentication failure" (aead.hpp): invalid_packet tells something about the
\* packet's shape or about an authenticated key, and nothing else.
FailureTellsLittle ==
    \A c \in Call : fn[c] \in Decrypting /\ code[c] = "invalid_packet" =>
        \/ Malformed(input[c])
        \/ fn[c] = "unwrap_key" /\ \E e \in Call : Authentic(c, e) /\ Len(input[e]) # kKeySize

\* unwrap_key returns a key, whatever encrypt made with the same wrapping key.
UnwrapsKeys == \A c \in Call : fn[c] = "unwrap_key" /\ code[c] = "ok" => Len(output[c]) = kKeySize
=============================================================================

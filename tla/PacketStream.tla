---------------------------- MODULE PacketStream ----------------------------
(***************************************************************************)
(* packet_encryptor and packet_decryptor (src/src/packet_stream.cpp with   *)
(* src/src/aead_internal.hpp): one-shot, move-only objects that drive an   *)
(* OpenSSL context through ready, active and finished.                     *)
(*                                                                         *)
(* A caller holds the objects in variables; an object whose state was      *)
(* moved away has none.  Calls in a wrong phase or without state throw     *)
(* invalid_input and change nothing, so they are not actions.  Any OpenSSL *)
(* call may fail, and callers may carry on after an exception.             *)
(***************************************************************************)
EXTENDS Naturals, Sequences

CONSTANTS
    EncVar, DecVar,     \* the caller's variables
    EncImpl, DecImpl,   \* the impl objects they own, one per constructor call
    Key, Aad, Byte,
    Nonce,              \* values of the random nonce
    MaxLen,             \* bound: bytes fed to one object
    MaxFaults,          \* bound: failing OpenSSL calls
    None

ASSUME LenAssumption == MaxLen \in Nat
ASSUME FaultsAssumption == MaxFaults \in Nat

\* The values an OpenSSL context and a tag may have; no field of an object is one of them
\* and None at once.
Bound == Seq({"header"} \cup Aad)
Text == Seq(Byte \cup {None})
Context == [nonce : Nonce \cup {None}, bound : Bound, text : Text, spent : BOOLEAN]
TagValue == [key : Key \cup {None}, nonce : Nonce \cup {None}, bound : Bound, text : Text]
Verdict == {"ok", "invalid_packet", "authentication_failed"}
ASSUME PacketNoneAssumption ==
    /\ None \notin EncImpl \cup DecImpl \cup Nonce \cup Verdict
    /\ None \notin Context /\ None \notin TagValue

VARIABLES
    held,       \* the impl each variable owns
    enc,        \* the state of each packet_encryptor::impl
    dec,        \* the state of each packet_decryptor::impl
    drawn,      \* nonces drawn so far
    faults

vars == <<held, enc, dec, drawn, faults>>

Phase == {"unborn", "ready", "active", "finished"}

\* An impl that no constructor has made yet.  "lost" tells that an update threw; a
\* packet is what the caller holds: nonce from begin, bytes from update, tag from finalize.
Unborn == [phase |-> "unborn", key |-> None, aad |-> None, context |-> None,
           nonce |-> None, cipher |-> << >>, plain |-> << >>, tag |-> None,
           lost |-> FALSE, verdict |-> None]

Init ==
    /\ held = [v \in EncVar \cup DecVar |-> None]
    /\ enc = [i \in EncImpl |-> Unborn]
    /\ dec = [i \in DecImpl |-> Unborn]
    /\ drawn = {}
    /\ faults = 0

Fault == faults < MaxFaults /\ faults' = faults + 1

-----------------------------------------------------------------------------
(* OpenSSL, external: AES-256-GCM as an ideal cipher.  A context has a nonce, *)
(* the associated data it was given and the text it processed.                *)

CipherByte(key, nonce, at, b) == [key |-> key, nonce |-> nonce, at |-> at, byte |-> b]
Encrypt(key, ctx, text) ==
    [i \in 1..Len(text) |-> CipherByte(key, ctx.nonce, Len(ctx.text) + i, text[i])]
\* A byte decrypted under the wrong key or nonce or at the wrong place is garbage.
Decrypt(key, ctx, cipher) ==
    [i \in 1..Len(cipher) |->
        IF cipher[i] = CipherByte(key, ctx.nonce, Len(ctx.text) + i, cipher[i].byte)
        THEN cipher[i].byte ELSE None]
Tag(key, ctx) == [key |-> key, nonce |-> ctx.nonce, bound |-> ctx.bound, text |-> ctx.text]

\* make_context and the initialisation: a context is new for every begin().
\* Mutant of NewContext: a context left by a failed begin() is used again.
SameContext(old, nonce) ==
    [nonce |-> nonce, bound |-> IF old = None THEN << >> ELSE old.bound, text |-> << >>,
     spent |-> FALSE]
NewContext(old, nonce) == [nonce |-> nonce, bound |-> << >>, text |-> << >>, spent |-> FALSE]

\* The associated data: the packet header, then the caller's.
\* Mutant of AadParts: the caller's is left out.
HeaderOnly(aad) == <<"header">>
AadParts(aad) == <<"header", aad>>

Bind(ctx, parts) == [ctx EXCEPT !.bound = @ \o parts]
Absorb(ctx, text) == [ctx EXCEPT !.text = @ \o text]

-----------------------------------------------------------------------------
(* Construction and moves. *)

ConstructEncryptor(v, i) ==
    /\ enc[i].phase = "unborn"
    /\ \E k \in Key, a \in Aad :
          enc' = [enc EXCEPT ![i] = [Unborn EXCEPT !.phase = "ready", !.key = k, !.aad = a]]
    /\ held' = [held EXCEPT ![v] = i]
    /\ UNCHANGED <<dec, drawn, faults>>

ConstructDecryptor(v, i) ==
    /\ dec[i].phase = "unborn"
    /\ \E k \in Key, a \in Aad :
          dec' = [dec EXCEPT ![i] = [Unborn EXCEPT !.phase = "ready", !.key = k, !.aad = a]]
    /\ held' = [held EXCEPT ![v] = i]
    /\ UNCHANGED <<enc, drawn, faults>>

\* The defaulted move of the unique_ptr: the source keeps nothing.
\* Mutant of MovedFrom: the source still refers to the state.
StillHolds(v) == held[v]
MovedFrom(v) == None
Move(v, w) ==
    /\ v # w /\ held[v] # None
    /\ held' = [held EXCEPT ![w] = held[v], ![v] = MovedFrom(v)]
    /\ UNCHANGED <<enc, dec, drawn, faults>>

-----------------------------------------------------------------------------
(* packet_encryptor. *)

\* begin(): a nonce, a context, the associated data; the phase changes last, so a
\* failure on the way leaves the object ready with its old or a half-made context.
EncBegin(i) ==
    /\ enc[i].phase = "ready"
    /\ \/ \E n \in Nonce \ drawn :
          LET ctx == NewContext(enc[i].context, n) IN
          /\ drawn' = drawn \cup {n}
          /\ \/ /\ enc' = [enc EXCEPT ![i].context = Bind(ctx, AadParts(enc[i].aad)),
                                      ![i].phase = "active", ![i].nonce = n]
                /\ UNCHANGED faults
             \/ /\ Fault
                /\ \/ UNCHANGED enc
                   \/ \E m \in 0..1 :
                         enc' = [enc EXCEPT ![i].context = Bind(ctx, SubSeq(AadParts(enc[i].aad), 1, m))]
       \/ Fault /\ UNCHANGED <<enc, drawn>>
    /\ UNCHANGED <<held, dec>>

\* update(): the ciphertext of the text, or an exception; then the context may or may
\* not have processed the text.
EncUpdate(i, text) ==
    /\ enc[i].phase = "active"
    /\ Len(enc[i].context.text) + Len(text) <= MaxLen
    /\ \/ /\ ~enc[i].context.spent
          /\ enc' = [enc EXCEPT ![i].context = Absorb(@, text),
                                ![i].cipher = @ \o Encrypt(enc[i].key, enc[i].context, text),
                                ![i].plain = @ \o text]
          /\ UNCHANGED faults
       \/ /\ Fault
          /\ \E t \in {text, << >>} :
                enc' = [enc EXCEPT ![i].context = Absorb(@, t), ![i].lost = TRUE]
    /\ UNCHANGED <<held, dec, drawn>>

\* finalize(): the tag, once; a failure leaves the object active on a spent context.
EncFinalize(i) ==
    /\ enc[i].phase = "active"
    /\ \/ /\ ~enc[i].context.spent
          /\ enc' = [enc EXCEPT ![i].tag = Tag(enc[i].key, enc[i].context),
                                ![i].context = None, ![i].phase = "finished"]
          /\ UNCHANGED faults
       \/ Fault /\ enc' = [enc EXCEPT ![i].context.spent = TRUE]
    /\ UNCHANGED <<held, dec, drawn>>

-----------------------------------------------------------------------------
(* packet_decryptor.  Its inputs are put together from what encryptors gave out. *)

KnownNonces == {enc[i].nonce : i \in EncImpl} \ {None}
KnownTags == {enc[i].tag : i \in EncImpl} \ {None}
KnownPieces ==
    UNION {{SubSeq(enc[i].cipher, m, n) : m \in 1..Len(enc[i].cipher), n \in 1..Len(enc[i].cipher)}
               : i \in EncImpl}

\* begin(prefix): a malformed prefix is refused and the object stays ready.
DecBegin(i, n) ==
    /\ dec[i].phase = "ready"
    /\ LET ctx == NewContext(dec[i].context, n) IN
       \/ /\ dec' = [dec EXCEPT ![i].context = Bind(ctx, AadParts(dec[i].aad)),
                                ![i].phase = "active", ![i].nonce = n]
          /\ UNCHANGED faults
       \/ /\ Fault
          /\ \/ UNCHANGED dec
             \/ \E m \in 0..1 :
                   dec' = [dec EXCEPT ![i].context = Bind(ctx, SubSeq(AadParts(dec[i].aad), 1, m))]
    /\ UNCHANGED <<held, enc, drawn>>

\* update(ciphertext): unverified plaintext.
DecUpdate(i, piece) ==
    /\ dec[i].phase = "active"
    /\ Len(dec[i].context.text) + Len(piece) <= MaxLen
    /\ \/ /\ ~dec[i].context.spent
          /\ dec' = [dec EXCEPT ![i].context = Absorb(@, Decrypt(dec[i].key, @, piece)),
                                ![i].plain = @ \o Decrypt(dec[i].key, dec[i].context, piece),
                                ![i].cipher = @ \o piece]
          /\ UNCHANGED faults
       \/ /\ Fault
          /\ \E c \in {piece, << >>} :
                dec' = [dec EXCEPT ![i].context = Absorb(@, Decrypt(dec[i].key, @, c)),
                                   ![i].lost = TRUE]
    /\ UNCHANGED <<held, enc, drawn>>

Finish(i, verdict) ==
    dec' = [dec EXCEPT ![i].context = None, ![i].phase = "finished", ![i].verdict = verdict]

\* finalize(tag) with a tag of the wrong size.
\* Mutants: the object stays active; it stays active without its context.
WrongSizeKeepsActive(i) == dec' = [dec EXCEPT ![i].verdict = "invalid_packet"]
WrongSizeDropsContext(i) == dec' = [dec EXCEPT ![i].context = None]
WrongSize(i) == Finish(i, "invalid_packet")

DecFinalizeWrongSize(i) ==
    /\ dec[i].phase = "active"
    /\ WrongSize(i)
    /\ UNCHANGED <<held, enc, drawn, faults>>

\* finalize(tag): the verdict.  Setting the tag may fail and be tried again.
DecFinalize(i, tag) ==
    /\ dec[i].phase = "active"
    /\ \/ /\ tag = Tag(dec[i].key, dec[i].context) /\ ~dec[i].context.spent
          /\ \/ Finish(i, "ok") /\ UNCHANGED faults
             \* a final block of an impossible size
             \/ Fault /\ dec' = [dec EXCEPT ![i].context.spent = TRUE]
       \/ /\ tag # Tag(dec[i].key, dec[i].context) \/ dec[i].context.spent
          /\ Finish(i, "authentication_failed")
          /\ UNCHANGED faults
       \/ Fault /\ UNCHANGED dec
    /\ UNCHANGED <<held, enc, drawn>>

-----------------------------------------------------------------------------

Texts == {<<b>> : b \in Byte} \cup {<<b, c>> : b, c \in Byte}

\* Every call goes through a variable that owns the state.
Next ==
    \/ \E v \in EncVar, i \in EncImpl : ConstructEncryptor(v, i)
    \/ \E v \in DecVar, i \in DecImpl : ConstructDecryptor(v, i)
    \/ \E v, w \in EncVar : Move(v, w)
    \/ \E v, w \in DecVar : Move(v, w)
    \/ \E v \in EncVar :
          /\ held[v] # None
          /\ EncBegin(held[v]) \/ EncFinalize(held[v]) \/ \E t \in Texts : EncUpdate(held[v], t)
    \/ \E v \in DecVar :
          /\ held[v] # None
          /\ \/ \E n \in KnownNonces : DecBegin(held[v], n)
             \/ \E c \in KnownPieces : DecUpdate(held[v], c)
             \/ DecFinalizeWrongSize(held[v])
             \/ \E t \in KnownTags : DecFinalize(held[v], t)

Spec == Init /\ [][Next]_vars

-----------------------------------------------------------------------------
(* Properties. *)

\* The type of the state; an active object has a context to work on and a finished one
\* has released it, on every path out of begin() and finalize().
TypeOK ==
    /\ held \in [EncVar \cup DecVar -> EncImpl \cup DecImpl \cup {None}]
    /\ \A s \in {enc[i] : i \in EncImpl} \cup {dec[i] : i \in DecImpl} :
          /\ s.phase \in Phase
          /\ s.phase = "active" <=> s.context # None /\ s.nonce # None
    /\ drawn \subseteq Nonce
    /\ faults \in 0..MaxFaults

\* One owner: no two variables can drive the same stream, however it was moved.
SingleOwner ==
    \A v, w \in EncVar \cup DecVar : held[v] # None /\ held[v] = held[w] => v = w

\* finalize(tag) accepts only what one encryptor with the same key and associated data
\* produced, in order and in full, whatever the pieces; the plaintext handed out
\* before is then that encryptor's (unless the caller ignored a throwing update).
VerdictSound ==
    \A d \in DecImpl : dec[d].verdict = "ok" =>
        \E e \in EncImpl :
            /\ enc[e].key = dec[d].key /\ enc[e].aad = dec[d].aad /\ enc[e].nonce = dec[d].nonce
            /\ enc[e].phase = "finished"
            /\ ~enc[e].lost /\ ~dec[d].lost => dec[d].plain = enc[e].plain

\* Everything a finished encryptor gave out verifies, however it is cut into pieces and
\* however often begin() had failed and was called again on either side.
PacketVerifies ==
    \A d \in DecImpl, e \in EncImpl :
        /\ dec[d].phase = "active" /\ ~dec[d].lost
        /\ enc[e].phase = "finished" /\ ~enc[e].lost
        /\ dec[d].key = enc[e].key /\ dec[d].aad = enc[e].aad /\ dec[d].nonce = enc[e].nonce
        /\ dec[d].cipher = enc[e].cipher
        => Tag(dec[d].key, dec[d].context) = enc[e].tag

\* One-shot: a tag or a verdict is given once.  A decryptor that has refused a packet
\* cannot be brought to accept it, nor an encryptor to continue its stream.
FinishedIsFinal ==
    [][/\ \A i \in EncImpl : enc[i].tag # None => enc'[i] = enc[i]
       /\ \A i \in DecImpl : dec[i].verdict # None => dec'[i] = dec[i]]_vars
=============================================================================

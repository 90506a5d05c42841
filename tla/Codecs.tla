------------------------------- MODULE Codecs -------------------------------
(***************************************************************************)
(* Base64, Base64URL and hex (src/src/base64.cpp, src/src/hex.cpp), and    *)
(* what they have to compute, said bit by bit.  Characters and bytes are   *)
(* numbers in 0..255; a decoder answers Ok(bytes) or Refused.              *)
(***************************************************************************)
EXTENDS Integers, SequencesExt

Ok(bytes) == [ok |-> TRUE, bytes |-> bytes]
Refused == [ok |-> FALSE, bytes |-> << >>]

Upper == 65..90
Lower == 97..122
Digit == 48..57
Plus == 43
Minus == 45
Slash == 47
Underscore == 95
Pad == 61

Map(f(_), s) == [i \in 1..Len(s) |-> f(s[i])]

-----------------------------------------------------------------------------
(* base64.cpp. *)

kAlphabet ==
    [v \in 0..63 |-> IF v < 26 THEN 65 + v ELSE IF v < 52 THEN 97 + v - 26
                     ELSE IF v < 62 THEN 48 + v - 52 ELSE IF v = 62 THEN Plus ELSE Slash]

decode_char(ch) ==
    IF ch \in Upper THEN ch - 65 ELSE IF ch \in Lower THEN ch - 97 + 26
    ELSE IF ch \in Digit THEN ch - 48 + 52
    ELSE IF ch = Plus THEN 62 ELSE IF ch = Slash THEN 63 ELSE -1

\* Three bytes make four characters; what is missing at the end is zero, then padding.
encoded_group(input, i) ==
    LET b(j) == IF j <= Len(input) THEN input[j] ELSE 0 IN
    << kAlphabet[b(i) \div 4],
       kAlphabet[((b(i) * 16) + (b(i + 1) \div 16)) % 64],
       IF i + 1 <= Len(input) THEN kAlphabet[((b(i + 1) * 4) + (b(i + 2) \div 64)) % 64] ELSE Pad,
       IF i + 2 <= Len(input) THEN kAlphabet[b(i + 2) % 64] ELSE Pad >>

base64_encode(input) ==
    [k \in 1..(4 * ((Len(input) + 2) \div 3)) |->
        encoded_group(input, (3 * ((k - 1) \div 4)) + 1)[((k - 1) % 4) + 1]]

reject_invalid_base64(input) ==
    LET pads == {i \in 1..Len(input) : input[i] = Pad} IN
    \/ Len(input) % 4 # 0
    \/ Cardinality(pads) > 2
    \/ \E i \in pads, j \in (1..Len(input)) \ pads : i < j
    \/ \E j \in (1..Len(input)) \ pads : decode_char(input[j]) < 0

\* A result that does not encode to the input again came from unused bits that are not zero.
\* Mutant of NotCanonical: they are ignored.
AnythingIsCanonical(output, input) == FALSE
NotCanonical(output, input) == base64_encode(output) # input

\* Four characters make three bytes, less one for each padding character at the end.
decoded_group(input, i) ==
    LET c(j) == IF input[j] = Pad THEN 0 ELSE decode_char(input[j]) IN
    << ((c(i) * 4) + (c(i + 1) \div 16)) % 256,
       ((c(i + 1) % 16) * 16) + (c(i + 2) \div 4),
       ((c(i + 2) % 4) * 64) + c(i + 3) >>

padding(input) ==
    IF input = << >> \/ input[Len(input)] # Pad THEN 0
    ELSE IF input[Len(input) - 1] # Pad THEN 1 ELSE 2

decoded_groups(input) ==
    [k \in 1..((3 * (Len(input) \div 4)) - padding(input)) |->
        decoded_group(input, (4 * ((k - 1) \div 3)) + 1)[((k - 1) % 3) + 1]]

base64_decode(input) ==
    IF reject_invalid_base64(input) \/ NotCanonical(decoded_groups(input), input) THEN Refused
    ELSE Ok(decoded_groups(input))

\* The padding at the end is taken away again.
Unpadded(text) == SubSeq(text, 1, Max({0} \cup {i \in 1..Len(text) : text[i] # Pad}))

url(ch) == IF ch = Plus THEN Minus ELSE IF ch = Slash THEN Underscore ELSE ch
plain(ch) == IF ch = Minus THEN Plus ELSE IF ch = Underscore THEN Slash ELSE ch

base64url_encode(input) == Unpadded(Map(url, base64_encode(input)))

\* A text of digits, made up to whole groups of four.
Padded(data) == data \o [i \in 1..((4 - (Len(data) % 4)) % 4) |-> Pad]

is_base64url_char(ch) == ch \in Upper \cup Lower \cup Digit \cup {Minus, Underscore}

base64url_decode(input) ==
    LET result == base64_decode(Padded(Map(plain, input))) IN
    IF \/ Len(input) % 4 = 1
       \/ \E i \in 1..Len(input) : ~is_base64url_char(input[i])
       \/ ~result.ok
       \/ base64url_encode(result.bytes) # input
    THEN Refused ELSE result

-----------------------------------------------------------------------------
(* hex.cpp. *)

encode_nibble(value) == IF value < 10 THEN 48 + value ELSE 97 + value - 10

decode_nibble(ch) ==
    IF ch \in Digit THEN ch - 48 ELSE IF ch \in 97..102 THEN ch - 97 + 10
    ELSE IF ch \in 65..70 THEN ch - 65 + 10 ELSE -1

hex_encode(input) ==
    [i \in 1..(2 * Len(input)) |->
        LET byte == input[(i + 1) \div 2] IN
        encode_nibble(IF i % 2 = 1 THEN byte \div 16 ELSE byte % 16)]

hex_decode(input) ==
    IF Len(input) % 2 # 0 \/ \E i \in 1..Len(input) : decode_nibble(input[i]) < 0 THEN Refused
    ELSE Ok([i \in 1..(Len(input) \div 2) |->
                (decode_nibble(input[(2 * i) - 1]) * 16) + decode_nibble(input[2 * i])])

-----------------------------------------------------------------------------
(* The meaning of an encoded text: the bits of its digits, most significant first. *)

Bits(digits, width) ==
    [i \in 1..(width * Len(digits)) |->
        (digits[((i - 1) \div width) + 1] \div (2 ^ (width - 1 - ((i - 1) % width)))) % 2]

\* The 64 digits of an alphabet that ends in the characters p and q.
Value64(ch, p, q) ==
    IF ch = p THEN 62 ELSE IF ch = q THEN 63
    ELSE CHOOSE v \in 0..61 : kAlphabet[v] = ch

\* data holds the digits of exactly these bytes, and zeros in the bits left over.
Denotes(data, bytes, p, q) ==
    LET bits == Bits([i \in 1..Len(data) |-> Value64(data[i], p, q)], 6) IN
    /\ Len(data) = ((8 * Len(bytes)) + 5) \div 6
    /\ SubSeq(bits, 1, 8 * Len(bytes)) = Bits(bytes, 8)
    /\ \A i \in ((8 * Len(bytes)) + 1)..Len(bits) : bits[i] = 0

\* A text is canonical if some bytes have it as their encoding: only the bits of whole bytes
\* are set, and the padding completes the last group of four and nothing else.
CanonicalDigits(data, p, q) ==
    LET bits == Bits([i \in 1..Len(data) |-> Value64(data[i], p, q)], 6) IN
    /\ \A i \in 1..Len(data) : data[i] \in Upper \cup Lower \cup Digit \cup {p, q}
    /\ Len(data) % 4 # 1
    /\ \A i \in ((8 * (Len(bits) \div 8)) + 1)..Len(bits) : bits[i] = 0

CanonicalBase64(text) ==
    CanonicalDigits(Unpadded(text), Plus, Slash) /\ text = Padded(Unpadded(text))
CanonicalBase64Url(text) == CanonicalDigits(text, Minus, Underscore)

HexDigit == Digit \cup 97..102 \cup 65..70
CanonicalHex(text) == Len(text) % 2 = 0 /\ \A i \in 1..Len(text) : text[i] \in HexDigit

\* Both cases of a letter are one hex digit.
HexValue(ch) == CHOOSE v \in 0..15 : ch \in {encode_nibble(v), encode_nibble(v) - 32 * (v \div 10)}
DenotesHex(text, bytes) == Bits(Map(HexValue, text), 4) = Bits(bytes, 8)
=============================================================================

---------------------------- MODULE CodecsProofs ----------------------------
(***************************************************************************)
(* What base64 and hex compute, for texts and bytes of every length.       *)
(***************************************************************************)
EXTENDS Codecs, SequenceTheorems, FiniteSetTheorems, WellFoundedInduction, TLAPS

Byte == 0..255
Alphabet64 == Upper \cup Lower \cup Digit \cup {Plus, Slash}
AlphabetUrl == Upper \cup Lower \cup Digit \cup {Minus, Underscore}

-----------------------------------------------------------------------------
(* The alphabets. *)

\* decode_char inverts kAlphabet, and refuses every other character.
LEMMA AlphabetInverse ==
    /\ \A v \in 0..63 : kAlphabet[v] \in Alphabet64 /\ decode_char(kAlphabet[v]) = v
    /\ \A ch \in Alphabet64 : decode_char(ch) \in 0..63 /\ kAlphabet[decode_char(ch)] = ch
    /\ \A ch : decode_char(ch) < 0 <=> ch \notin Alphabet64
    /\ Pad \notin Alphabet64
<1>1. \A v \in 0..63 : kAlphabet[v] \in Alphabet64 /\ decode_char(kAlphabet[v]) = v
  BY DEF kAlphabet, decode_char, Alphabet64, Upper, Lower, Digit, Plus, Slash
<1>2. \A ch \in Alphabet64 : decode_char(ch) \in 0..63 /\ kAlphabet[decode_char(ch)] = ch
  BY DEF kAlphabet, decode_char, Alphabet64, Upper, Lower, Digit, Plus, Slash
<1>3. \A ch : ch \notin Alphabet64 => decode_char(ch) = -1
  BY DEF decode_char, Alphabet64
<1>4. Pad \notin Alphabet64
  BY DEF Pad, Alphabet64, Upper, Lower, Digit, Plus, Slash
<1> QED BY <1>1, <1>2, <1>3, <1>4

\* Value64 is what decode_char computes.
LEMMA ValueIsDecoded ==
    ASSUME NEW ch \in Alphabet64
    PROVE  Value64(ch, Plus, Slash) = decode_char(ch)
<1>1. CASE ch = Plus \/ ch = Slash
  BY <1>1 DEF Value64, decode_char, Plus, Slash, Upper, Lower, Digit
<1>2. CASE ch # Plus /\ ch # Slash
  <2>1. decode_char(ch) \in 0..61 /\ kAlphabet[decode_char(ch)] = ch
    BY <1>2, AlphabetInverse DEF decode_char, Alphabet64, Upper, Lower, Digit
  <2>2. \A v \in 0..61 : kAlphabet[v] = ch => v = decode_char(ch)
    BY AlphabetInverse
  <2> QED BY <1>2, <2>1, <2>2 DEF Value64
<1> QED BY <1>1, <1>2

\* The URL alphabet is the other one with two characters renamed.
LEMMA UrlAlphabet ==
    /\ \A ch \in AlphabetUrl : plain(ch) \in Alphabet64 /\ url(plain(ch)) = ch
    /\ \A ch \in Alphabet64 : url(ch) \in AlphabetUrl /\ plain(url(ch)) = ch
    /\ \A ch : is_base64url_char(ch) <=> ch \in AlphabetUrl
    /\ \A ch \in AlphabetUrl :
          Value64(ch, Minus, Underscore) = Value64(plain(ch), Plus, Slash)
    /\ Pad \notin AlphabetUrl
<1>1. \A ch \in AlphabetUrl : plain(ch) \in Alphabet64 /\ url(plain(ch)) = ch
  BY DEF plain, url, AlphabetUrl, Alphabet64, Upper, Lower, Digit, Plus, Slash, Minus, Underscore
<1>2. \A ch \in Alphabet64 : url(ch) \in AlphabetUrl /\ plain(url(ch)) = ch
  BY DEF plain, url, AlphabetUrl, Alphabet64, Upper, Lower, Digit, Plus, Slash, Minus, Underscore
<1>3. \A ch : is_base64url_char(ch) <=> ch \in AlphabetUrl
  BY DEF is_base64url_char, AlphabetUrl
<1>4. ASSUME NEW ch \in AlphabetUrl
      PROVE  Value64(ch, Minus, Underscore) = Value64(plain(ch), Plus, Slash)
  <2>1. CASE ch = Minus \/ ch = Underscore
    BY <2>1 DEF Value64, plain, Plus, Slash, Minus, Underscore
  <2>2. CASE ch # Minus /\ ch # Underscore
    <3>1. plain(ch) = ch /\ ch # Plus /\ ch # Slash
      BY <2>2 DEF plain, AlphabetUrl, Upper, Lower, Digit, Plus, Slash
    <3> QED BY <2>2, <3>1 DEF Value64
  <2> QED BY <2>1, <2>2
<1>5. Pad \notin AlphabetUrl
  BY DEF Pad, AlphabetUrl, Upper, Lower, Digit, Minus, Underscore
<1> QED BY <1>1, <1>2, <1>3, <1>4, <1>5

-----------------------------------------------------------------------------
(* Three bytes and four digits. *)

Sextet(a, b, c, r) ==
    IF r = 0 THEN a \div 4
    ELSE IF r = 1 THEN ((a * 16) + (b \div 16)) % 64
    ELSE IF r = 2 THEN ((b * 4) + (c \div 64)) % 64
    ELSE c % 64
Octet(a, b, c, q) == IF q = 0 THEN a ELSE IF q = 1 THEN b ELSE c

\* The powers of two that occur.
LEMMA Powers ==
    /\ 2 ^ 0 = 1 /\ 2 ^ 1 = 2 /\ 2 ^ 2 = 4 /\ 2 ^ 3 = 8
    /\ 2 ^ 4 = 16 /\ 2 ^ 5 = 32 /\ 2 ^ 6 = 64 /\ 2 ^ 7 = 128
OBVIOUS

\* The 24 bits of a group, in order, are those of its bytes and those of its digits.
LEMMA SextetBits ==
    ASSUME NEW a \in 0..255, NEW b \in 0..255, NEW c \in 0..255, NEW u \in 0..23
    PROVE  (Sextet(a, b, c, u \div 6) \div (2 ^ (5 - (u % 6)))) % 2
              = (Octet(a, b, c, u \div 8) \div (2 ^ (7 - (u % 8)))) % 2
<1> DEFINE Same(i) == (Sextet(a, b, c, i \div 6) \div (2 ^ (5 - (i % 6)))) % 2
                         = (Octet(a, b, c, i \div 8) \div (2 ^ (7 - (i % 8)))) % 2
<1>0. Same(0) BY Powers DEF Sextet, Octet
<1>1. Same(1) BY Powers DEF Sextet, Octet
<1>2. Same(2) BY Powers DEF Sextet, Octet
<1>3. Same(3) BY Powers DEF Sextet, Octet
<1>4. Same(4) BY Powers DEF Sextet, Octet
<1>5. Same(5) BY Powers DEF Sextet, Octet
<1>6. Same(6) BY Powers DEF Sextet, Octet
<1>7. Same(7) BY Powers DEF Sextet, Octet
<1>8. Same(8) BY Powers DEF Sextet, Octet
<1>9. Same(9)
  <2> DEFINE y == b \div 16
  <2>1. y \in 0..15 /\ y \div 4 = b \div 64
    OBVIOUS
  <2>2. ((a * 16) + y) % 64 = ((a % 4) * 16) + y
    BY <2>1
  <2>3. (((a % 4) * 16) + y) \div 4 = ((a % 4) * 4) + (y \div 4)
    BY <2>1
  <2>4. (((a % 4) * 4) + (y \div 4)) % 2 = (y \div 4) % 2
    BY <2>1
  <2> QED BY <2>1, <2>2, <2>3, <2>4, Powers DEF Sextet, Octet
<1>10. Same(10)
  <2> DEFINE y == b \div 16
  <2>1. y \in 0..15 /\ y \div 2 = b \div 32
    OBVIOUS
  <2>2. ((a * 16) + y) % 64 = ((a % 4) * 16) + y
    BY <2>1
  <2>3. (((a % 4) * 16) + y) \div 2 = ((a % 4) * 8) + (y \div 2)
    BY <2>1
  <2>4. (((a % 4) * 8) + (y \div 2)) % 2 = (y \div 2) % 2
    BY <2>1
  <2> QED BY <2>1, <2>2, <2>3, <2>4, Powers DEF Sextet, Octet
<1>11. Same(11) BY Powers DEF Sextet, Octet
<1>12. Same(12) BY Powers DEF Sextet, Octet
<1>13. Same(13) BY Powers DEF Sextet, Octet
<1>14. Same(14) BY Powers DEF Sextet, Octet
<1>15. Same(15) BY Powers DEF Sextet, Octet
<1>16. Same(16) BY Powers DEF Sextet, Octet
<1>17. Same(17) BY Powers DEF Sextet, Octet
<1>18. Same(18) BY Powers DEF Sextet, Octet
<1>19. Same(19) BY Powers DEF Sextet, Octet
<1>20. Same(20) BY Powers DEF Sextet, Octet
<1>21. Same(21) BY Powers DEF Sextet, Octet
<1>22. Same(22) BY Powers DEF Sextet, Octet
<1>23. Same(23) BY Powers DEF Sextet, Octet
<1> HIDE DEF Same
<1>24. Same(u)
  BY <1>0, <1>1, <1>2, <1>3, <1>4, <1>5, <1>6, <1>7, <1>8, <1>9, <1>10, <1>11, <1>12, <1>13, <1>14, <1>15, <1>16, <1>17, <1>18, <1>19, <1>20, <1>21, <1>22, <1>23
<1> QED BY <1>24 DEF Same

-----------------------------------------------------------------------------
(* base64_encode. *)

\* What base64_encode reads: zeros follow the bytes.
Extended(bytes, j) == IF j <= Len(bytes) THEN bytes[j] ELSE 0
Digits(bytes) == ((8 * Len(bytes)) + 5) \div 6
SextetOf(bytes, g, r) ==
    Sextet(Extended(bytes, (3 * g) + 1), Extended(bytes, (3 * g) + 2), Extended(bytes, (3 * g) + 3), r)

\* A digit is below 64.
LEMMA SextetRange ==
    ASSUME NEW bytes \in Seq(Byte), NEW g \in Nat, NEW r
    PROVE  /\ \A j \in Nat \ {0} : Extended(bytes, j) \in Byte
           /\ SextetOf(bytes, g, r) \in 0..63
<1>1. \A j \in Nat \ {0} : Extended(bytes, j) \in Byte
  <2>1. 0 \in Byte
    BY DEF Byte
  <2>2. \A j \in Nat \ {0} : j <= Len(bytes) => bytes[j] \in Byte
    OBVIOUS
  <2> QED BY <2>1, <2>2 DEF Extended
<1>2. \A a, b, c \in Byte : Sextet(a, b, c, r) \in 0..63
  BY DEF Sextet, Byte
<1>3. /\ Extended(bytes, (3 * g) + 1) \in Byte /\ Extended(bytes, (3 * g) + 2) \in Byte
      /\ Extended(bytes, (3 * g) + 3) \in Byte
  BY <1>1
<1> QED BY <1>1, <1>2, <1>3 DEF SextetOf

\* Each character of an encoding is a digit of its group, or padding.
LEMMA EncodedAt ==
    ASSUME NEW bytes \in Seq(Byte), NEW g \in Nat, NEW r \in 0..3, g < (Len(bytes) + 2) \div 3
    PROVE  base64_encode(bytes)[(4 * g) + r + 1]
              = IF (r = 2 /\ (3 * g) + 2 > Len(bytes)) \/ (r = 3 /\ (3 * g) + 3 > Len(bytes)) THEN Pad
                ELSE kAlphabet[SextetOf(bytes, g, r)]
<1> DEFINE k == (4 * g) + r + 1
<1>1. /\ k \in 1..(4 * ((Len(bytes) + 2) \div 3)) /\ (k - 1) \div 4 = g /\ (k - 1) % 4 = r
      /\ Len(bytes) \in Nat
  OBVIOUS
<1>2. base64_encode(bytes)[k] = encoded_group(bytes, (3 * g) + 1)[r + 1]
  BY <1>1 DEF base64_encode
<1>3. /\ ((3 * g) + 1) + 1 = (3 * g) + 2 /\ ((3 * g) + 1) + 2 = (3 * g) + 3
  OBVIOUS
<1>4. CASE r = 0
  BY <1>2, <1>3, <1>4 DEF encoded_group, SextetOf, Sextet, Extended
<1>5. CASE r = 1
  BY <1>2, <1>3, <1>5 DEF encoded_group, SextetOf, Sextet, Extended
<1>6. CASE r = 2
  BY <1>1, <1>2, <1>3, <1>6 DEF encoded_group, SextetOf, Sextet, Extended
<1>7. CASE r = 3
  BY <1>1, <1>2, <1>3, <1>7 DEF encoded_group, SextetOf, Sextet, Extended
<1> QED BY <1>4, <1>5, <1>6, <1>7

\* An encoding is its digits and then its padding.
LEMMA EncodedDigits ==
    ASSUME NEW bytes \in Seq(Byte)
    PROVE  LET text == base64_encode(bytes)  n == Digits(bytes) IN
           /\ text \in Seq(Byte) /\ n \in Nat /\ n % 4 # 1
           /\ Len(text) = n + ((4 - (n % 4)) % 4)
           /\ \A k \in 1..n : /\ text[k] \in Alphabet64
                              /\ decode_char(text[k]) = SextetOf(bytes, (k - 1) \div 4, (k - 1) % 4)
           /\ \A k \in (n + 1)..Len(text) : text[k] = Pad
<1> DEFINE text == base64_encode(bytes)
           n == Digits(bytes)
           L == Len(bytes)
<1>1. L \in Nat /\ n \in Nat /\ n = ((8 * L) + 5) \div 6 /\ n % 4 # 1
  BY DEF Digits
<1>2. DOMAIN text = 1..(4 * ((L + 2) \div 3)) /\ Len(text) = 4 * ((L + 2) \div 3)
  BY <1>1 DEF base64_encode
<1>3. Len(text) = n + ((4 - (n % 4)) % 4)
  BY <1>1, <1>2
<1>4. ASSUME NEW k \in 1..Len(text)
      PROVE  LET g == (k - 1) \div 4  r == (k - 1) % 4 IN
             /\ g \in Nat /\ r \in 0..3 /\ g < (L + 2) \div 3 /\ k = (4 * g) + r + 1
             /\ k <= n <=> ~((r = 2 /\ (3 * g) + 2 > L) \/ (r = 3 /\ (3 * g) + 3 > L))
  <2> DEFINE g == (k - 1) \div 4
             r == (k - 1) % 4
  <2>1. g \in Nat /\ r \in 0..3 /\ k = (4 * g) + r + 1
    BY <1>1, <1>2
  <2>2. g < (L + 2) \div 3
    BY <1>1, <1>2, <2>1
  <2>3. k <= n <=> ~((r = 2 /\ (3 * g) + 2 > L) \/ (r = 3 /\ (3 * g) + 3 > L))
    <3> HIDE DEF g, r
    <3>1. CASE r = 0 BY <1>1, <2>1, <2>2, <3>1
    <3>2. CASE r = 1 BY <1>1, <2>1, <2>2, <3>2
    <3>3. CASE r = 2 BY <1>1, <2>1, <2>2, <3>3
    <3>4. CASE r = 3 BY <1>1, <2>1, <2>2, <3>4
    <3> QED BY <2>1, <3>1, <3>2, <3>3, <3>4
  <2> QED BY <2>1, <2>2, <2>3
<1>5. ASSUME NEW k \in 1..Len(text)
      PROVE  text[k] = IF k <= n THEN kAlphabet[SextetOf(bytes, (k - 1) \div 4, (k - 1) % 4)] ELSE Pad
  <2> DEFINE g == (k - 1) \div 4
             r == (k - 1) % 4
  <2>1. /\ g \in Nat /\ r \in 0..3 /\ g < (L + 2) \div 3 /\ k = (4 * g) + r + 1
        /\ k <= n <=> ~((r = 2 /\ (3 * g) + 2 > L) \/ (r = 3 /\ (3 * g) + 3 > L))
    BY <1>4
  <2> HIDE DEF g, r, text, n
  <2>2. base64_encode(bytes)[(4 * g) + r + 1]
              = IF (r = 2 /\ (3 * g) + 2 > L) \/ (r = 3 /\ (3 * g) + 3 > L) THEN Pad
                ELSE kAlphabet[SextetOf(bytes, g, r)]
    BY <2>1, EncodedAt
  <2>3. text[k] = IF k <= n THEN kAlphabet[SextetOf(bytes, g, r)] ELSE Pad
    BY <2>1, <2>2 DEF text
  <2> QED BY <2>3 DEF g, r
<1>6. \A k \in 1..n : k \in 1..Len(text) /\ (k - 1) \div 4 \in Nat
  BY <1>1, <1>3
<1>7. \A k \in 1..n : /\ text[k] \in Alphabet64
                      /\ decode_char(text[k]) = SextetOf(bytes, (k - 1) \div 4, (k - 1) % 4)
  <2> TAKE k \in 1..n
  <2>1. text[k] = kAlphabet[SextetOf(bytes, (k - 1) \div 4, (k - 1) % 4)]
    <3>1. k <= n BY <1>1
    <3> QED BY <1>5, <1>6, <3>1
  <2>2. SextetOf(bytes, (k - 1) \div 4, (k - 1) % 4) \in 0..63
    BY <1>6, SextetRange
  <2> QED BY <2>1, <2>2, AlphabetInverse
<1>8. \A k \in (n + 1)..Len(text) : text[k] = Pad
  <2> TAKE k \in (n + 1)..Len(text)
  <2>1. k \in 1..Len(text) /\ ~(k <= n)
    BY <1>1, <1>2
  <2> QED BY <1>5, <2>1
<1>9. text \in Seq(Byte)
  <2>1. \A k \in 1..Len(text) : text[k] \in Byte
    <3> TAKE k \in 1..Len(text)
    <3>1. CASE k \in 1..n
      BY <1>7, <3>1 DEF Alphabet64, Upper, Lower, Digit, Plus, Slash, Byte
    <3>2. CASE k \in (n + 1)..Len(text)
      BY <1>8, <3>2 DEF Pad, Byte
    <3> QED BY <1>1, <1>2, <3>1, <3>2
  <2>2. text = [k \in 1..Len(text) |-> text[k]]
    BY <1>2 DEF base64_encode
  <2>3. Len(text) \in Nat
    BY <1>1, <1>2
  <2> HIDE DEF text
  <2> QED BY <2>1, <2>2, <2>3
<1> HIDE DEF text, n
<1> QED BY <1>1, <1>3, <1>7, <1>8, <1>9 DEF text, n

-----------------------------------------------------------------------------
(* The least and the greatest. *)

\* A set of numbers has a least one, and one that is bounded a greatest one.
LEMMA LeastExists ==
    ASSUME NEW S, S \subseteq Nat, S # {}
    PROVE  \E x \in S : \A y \in S : x <= y
<1>1. PICK x \in S : \A y \in S : ~(<<y, x>> \in OpToRel(<, Nat))
  BY NatLessThanWellFounded, WFMin
<1>2. \A a, b \in Nat : a < b => <<a, b>> \in OpToRel(<, Nat)
  BY DEF OpToRel
<1>3. \A y \in S : ~(y < x)
  BY <1>1, <1>2
<1> QED BY <1>3

\* Min and Max of positions in a text are the first and the last of them.
LEMMA MinMax ==
    ASSUME NEW n \in Nat, NEW S, S \subseteq 0..n, S # {}
    PROVE  /\ Min(S) \in S /\ Max(S) \in S
           /\ \A y \in S : Min(S) <= y /\ y <= Max(S)
<1>0. S \subseteq Nat
  OBVIOUS
<1>1. \E x \in S : \A y \in S : x <= y
  BY <1>0, LeastExists
<1>2. \E x \in S : \A y \in S : x >= y
  <2> DEFINE T == {n - y : y \in S}
  <2>1. T \subseteq Nat /\ T # {}
    <3>1. \A y \in S : n - y \in Nat
      OBVIOUS
    <3> QED BY <3>1
  <2>2. PICK t \in T : \A u \in T : t <= u
    BY <2>1, LeastExists
  <2>3. PICK x \in S : t = n - x
    BY <2>2
  <2>4. \A y \in S : n - x <= n - y
    BY <2>2, <2>3
  <2> QED BY <2>4
<1>3. Min(S) \in S /\ \A y \in S : Min(S) <= y
  BY <1>1 DEF Min
<1>4. Max(S) \in S /\ \A y \in S : Max(S) >= y
  BY <1>2 DEF Max
<1> QED BY <1>3, <1>4

-----------------------------------------------------------------------------
(* Padding. *)

\* A function on the first numbers is a text.
LEMMA TextOf ==
    ASSUME NEW n \in Nat, NEW f, f = [i \in 1..n |-> f[i]], \A i \in 1..n : f[i] \in Byte
    PROVE  f \in Seq(Byte) /\ Len(f) = n
<1>1. f \in [1..n -> Byte]
  OBVIOUS
<1> QED BY <1>1

\* Texts of one length and the same characters are the same.
LEMMA SameText ==
    ASSUME NEW s \in Seq(Byte), NEW t \in Seq(Byte), Len(s) = Len(t),
           \A i \in 1..Len(t) : s[i] = t[i]
    PROVE  s = t
<1>1. s = [i \in 1..Len(s) |-> s[i]] /\ t = [i \in 1..Len(t) |-> t[i]]
  OBVIOUS
<1> QED BY <1>1

\* What is taken away is the padding at the end.
LEMMA UnpaddedIs ==
    ASSUME NEW text \in Seq(Byte), NEW n \in 0..Len(text), n > 0 => text[n] # Pad,
           \A i \in (n + 1)..Len(text) : text[i] = Pad
    PROVE  Unpadded(text) = SubSeq(text, 1, n)
<1> DEFINE S == {0} \cup {i \in 1..Len(text) : text[i] # Pad}
<1>1. n \in S /\ \A i \in S : n >= i
  OBVIOUS
<1>2. S \subseteq Nat
  OBVIOUS
<1>3. \A x \in S : (\A y \in S : x >= y) => x = n
  BY <1>1, <1>2
<1>4. Max(S) = n
  BY <1>1, <1>3 DEF Max
<1> QED BY <1>4 DEF Unpadded

\* Padding a text of digits gives back the text they were taken from.
LEMMA PaddedIs ==
    ASSUME NEW text \in Seq(Byte), NEW n \in 0..Len(text),
           Len(text) = n + ((4 - (n % 4)) % 4),
           \A i \in (n + 1)..Len(text) : text[i] = Pad
    PROVE  /\ SubSeq(text, 1, n) \in Seq(Byte) /\ Len(SubSeq(text, 1, n)) = n
           /\ \A i \in 1..n : SubSeq(text, 1, n)[i] = text[i]
           /\ Padded(SubSeq(text, 1, n)) = text
<1> DEFINE data == SubSeq(text, 1, n)
           m == (4 - (n % 4)) % 4
           pads == [i \in 1..m |-> Pad]
<1>0. n \in Nat /\ m \in 0..3 /\ n % 4 \in 0..3 /\ Len(text) = n + m
  OBVIOUS
<1>1. data \in Seq(Byte) /\ Len(data) = n /\ \A i \in 1..n : data[i] = text[i]
  <2>1. \A i \in 1..n : text[i] \in Byte
    OBVIOUS
  <2>2. 1 \in Int /\ n \in Int /\ 1 <= n + 1
    OBVIOUS
  <2>3. /\ SubSeq(text, 1, n) \in Seq(Byte)
        /\ Len(SubSeq(text, 1, n)) = IF 1 <= n THEN n - 1 + 1 ELSE 0
        /\ \A i \in 1..(n - 1 + 1) : SubSeq(text, 1, n)[i] = text[1 + i - 1]
    BY ONLY <2>1, <2>2, SubSeqProperties
  <2>4. Len(data) = n
    BY <2>3, <1>0
  <2>5. \A i \in 1..n : data[i] = text[i]
    BY <2>3, <1>0
  <2> QED BY <2>3, <2>4, <2>5
<1>2. pads \in Seq(Byte) /\ Len(pads) = m /\ \A i \in 1..m : pads[i] = Pad
  <2>1. Pad \in Byte
    BY DEF Pad, Byte
  <2> QED BY <1>0, <2>1
<1>3. Padded(data) = data \o pads
  BY <1>1 DEF Padded
<1> HIDE DEF data, m, pads
<1>4. /\ data \o pads \in Seq(Byte) /\ Len(data \o pads) = n + m
      /\ \A i \in 1..(n + m) : (data \o pads)[i] = IF i <= n THEN data[i] ELSE pads[i - n]
  BY ONLY <1>1, <1>2, ConcatProperties
<1>5. ASSUME NEW i \in 1..Len(text) PROVE (data \o pads)[i] = text[i]
  <2>1. CASE i <= n
    BY <1>0, <1>1, <1>4, <2>1
  <2>2. CASE ~(i <= n)
    <3>1. i - n \in 1..m /\ i \in (n + 1)..Len(text)
      BY <1>0, <2>2
    <3> QED BY <1>0, <1>2, <1>4, <2>2, <3>1
  <2> QED BY <2>1, <2>2
<1>6. data \o pads = text
  BY ONLY <1>0, <1>4, <1>5, text \in Seq(Byte), SameText
<1> QED BY <1>1, <1>3, <1>6 DEF data

-----------------------------------------------------------------------------
(* The bits of an encoding. *)

ValuesOf(data, p, q) == [i \in 1..Len(data) |-> Value64(data[i], p, q)]

\* The length and the elements of a text of bits.
LEMMA BitsAre ==
    ASSUME NEW s, NEW n \in Nat, Len(s) = n, NEW width \in {4, 6, 8}
    PROVE  /\ Len(Bits(s, width)) = width * n /\ DOMAIN Bits(s, width) = 1..(width * n)
           /\ Bits(s, width) = [i \in 1..(width * n) |-> Bits(s, width)[i]]
           /\ \A i \in 1..(width * n) : Bits(s, width)[i] =
                 (s[((i - 1) \div width) + 1] \div (2 ^ (width - 1 - ((i - 1) % width)))) % 2
<1>1. width * n \in Nat
  OBVIOUS
<1> QED BY <1>1 DEF Bits

\* Bit by bit the digits of an encoding are the bytes, followed by zeros.
LEMMA EncodedBits ==
    ASSUME NEW bytes \in Seq(Byte), NEW data, Len(data) = Digits(bytes),
           \A k \in 1..Digits(bytes) : data[k] = base64_encode(bytes)[k],
           NEW i \in 1..(6 * Digits(bytes))
    PROVE  Bits(ValuesOf(data, Plus, Slash), 6)[i]
              = (Extended(bytes, ((i - 1) \div 8) + 1) \div (2 ^ (7 - ((i - 1) % 8)))) % 2
<1> DEFINE n == Digits(bytes)
           k == ((i - 1) \div 6) + 1
           g == (i - 1) \div 24
           u == (i - 1) % 24
           a == Extended(bytes, (3 * g) + 1)
           b == Extended(bytes, (3 * g) + 2)
           c == Extended(bytes, (3 * g) + 3)
<1>1. n \in Nat
  BY EncodedDigits
<1>2. /\ k \in 1..n /\ g \in Nat /\ u \in 0..23 /\ i - 1 = (24 * g) + u
      /\ (k - 1) \div 4 = g /\ (k - 1) % 4 = u \div 6 /\ (i - 1) % 6 = u % 6
      /\ (i - 1) \div 8 = (3 * g) + (u \div 8) /\ (i - 1) % 8 = u % 8 /\ u \div 8 \in 0..2
  BY <1>1
<1>3. Len(ValuesOf(data, Plus, Slash)) = n
  BY <1>1 DEF ValuesOf
<1>4. Bits(ValuesOf(data, Plus, Slash), 6)[i]
         = (ValuesOf(data, Plus, Slash)[k] \div (2 ^ (5 - (u % 6)))) % 2
  <2> HIDE DEF n, u
  <2>1. \A j \in 1..(6 * n) : Bits(ValuesOf(data, Plus, Slash), 6)[j]
           = (ValuesOf(data, Plus, Slash)[((j - 1) \div 6) + 1] \div (2 ^ (6 - 1 - ((j - 1) % 6)))) % 2
    BY ONLY <1>1, <1>3, BitsAre
  <2>2. 6 - 1 - ((i - 1) % 6) = 5 - (u % 6)
    BY <1>2
  <2>3. i \in 1..(6 * n)
    BY DEF n
  <2> QED BY ONLY <2>1, <2>2, <2>3
<1>5. ValuesOf(data, Plus, Slash)[k] = Sextet(a, b, c, u \div 6)
  <2>1. ValuesOf(data, Plus, Slash)[k] = Value64(base64_encode(bytes)[k], Plus, Slash)
    BY <1>1, <1>2 DEF ValuesOf
  <2>2. /\ base64_encode(bytes)[k] \in Alphabet64
        /\ decode_char(base64_encode(bytes)[k]) = SextetOf(bytes, (k - 1) \div 4, (k - 1) % 4)
    BY <1>2, EncodedDigits
  <2> QED BY <1>2, <2>1, <2>2, ValueIsDecoded DEF SextetOf
<1>6. Octet(a, b, c, u \div 8) = Extended(bytes, ((i - 1) \div 8) + 1)
  <2> HIDE DEF u, g
  <2>1. CASE u \div 8 = 0 BY <1>2, <2>1 DEF Octet
  <2>2. CASE u \div 8 = 1 BY <1>2, <2>2 DEF Octet
  <2>3. CASE u \div 8 = 2 BY <1>2, <2>3 DEF Octet
  <2> QED BY <1>2, <2>1, <2>2, <2>3
<1>7. a \in 0..255 /\ b \in 0..255 /\ c \in 0..255
  <2>1. \A j \in Nat \ {0} : Extended(bytes, j) \in 0..255
    BY <1>2, SextetRange DEF Byte
  <2>2. /\ (3 * g) + 1 \in Nat \ {0} /\ (3 * g) + 2 \in Nat \ {0}
        /\ (3 * g) + 3 \in Nat \ {0}
    BY <1>2
  <2> QED BY <2>1, <2>2
<1> HIDE DEF n, k, g, u, a, b, c
<1>8. (Sextet(a, b, c, u \div 6) \div (2 ^ (5 - (u % 6)))) % 2
         = (Octet(a, b, c, u \div 8) \div (2 ^ (7 - (u % 8)))) % 2
  BY <1>2, <1>7, SextetBits
<1> QED BY <1>2, <1>4, <1>5, <1>6, <1>8

\* A bit is 0 or 1, and a number that is zero has no other.
LEMMA BitRange ==
    ASSUME NEW v \in Byte, NEW r \in 0..7
    PROVE  (v \div (2 ^ r)) % 2 \in 0..1 /\ (0 \div (2 ^ r)) % 2 = 0
<1>1. 2 ^ r \in {1, 2, 4, 8, 16, 32, 64, 128}
  <2>1. r = 0 \/ r = 1 \/ r = 2 \/ r = 3 \/ r = 4 \/ r = 5 \/ r = 6 \/ r = 7
    OBVIOUS
  <2>2. CASE r = 0 BY <2>2, Powers
  <2>3. CASE r = 1 BY <2>3, Powers
  <2>4. CASE r = 2 BY <2>4, Powers
  <2>5. CASE r = 3 BY <2>5, Powers
  <2>6. CASE r = 4 BY <2>6, Powers
  <2>7. CASE r = 5 BY <2>7, Powers
  <2>8. CASE r = 6 BY <2>8, Powers
  <2>9. CASE r = 7 BY <2>9, Powers
  <2> QED BY <2>1, <2>2, <2>3, <2>4, <2>5, <2>6, <2>7, <2>8, <2>9
<1>2. \A m \in {1, 2, 4, 8, 16, 32, 64, 128} : (v \div m) % 2 \in 0..1 /\ (0 \div m) % 2 = 0
  BY DEF Byte
<1> QED BY <1>1, <1>2

\* The digits of an encoding are canonical and denote the bytes.
LEMMA EncodedDenotes ==
    ASSUME NEW bytes \in Seq(Byte), NEW data, Len(data) = Digits(bytes),
           \A k \in 1..Digits(bytes) : data[k] = base64_encode(bytes)[k]
    PROVE  Denotes(data, bytes, Plus, Slash) /\ CanonicalDigits(data, Plus, Slash)
<1> DEFINE n == Digits(bytes)
           L == Len(bytes)
           bits == Bits(ValuesOf(data, Plus, Slash), 6)
<1>0. L \in Nat /\ 8 * L \in Nat
  OBVIOUS
<1>1. L \in Nat /\ n \in Nat /\ n = ((8 * L) + 5) \div 6 /\ n % 4 # 1 /\ 8 * L <= 6 * n /\ (6 * n) \div 8 = L
  BY DEF Digits
<1>2. Len(ValuesOf(data, Plus, Slash)) = n
  BY <1>1 DEF ValuesOf
<1>3. Len(bits) = 6 * n
  BY <1>1, <1>2, BitsAre
<1>4. \A i \in 1..(6 * n) : bits[i]
              = (Extended(bytes, ((i - 1) \div 8) + 1) \div (2 ^ (7 - ((i - 1) % 8)))) % 2
  BY EncodedBits
<1>5. \A i \in 1..(6 * n) : /\ ((i - 1) \div 8) + 1 \in Nat \ {0} /\ 7 - ((i - 1) % 8) \in 0..7
                            /\ i <= 8 * L <=> ((i - 1) \div 8) + 1 <= L
  <2> TAKE i \in 1..(6 * n)
  <2> HIDE DEF n, L
  <2>1. i \in Nat \ {0}
    BY <1>1
  <2>2. (i - 1) \div 8 \in Nat /\ (i - 1) % 8 \in 0..7
    BY <2>1
  <2>3. i <= 8 * L <=> ((i - 1) \div 8) + 1 <= L
    BY <1>1, <2>1
  <2> QED BY <2>2, <2>3
<1> HIDE DEF bits, n, L
<1>6. \A i \in 1..(6 * n) : bits[i] \in Byte
  <2> TAKE i \in 1..(6 * n)
  <2>1. Extended(bytes, ((i - 1) \div 8) + 1) \in Byte
    BY <1>5, SextetRange, 0 \in Nat
  <2>2. bits[i] \in 0..1
    BY <1>4, <1>5, <2>1, BitRange
  <2> QED BY <2>2 DEF Byte
<1>7. \A i \in ((8 * L) + 1)..(6 * n) : bits[i] = 0
  <2> TAKE i \in ((8 * L) + 1)..(6 * n)
  <2>1. i \in 1..(6 * n) /\ ~(i <= 8 * L)
    BY <1>1
  <2>2. Extended(bytes, ((i - 1) \div 8) + 1) = 0
    BY <1>5, <2>1 DEF Extended, L
  <2>3. 0 \in Byte
    BY DEF Byte
  <2> QED BY <1>4, <1>5, <2>1, <2>2, <2>3, BitRange
<1>8. SubSeq(bits, 1, 8 * L) = Bits(bytes, 8)
  <2>1. /\ SubSeq(bits, 1, 8 * L) \in Seq(Byte) /\ Len(SubSeq(bits, 1, 8 * L)) = 8 * L
        /\ \A i \in 1..(8 * L) : SubSeq(bits, 1, 8 * L)[i] = bits[i]
    <3>1. \A i \in 1..(8 * L) : bits[i] \in Byte
      BY <1>1, <1>6
    <3>2. 1 \in Int /\ 8 * L \in Int /\ 1 <= (8 * L) + 1
      BY <1>1
    <3>3. /\ SubSeq(bits, 1, 8 * L) \in Seq(Byte)
          /\ Len(SubSeq(bits, 1, 8 * L)) = IF 1 <= 8 * L THEN (8 * L) - 1 + 1 ELSE 0
          /\ \A i \in 1..((8 * L) - 1 + 1) : SubSeq(bits, 1, 8 * L)[i] = bits[1 + i - 1]
      BY ONLY <3>1, <3>2, SubSeqProperties
    <3>4. Len(SubSeq(bits, 1, 8 * L)) = 8 * L
      BY <1>1, <3>3
    <3>5. \A i \in 1..(8 * L) : SubSeq(bits, 1, 8 * L)[i] = bits[i]
      BY <1>1, <3>3
    <3> QED BY <3>3, <3>4, <3>5
  <2>2. /\ Len(Bits(bytes, 8)) = 8 * L
        /\ Bits(bytes, 8) = [i \in 1..(8 * L) |-> Bits(bytes, 8)[i]]
        /\ \A i \in 1..(8 * L) : Bits(bytes, 8)[i]
              = (bytes[((i - 1) \div 8) + 1] \div (2 ^ (8 - 1 - ((i - 1) % 8)))) % 2
    BY <1>1, BitsAre DEF L
  <2>3. \A i \in 1..(8 * L) : Bits(bytes, 8)[i] = bits[i]
    <3> TAKE i \in 1..(8 * L)
    <3>1. i \in 1..(6 * n) /\ i <= 8 * L
      BY <1>1
    <3>2. Extended(bytes, ((i - 1) \div 8) + 1) = bytes[((i - 1) \div 8) + 1]
      BY <1>5, <3>1 DEF Extended, L
    <3>3. 8 - 1 - ((i - 1) % 8) = 7 - ((i - 1) % 8)
      BY <1>1
    <3> QED BY <1>4, <2>2, <3>1, <3>2, <3>3
  <2>4. Bits(bytes, 8) \in Seq(Byte)
    <3>1. \A i \in 1..(8 * L) : Bits(bytes, 8)[i] \in Byte
      BY <1>1, <1>6, <2>3
    <3> QED BY ONLY <1>0, <2>2, <3>1, TextOf
  <2> QED BY ONLY <2>1, <2>2, <2>3, <2>4, SameText
<1>9. Denotes(data, bytes, Plus, Slash)
  BY <1>1, <1>3, <1>7, <1>8 DEF Denotes, ValuesOf, bits, n, L
<1>10. \A i \in 1..n : data[i] \in Alphabet64
  BY EncodedDigits DEF n
<1>11. CanonicalDigits(data, Plus, Slash)
  <2>1. Len(data) = n
    BY DEF n
  <2> QED BY <1>1, <1>3, <1>7, <1>10, <2>1 DEF CanonicalDigits, ValuesOf, Alphabet64, bits
<1> QED BY <1>9, <1>11

\* base64_encode: the text is canonical, and the bits of its digits are the bytes.
THEOREM EncodeIsStrict ==
    ASSUME NEW bytes \in Seq(Byte)
    PROVE  LET text == base64_encode(bytes) IN
           /\ text \in Seq(Byte)
           /\ CanonicalBase64(text) /\ Denotes(Unpadded(text), bytes, Plus, Slash)
           /\ Unpadded(text) \in Seq(Alphabet64)
<1> DEFINE text == base64_encode(bytes)
           n == Digits(bytes)
           data == SubSeq(text, 1, n)
<1>1. /\ text \in Seq(Byte) /\ n \in Nat /\ n % 4 # 1
      /\ Len(text) = n + ((4 - (n % 4)) % 4)
      /\ \A k \in 1..n : text[k] \in Alphabet64
      /\ \A k \in (n + 1)..Len(text) : text[k] = Pad
  BY EncodedDigits
<1> HIDE DEF text, n
<1>2. n \in 0..Len(text) /\ (n > 0 => text[n] # Pad)
  <2>1. (4 - (n % 4)) % 4 \in Nat
    BY <1>1
  <2>2. n \in 0..Len(text)
    BY <1>1, <2>1
  <2>3. n > 0 => text[n] \in Alphabet64
    BY <1>1
  <2> QED BY <2>2, <2>3, AlphabetInverse
<1>3. Unpadded(text) = data
  BY <1>1, <1>2, UnpaddedIs
<1>4. /\ data \in Seq(Byte) /\ Len(data) = n /\ \A i \in 1..n : data[i] = text[i]
      /\ Padded(data) = text
  BY <1>1, <1>2, PaddedIs
<1>5. Denotes(data, bytes, Plus, Slash) /\ CanonicalDigits(data, Plus, Slash)
  BY <1>4, EncodedDenotes DEF text, n
<1>6. data \in Seq(Alphabet64)
  BY <1>1, <1>4
<1> QED BY <1>1, <1>3, <1>4, <1>5, <1>6 DEF CanonicalBase64, text

-----------------------------------------------------------------------------
(* base64_decode. *)

\* n characters of the alphabet, and padding to the next multiple of four.
Shaped(text, n) ==
    /\ n \in 0..Len(text) /\ n % 4 # 1 /\ Len(text) = n + ((4 - (n % 4)) % 4)
    /\ \A i \in 1..n : text[i] \in Alphabet64
    /\ \A i \in (n + 1)..Len(text) : text[i] = Pad

\* Three positions are three.
LEMMA ThreePositions ==
    ASSUME NEW i, NEW j, NEW k, i # j, i # k, j # k
    PROVE  Cardinality({i, j, k}) = 3
<1>1. Cardinality({i}) = 1 /\ IsFiniteSet({i})
  BY FS_Singleton
<1>2. {i} \cup {j} = {i, j} /\ {i, j} \cup {k} = {i, j, k} /\ j \notin {i} /\ k \notin {i, j}
  OBVIOUS
<1>3. Cardinality({i} \cup {j}) = 1 + 1 /\ IsFiniteSet({i} \cup {j})
  BY ONLY <1>1, <1>2, FS_AddElement
<1>4. Cardinality({i, j} \cup {k}) = 1 + 1 + 1
  BY ONLY <1>2, <1>3, FS_AddElement
<1> QED BY <1>2, <1>4

\* reject_invalid_base64 accepts the texts of that shape, and no other.
LEMMA RejectsOthers ==
    ASSUME NEW text \in Seq(Byte)
    PROVE  ~reject_invalid_base64(text) <=> \E n \in 0..Len(text) : Shaped(text, n)
<1> DEFINE L == Len(text)
           pads == {i \in 1..L : text[i] = Pad}
<1>0. L \in Nat
  OBVIOUS
<1>1. ~reject_invalid_base64(text) <=>
         /\ L % 4 = 0 /\ Cardinality(pads) <= 2
         /\ \A i \in pads, j \in (1..L) \ pads : ~(i < j)
         /\ \A j \in (1..L) \ pads : text[j] \in Alphabet64
  <2>1. IsFiniteSet(pads)
    BY <1>0, FS_Interval, FS_Subset, 1 \in Int, L \in Int
  <2>2. Cardinality(pads) \in Nat
    BY <2>1, FS_CardinalityType
  <2>3. /\ Cardinality(pads) > 2 <=> ~(Cardinality(pads) <= 2)
        /\ \A j : decode_char(text[j]) < 0 <=> text[j] \notin Alphabet64
    <3>1. \A m \in Nat : m > 2 <=> ~(m <= 2)
      OBVIOUS
    <3>2. Cardinality(pads) > 2 <=> ~(Cardinality(pads) <= 2)
      BY ONLY <2>2, <3>1
    <3>3. \A j : decode_char(text[j]) < 0 <=> text[j] \notin Alphabet64
      BY AlphabetInverse
    <3> QED BY <3>2, <3>3
  <2>4. reject_invalid_base64(text) <=>
           \/ L % 4 # 0
           \/ Cardinality(pads) > 2
           \/ \E i \in pads, j \in (1..L) \ pads : i < j
           \/ \E j \in (1..L) \ pads : decode_char(text[j]) < 0
    BY Zenon DEF reject_invalid_base64
  <2> HIDE DEF pads, L
  <2> QED BY ONLY <2>3, <2>4
<1>2. ASSUME ~reject_invalid_base64(text)
      PROVE  \E n \in 0..L : Shaped(text, n)
  <2>1. /\ L % 4 = 0 /\ Cardinality(pads) <= 2
        /\ \A i \in pads, j \in (1..L) \ pads : ~(i < j)
        /\ \A j \in (1..L) \ pads : text[j] \in Alphabet64
    BY <1>1, <1>2
  <2>2. \A i, j \in 1..L : i < j /\ text[i] = Pad => text[j] = Pad
    BY <2>1
  <2>3. \A i \in 1..L : text[i] # Pad => text[i] \in Alphabet64
    BY <2>1
  <2>4. \A i \in 1..L : text[i] = Pad => i >= L - 1
    <3> SUFFICES ASSUME NEW i \in 1..L, text[i] = Pad, i < L - 1 PROVE FALSE
      BY <1>0
    <3>1. {i, L - 1, L} \subseteq pads
      BY <1>0, <2>2
    <3>2. Cardinality({i, L - 1, L}) = 3
      <4>1. i # L - 1 /\ i # L /\ L - 1 # L
        BY <1>0
      <4> QED BY ONLY <4>1, ThreePositions
    <3>3. IsFiniteSet(pads)
      BY <1>0, FS_Interval, FS_Subset, 1 \in Int, L \in Int
    <3>4. Cardinality(pads) \in Nat /\ Cardinality({i, L - 1, L}) <= Cardinality(pads)
      BY <3>1, <3>3, FS_Subset, FS_CardinalityType
    <3> QED BY <2>1, <3>2, <3>4
  <2>5. CASE L = 0
    <3>1. Shaped(text, 0)
      BY <2>5 DEF Shaped
    <3> QED BY <1>0, <3>1
  <2>6. CASE L # 0 /\ text[L] # Pad
    <3>1. \A i \in 1..L : text[i] # Pad
      BY <1>0, <2>2, <2>6
    <3>2. Shaped(text, L)
      BY <1>0, <2>1, <2>3, <3>1 DEF Shaped
    <3> QED BY <1>0, <3>2
  <2>7. CASE L # 0 /\ text[L] = Pad /\ text[L - 1] # Pad
    <3>1. L >= 4 /\ L - 1 \in 0..L /\ (L - 1) % 4 = 3
      BY <1>0, <2>1, <2>7
    <3>2. \A i \in 1..(L - 1) : text[i] # Pad
      BY <1>0, <2>4, <2>7
    <3>3. \A i \in 1..(L - 1) : text[i] \in Alphabet64
      BY <1>0, <2>3, <3>1, <3>2
    <3>4. \A i \in ((L - 1) + 1)..L : text[i] = Pad
      BY <1>0, <2>7, <3>1
    <3>5. L = (L - 1) + ((4 - ((L - 1) % 4)) % 4)
      BY <1>0, <3>1
    <3>6. Shaped(text, L - 1)
      BY <3>1, <3>3, <3>4, <3>5 DEF Shaped
    <3> QED BY <3>1, <3>6
  <2>8. CASE L # 0 /\ text[L] = Pad /\ text[L - 1] = Pad
    <3>1. L >= 4 /\ L - 2 \in 0..L /\ (L - 2) % 4 = 2
      BY <1>0, <2>1, <2>8
    <3>2. \A i \in 1..(L - 2) : text[i] # Pad
      BY <1>0, <2>4
    <3>3. \A i \in 1..(L - 2) : text[i] \in Alphabet64
      BY <1>0, <2>3, <3>1, <3>2
    <3>4. \A i \in ((L - 2) + 1)..L : text[i] = Pad
      <4> TAKE i \in ((L - 2) + 1)..L
      <4>1. i = L - 1 \/ i = L
        BY <1>0, <3>1
      <4> QED BY <2>8, <4>1
    <3>5. L = (L - 2) + ((4 - ((L - 2) % 4)) % 4)
      BY <1>0, <3>1
    <3>6. Shaped(text, L - 2)
      BY <3>1, <3>3, <3>4, <3>5 DEF Shaped
    <3> QED BY <3>1, <3>6
  <2> QED BY <2>5, <2>6, <2>7, <2>8
<1>3. ASSUME NEW n \in 0..L, Shaped(text, n)
      PROVE  ~reject_invalid_base64(text)
  <2>0. n \in Nat /\ n % 4 # 1 /\ n <= L /\ L = n + ((4 - (n % 4)) % 4)
    BY <1>0, <1>3 DEF Shaped
  <2>1. L % 4 = 0 /\ L - n \in 0..2
    BY <2>0
  <2>2. \A i \in 1..L : text[i] = Pad <=> i > n
    <3> TAKE i \in 1..L
    <3>1. i \in 1..n => text[i] \in Alphabet64
      BY <1>3 DEF Shaped
    <3>2. i \in (n + 1)..L => text[i] = Pad
      BY <1>3 DEF Shaped
    <3>3. (i > n <=> i \in (n + 1)..L) /\ (~(i > n) => i \in 1..n)
      BY <1>0, <2>0
    <3>4. i \in 1..n => text[i] # Pad
      BY <3>1, AlphabetInverse
    <3> QED BY ONLY <3>2, <3>3, <3>4
  <2>3. pads = (n + 1)..L
    BY <1>0, <2>0, <2>2
  <2>4. Cardinality((n + 1)..L) <= 2
    <3>1. n + 1 \in Int /\ L \in Int
      BY <1>0, <2>0
    <3>2. Cardinality((n + 1)..L) = IF n + 1 > L THEN 0 ELSE L - (n + 1) + 1
      BY <3>1, FS_Interval
    <3> QED BY <1>0, <2>0, <2>1, <3>2
  <2>5. \A i \in pads, j \in (1..L) \ pads : ~(i < j)
    BY <1>0, <2>0, <2>2
  <2>6. \A j \in (1..L) \ pads : text[j] \in Alphabet64
    BY <1>0, <1>3, <2>0, <2>2 DEF Shaped
  <2> QED BY <1>1, <2>1, <2>3, <2>4, <2>5, <2>6
<1> QED BY <1>2, <1>3

\* A canonical text has the shape.
LEMMA CanonicalIsShaped ==
    ASSUME NEW text \in Seq(Byte), CanonicalBase64(text)
    PROVE  \E n \in 0..Len(text) : Shaped(text, n) /\ CanonicalDigits(SubSeq(text, 1, n), Plus, Slash)
<1> DEFINE S == {0} \cup {i \in 1..Len(text) : text[i] # Pad}
           n == Max(S)
           data == SubSeq(text, 1, n)
<1>0. Len(text) \in Nat /\ S \subseteq 0..Len(text) /\ S # {}
  OBVIOUS
<1>1. n \in S /\ \A y \in S : y <= n
  BY <1>0, MinMax
<1>2. n \in 0..Len(text) /\ n \in Nat
  BY <1>0, <1>1
<1>3. \A i \in (n + 1)..Len(text) : text[i] = Pad
  <2> SUFFICES ASSUME NEW i \in (n + 1)..Len(text), text[i] # Pad PROVE FALSE
    OBVIOUS
  <2>1. i \in 1..Len(text) /\ ~(i <= n)
    BY <1>2
  <2> QED BY <1>1, <2>1
<1>4. CanonicalDigits(data, Plus, Slash) /\ text = Padded(data)
  BY DEF CanonicalBase64, Unpadded
<1> HIDE DEF n
<1>5. data \in Seq(Byte) /\ Len(data) = n /\ \A i \in 1..n : data[i] = text[i]
  <2>1. \A i \in 1..n : text[i] \in Byte
    BY <1>0, <1>2
  <2>2. 1 \in Int /\ n \in Int /\ 1 <= n + 1
    BY <1>2
  <2>3. /\ SubSeq(text, 1, n) \in Seq(Byte)
        /\ Len(SubSeq(text, 1, n)) = IF 1 <= n THEN n - 1 + 1 ELSE 0
        /\ \A i \in 1..(n - 1 + 1) : SubSeq(text, 1, n)[i] = text[1 + i - 1]
    BY ONLY <2>1, <2>2, SubSeqProperties
  <2>4. Len(data) = n
    BY <2>3, <1>2
  <2>5. \A i \in 1..n : data[i] = text[i]
    BY <2>3, <1>2
  <2> QED BY <2>3, <2>4, <2>5
<1>6. n % 4 # 1 /\ \A i \in 1..n : text[i] \in Alphabet64
  BY <1>4, <1>5 DEF CanonicalDigits, Alphabet64
<1>7. Len(text) = n + ((4 - (n % 4)) % 4)
  <2> DEFINE m == (4 - (n % 4)) % 4
             pads == [i \in 1..m |-> Pad]
  <2>1. m \in Nat
    BY <1>2
  <2>2. pads \in Seq(Byte) /\ Len(pads) = m
    <3>1. Pad \in Byte
      BY DEF Pad, Byte
    <3> QED BY <2>1, <3>1
  <2>3. text = data \o pads
    BY <1>4, <1>5 DEF Padded
  <2> HIDE DEF pads, m, data
  <2>4. Len(data \o pads) = Len(data) + Len(pads)
    BY ONLY <1>5, <2>2, ConcatProperties
  <2> QED BY <1>5, <2>2, <2>3, <2>4 DEF m
<1> QED BY <1>2, <1>3, <1>4, <1>6, <1>7 DEF Shaped

\* The bytes of a group of four digits.
OctetOf(a, b, c, d, q) ==
    IF q = 0 THEN ((a * 4) + (b \div 16)) % 256
    ELSE IF q = 1 THEN ((b % 16) * 16) + (c \div 4)
    ELSE ((c % 4) * 64) + d

SixBits == 0..63

\* Their digits are the four digits again.
LEMMA DigitsAgain ==
    ASSUME NEW a \in SixBits, NEW b \in SixBits, NEW c \in SixBits, NEW d \in SixBits
    PROVE  /\ Sextet(OctetOf(a, b, c, d, 0), OctetOf(a, b, c, d, 1), OctetOf(a, b, c, d, 2), 0) = a
           /\ Sextet(OctetOf(a, b, c, d, 0), OctetOf(a, b, c, d, 1), OctetOf(a, b, c, d, 2), 1) = b
           /\ Sextet(OctetOf(a, b, c, d, 0), OctetOf(a, b, c, d, 1), OctetOf(a, b, c, d, 2), 2) = c
           /\ Sextet(OctetOf(a, b, c, d, 0), OctetOf(a, b, c, d, 1), OctetOf(a, b, c, d, 2), 3) = d
<1> DEFINE A == (a * 4) + (b \div 16)
           B == ((b % 16) * 16) + (c \div 4)
           C == ((c % 4) * 64) + d
<1> a \in 0..63 /\ b \in 0..63 /\ c \in 0..63 /\ d \in 0..63
  BY DEF SixBits
<1>2. A \in 0..255 /\ A % 256 = A /\ B \in 0..255 /\ C \in 0..255
  OBVIOUS
<1>3. A \div 4 = a
  OBVIOUS
<1>4. ((A * 16) + (B \div 16)) % 64 = b
  <2>1. B \div 16 = b % 16
    OBVIOUS
  <2>2. (A * 16) % 64 = (b \div 16) * 16
    OBVIOUS
  <2> QED BY <2>1, <2>2
<1>5. ((B * 4) + (C \div 64)) % 64 = c
  <2>1. C \div 64 = c % 4
    OBVIOUS
  <2>2. (B * 4) % 64 = (c \div 4) * 4
    OBVIOUS
  <2> QED BY <2>1, <2>2
<1>6. C % 64 = d
  OBVIOUS
<1>7. /\ OctetOf(a, b, c, d, 0) = A /\ OctetOf(a, b, c, d, 1) = B /\ OctetOf(a, b, c, d, 2) = C
  BY <1>2 DEF OctetOf
<1> HIDE DEF A, B, C
<1>8. Sextet(A, B, C, 0) = a
  BY <1>3 DEF Sextet
<1>9. Sextet(A, B, C, 1) = b
  BY <1>4 DEF Sextet
<1>10. Sextet(A, B, C, 2) = c
  BY <1>5 DEF Sextet
<1>11. Sextet(A, B, C, 3) = d
  BY <1>6 DEF Sextet
<1> QED BY <1>7, <1>8, <1>9, <1>10, <1>11

\* The digits that base64_decode reads, padding counting as zero.
Read(text, j) == IF text[j] = Pad THEN 0 ELSE decode_char(text[j])
DecodedOctet(text, g, q) ==
    OctetOf(Read(text, (4 * g) + 1), Read(text, (4 * g) + 2), Read(text, (4 * g) + 3),
            Read(text, (4 * g) + 4), q)

\* The digits are below 64 in a text of the right shape, and the decoded bytes are bytes.
LEMMA DecodedBytes ==
    ASSUME NEW text \in Seq(Byte), NEW n, Shaped(text, n)
    PROVE  LET bytes == decoded_groups(text) IN
           /\ \A j \in 1..Len(text) : Read(text, j) \in 0..63
           /\ bytes \in Seq(Byte) /\ Digits(bytes) = n
           /\ \A k \in 1..Len(bytes) : bytes[k] = DecodedOctet(text, (k - 1) \div 3, (k - 1) % 3)
<1> DEFINE bytes == decoded_groups(text)
           L == Len(text)
           m == (3 * (L \div 4)) - padding(text)
<1>1. /\ n \in 0..L /\ n % 4 # 1 /\ L = n + ((4 - (n % 4)) % 4) /\ L \in Nat /\ n \in Nat
      /\ \A i \in 1..n : text[i] \in Alphabet64
      /\ \A i \in (n + 1)..L : text[i] = Pad
  BY DEF Shaped
<1>2. \A j \in 1..L : Read(text, j) \in 0..63
  <2> TAKE j \in 1..L
  <2>1. CASE j \in 1..n
    <3>1. text[j] \in Alphabet64
      BY <1>1, <2>1
    <3> QED BY <3>1, AlphabetInverse DEF Read
  <2>2. CASE j \in (n + 1)..L
    <3>1. text[j] = Pad
      BY <1>1, <2>2
    <3> QED BY <3>1 DEF Read
  <2> QED BY <1>1, <2>1, <2>2
<1>3. padding(text) = L - n /\ L - n \in 0..2 /\ L % 4 = 0
  <2>1. L - n \in 0..2 /\ L % 4 = 0 /\ (L = 0 \/ L >= 4)
    BY <1>1
  <2>2. CASE L = n
    <3>1. L # 0 => text[L] \in Alphabet64
      BY <1>1, <2>2
    <3>2. L = 0 \/ text[L] # Pad
      BY <3>1, AlphabetInverse
    <3>3. L = 0 => text = << >>
      OBVIOUS
    <3> QED BY <1>1, <2>1, <2>2, <3>2, <3>3 DEF padding
  <2>3. CASE L = n + 1
    <3>1. text[L - 1] \in Alphabet64 /\ text[L] = Pad /\ text # << >>
      BY <1>1, <2>1, <2>3
    <3>2. text[L - 1] # Pad
      BY <3>1, AlphabetInverse
    <3> QED BY <1>1, <2>1, <2>3, <3>1, <3>2 DEF padding
  <2>4. CASE L = n + 2
    <3>1. text[L - 1] = Pad /\ text[L] = Pad /\ text # << >>
      BY <1>1, <2>1, <2>4
    <3> QED BY <1>1, <2>1, <2>4, <3>1 DEF padding
  <2> QED BY <1>1, <2>1, <2>2, <2>3, <2>4
<1>4. m \in Nat /\ n = ((8 * m) + 5) \div 6
  <2> HIDE DEF L
  <2>1. m = (3 * (L \div 4)) - (L - n)
    BY <1>3
  <2> QED BY <1>1, <1>3, <2>1
<1>5. DOMAIN bytes = 1..m /\ bytes = [k \in 1..m |-> bytes[k]] /\ Len(bytes) = m
  BY <1>4 DEF decoded_groups
<1>6. \A k \in 1..m : /\ bytes[k] = DecodedOctet(text, (k - 1) \div 3, (k - 1) % 3)
                      /\ bytes[k] \in Byte
  <2> TAKE k \in 1..m
  <2> DEFINE g == (k - 1) \div 3
             q == (k - 1) % 3
  <2>1. g \in Nat /\ q \in 0..2 /\ (4 * g) + 4 <= L
    <3> HIDE DEF L
    <3>1. m <= 3 * (L \div 4) /\ k \in Nat /\ k >= 1 /\ k <= m
      BY <1>1, <1>3, <1>4
    <3> HIDE DEF m
    <3> QED BY <1>1, <1>3, <1>4, <3>1
  <2>2. bytes[k] = decoded_group(text, (4 * g) + 1)[q + 1]
    BY DEF decoded_groups
  <2> HIDE DEF g, q
  <2>3. /\ ((4 * g) + 1) + 1 = (4 * g) + 2 /\ ((4 * g) + 1) + 2 = (4 * g) + 3
        /\ ((4 * g) + 1) + 3 = (4 * g) + 4
    BY <2>1
  <2>4. bytes[k] = DecodedOctet(text, g, q)
    <3>1. CASE q = 0
      BY <2>2, <2>3, <3>1 DEF decoded_group, DecodedOctet, OctetOf, Read
    <3>2. CASE q = 1
      BY <2>2, <2>3, <3>2 DEF decoded_group, DecodedOctet, OctetOf, Read
    <3>3. CASE q = 2
      BY <2>2, <2>3, <3>3 DEF decoded_group, DecodedOctet, OctetOf, Read
    <3> QED BY <2>1, <3>1, <3>2, <3>3
  <2>5. /\ Read(text, (4 * g) + 1) \in 0..63 /\ Read(text, (4 * g) + 2) \in 0..63
        /\ Read(text, (4 * g) + 3) \in 0..63 /\ Read(text, (4 * g) + 4) \in 0..63
    <3>1. /\ (4 * g) + 1 \in 1..L /\ (4 * g) + 2 \in 1..L /\ (4 * g) + 3 \in 1..L
          /\ (4 * g) + 4 \in 1..L
      BY ONLY <1>1, <2>1
    <3> QED BY ONLY <1>2, <3>1
  <2>6. DecodedOctet(text, g, q) \in Byte
    <3>1. \A a, b, c, d \in 0..63 : OctetOf(a, b, c, d, q) \in Byte
      BY ONLY <2>1 DEF OctetOf, Byte
    <3> QED BY ONLY <2>5, <3>1 DEF DecodedOctet
  <2> QED BY <2>4, <2>6 DEF g, q
<1> HIDE DEF bytes, m
<1>7. bytes \in Seq(Byte)
  BY ONLY <1>4, <1>5, <1>6, TextOf
<1> QED BY <1>2, <1>4, <1>5, <1>6, <1>7 DEF Digits, bytes

\* The bits that no byte takes up are zero.
UnusedAreZero(text, n) ==
    /\ n % 4 = 2 => decode_char(text[n]) % 16 = 0
    /\ n % 4 = 3 => decode_char(text[n]) % 4 = 0

\* If so, what base64_encode reads are the bytes of the groups, also behind the last byte.
LEMMA OctetsRead ==
    ASSUME NEW text \in Seq(Byte), NEW n, Shaped(text, n), UnusedAreZero(text, n),
           NEW g \in Nat, 4 * g < n, NEW q \in 0..2
    PROVE  Extended(decoded_groups(text), (3 * g) + q + 1) = DecodedOctet(text, g, q)
<1> DEFINE bytes == decoded_groups(text)
           m == Len(bytes)
           L == Len(text)
           k == (3 * g) + q + 1
<1>1. /\ n \in 0..L /\ n % 4 # 1 /\ L = n + ((4 - (n % 4)) % 4) /\ L \in Nat /\ n \in Nat
      /\ \A i \in 1..n : text[i] \in Alphabet64
      /\ \A i \in (n + 1)..L : text[i] = Pad
  BY DEF Shaped
<1>2. /\ m \in Nat /\ n = ((8 * m) + 5) \div 6
      /\ \A j \in 1..L : Read(text, j) \in 0..63
      /\ \A i \in 1..m : bytes[i] = DecodedOctet(text, (i - 1) \div 3, (i - 1) % 3)
  <2>1. /\ bytes \in Seq(Byte) /\ Digits(bytes) = n
        /\ \A j \in 1..L : Read(text, j) \in 0..63
        /\ \A i \in 1..m : bytes[i] = DecodedOctet(text, (i - 1) \div 3, (i - 1) % 3)
    BY DecodedBytes
  <2>2. m \in Nat
    BY <2>1
  <2> QED BY <2>1, <2>2 DEF Digits
<1>3. k \in Nat /\ k >= 1 /\ (k - 1) \div 3 = g /\ (k - 1) % 3 = q
  OBVIOUS
<1> HIDE DEF bytes, m, L, k
<1>4. CASE k <= m
  <2>1. k \in 1..m
    BY <1>2, <1>3, <1>4
  <2>2. bytes[k] = DecodedOctet(text, g, q)
    BY <1>2, <1>3, <2>1
  <2> QED BY <1>4, <2>2 DEF Extended, bytes, m, k
<1>5. CASE ~(k <= m)
  <2>1. \/ n = (4 * g) + 3 /\ q = 2 /\ L = (4 * g) + 4
        \/ n = (4 * g) + 2 /\ q \in 1..2 /\ L = (4 * g) + 4
    <3>1. (3 * g) + q >= m /\ 4 * g < n
      BY <1>2, <1>3, <1>5 DEF k
    <3>2. n < (4 * g) + 4 /\ n # (4 * g) + 1
      BY ONLY <1>1, <1>2, <3>1, g \in Nat, q \in 0..2
    <3>3. n = (4 * g) + 3 \/ n = (4 * g) + 2
      BY ONLY <1>1, <3>1, <3>2, g \in Nat
    <3>4. L = (4 * g) + 4
      BY ONLY <1>1, <3>3, g \in Nat
    <3>5. n = (4 * g) + 3 => m = (3 * g) + 2
      BY ONLY <1>1, <1>2, g \in Nat
    <3>6. n = (4 * g) + 2 => m = (3 * g) + 1
      BY ONLY <1>1, <1>2, g \in Nat
    <3> QED BY ONLY <3>1, <3>3, <3>4, <3>5, <3>6, g \in Nat, q \in 0..2
  <2>2. DecodedOctet(text, g, q) = 0
    <3>1. /\ Read(text, (4 * g) + 1) \in 0..63 /\ Read(text, (4 * g) + 2) \in 0..63
          /\ Read(text, (4 * g) + 3) \in 0..63
      <4>1. (4 * g) + 1 \in 1..L /\ (4 * g) + 2 \in 1..L /\ (4 * g) + 3 \in 1..L
        BY <2>1
      <4> QED BY <1>2, <4>1
    <3>2. Read(text, (4 * g) + 4) = 0
      <4>1. (4 * g) + 4 \in (n + 1)..L
        BY <2>1
      <4> QED BY <1>1, <4>1 DEF Read
    <3>3. CASE n = (4 * g) + 3 /\ q = 2
      <4>1. n % 4 = 3 /\ n \in 1..n
        BY <1>1, <3>3
      <4>2. Read(text, (4 * g) + 3) = decode_char(text[n])
        <5>1. text[n] # Pad
          BY <1>1, <4>1, AlphabetInverse
        <5> QED BY <3>3, <5>1 DEF Read
      <4>3. Read(text, (4 * g) + 3) % 4 = 0
        BY <4>1, <4>2 DEF UnusedAreZero
      <4> QED BY <3>2, <3>3, <4>3 DEF DecodedOctet, OctetOf
    <3>4. CASE n = (4 * g) + 2 /\ q \in 1..2 /\ L = (4 * g) + 4
      <4>1. n % 4 = 2 /\ n \in 1..n
        BY <1>1, <3>4
      <4>2. Read(text, (4 * g) + 2) = decode_char(text[n])
        <5>1. text[n] # Pad
          BY <1>1, <4>1, AlphabetInverse
        <5> QED BY <3>4, <5>1 DEF Read
      <4>3. Read(text, (4 * g) + 2) % 16 = 0
        BY <4>1, <4>2 DEF UnusedAreZero
      <4>4. Read(text, (4 * g) + 3) = 0
        <5>1. (4 * g) + 3 \in (n + 1)..L
          BY <3>4
        <5> QED BY <1>1, <5>1 DEF Read
      <4>5. CASE q = 1
        BY <3>2, <4>3, <4>4, <4>5 DEF DecodedOctet, OctetOf
      <4>6. CASE q = 2
        BY <3>2, <4>4, <4>6 DEF DecodedOctet, OctetOf
      <4> QED BY <3>4, <4>5, <4>6
    <3> QED BY <2>1, <3>3, <3>4
  <2> QED BY <1>5, <2>2 DEF Extended, bytes, m, k
<1> QED BY <1>2, <1>3, <1>4, <1>5

\* The decoded bytes encode to the text again.
LEMMA EncodesAgain ==
    ASSUME NEW text \in Seq(Byte), NEW n, Shaped(text, n), UnusedAreZero(text, n)
    PROVE  base64_encode(decoded_groups(text)) = text
<1> DEFINE bytes == decoded_groups(text)
           again == base64_encode(bytes)
<1>1. /\ n \in 0..Len(text) /\ Len(text) = n + ((4 - (n % 4)) % 4) /\ Len(text) \in Nat /\ n \in Nat
      /\ \A i \in 1..n : text[i] \in Alphabet64
      /\ \A i \in (n + 1)..Len(text) : text[i] = Pad
  BY DEF Shaped
<1>2. /\ bytes \in Seq(Byte) /\ Digits(bytes) = n
      /\ \A j \in 1..Len(text) : Read(text, j) \in 0..63
  BY DecodedBytes
<1>3. /\ again \in Seq(Byte) /\ Len(again) = Len(text)
      /\ \A j \in 1..n : /\ again[j] \in Alphabet64
                         /\ decode_char(again[j]) = SextetOf(bytes, (j - 1) \div 4, (j - 1) % 4)
      /\ \A j \in (n + 1)..Len(text) : again[j] = Pad
  BY <1>1, <1>2, EncodedDigits
<1>4. ASSUME NEW j \in 1..n
      PROVE  again[j] = text[j]
  <2> DEFINE g == (j - 1) \div 4
             r == (j - 1) % 4
  <2>1. g \in Nat /\ r \in 0..3 /\ j = (4 * g) + r + 1 /\ 4 * g < n
    BY <1>1
  <2> HIDE DEF g, r, again, bytes
  <2>2. /\ Extended(bytes, (3 * g) + 1) = DecodedOctet(text, g, 0)
        /\ Extended(bytes, (3 * g) + 2) = DecodedOctet(text, g, 1)
        /\ Extended(bytes, (3 * g) + 3) = DecodedOctet(text, g, 2)
    <3>1. \A q \in 0..2 : Extended(bytes, (3 * g) + q + 1) = DecodedOctet(text, g, q)
      BY <2>1, OctetsRead DEF bytes
    <3>2. /\ (3 * g) + 0 + 1 = (3 * g) + 1 /\ (3 * g) + 1 + 1 = (3 * g) + 2
          /\ (3 * g) + 2 + 1 = (3 * g) + 3
      BY <2>1
    <3>3. 0 \in 0..2 /\ 1 \in 0..2 /\ 2 \in 0..2
      OBVIOUS
    <3> QED BY ONLY <3>1, <3>2, <3>3
  <2>3. /\ Read(text, (4 * g) + 1) \in 0..63 /\ Read(text, (4 * g) + 2) \in 0..63
        /\ Read(text, (4 * g) + 3) \in 0..63 /\ Read(text, (4 * g) + 4) \in 0..63
    <3>1. Len(text) >= (4 * g) + 4
      BY <1>1, <2>1
    <3>2. /\ (4 * g) + 1 \in 1..Len(text) /\ (4 * g) + 2 \in 1..Len(text)
          /\ (4 * g) + 3 \in 1..Len(text) /\ (4 * g) + 4 \in 1..Len(text)
      BY ONLY <1>1, <2>1, <3>1
    <3> QED BY ONLY <1>2, <3>2
  <2>4. /\ SextetOf(bytes, g, 0) = Read(text, (4 * g) + 1)
        /\ SextetOf(bytes, g, 1) = Read(text, (4 * g) + 2)
        /\ SextetOf(bytes, g, 2) = Read(text, (4 * g) + 3)
        /\ SextetOf(bytes, g, 3) = Read(text, (4 * g) + 4)
    <3> DEFINE w == Read(text, (4 * g) + 1)
               x == Read(text, (4 * g) + 2)
               y == Read(text, (4 * g) + 3)
               z == Read(text, (4 * g) + 4)
    <3>1. w \in SixBits /\ x \in SixBits /\ y \in SixBits /\ z \in SixBits
      BY <2>3 DEF SixBits
    <3>2. ASSUME NEW i
          PROVE  SextetOf(bytes, g, i) = Sextet(OctetOf(w, x, y, z, 0), OctetOf(w, x, y, z, 1),
                                                OctetOf(w, x, y, z, 2), i)
      BY <2>2 DEF SextetOf, DecodedOctet
    <3> HIDE DEF w, x, y, z
    <3>3. /\ SextetOf(bytes, g, 0) = w /\ SextetOf(bytes, g, 1) = x
          /\ SextetOf(bytes, g, 2) = y /\ SextetOf(bytes, g, 3) = z
      BY ONLY <3>1, <3>2, DigitsAgain
    <3> QED BY ONLY <3>3 DEF w, x, y, z
  <2>5. SextetOf(bytes, g, r) = Read(text, j)
    BY <2>1, <2>4
  <2>6. text[j] \in Alphabet64 /\ text[j] # Pad
    BY <1>1, AlphabetInverse
  <2>7. decode_char(again[j]) = decode_char(text[j]) /\ again[j] \in Alphabet64
    BY <1>3, <2>5, <2>6 DEF Read, g, r
  <2> QED BY <2>6, <2>7, AlphabetInverse
<1>5. \A j \in 1..Len(text) : again[j] = text[j]
  <2> TAKE j \in 1..Len(text)
  <2>1. j \in 1..n \/ j \in (n + 1)..Len(text)
    BY <1>1
  <2> QED BY <1>1, <1>3, <1>4, <2>1
<1> HIDE DEF again
<1> QED BY ONLY <1>3, <1>5, text \in Seq(Byte), SameText DEF again

\* In a canonical text the last digit has zeros in the bits that no byte takes up.
LEMMA CanonicalHasUnusedZero ==
    ASSUME NEW text \in Seq(Byte), NEW n, Shaped(text, n),
           CanonicalDigits(SubSeq(text, 1, n), Plus, Slash)
    PROVE  UnusedAreZero(text, n)
<1> DEFINE data == SubSeq(text, 1, n)
           values == ValuesOf(data, Plus, Slash)
           bits == Bits(values, 6)
           v == decode_char(text[n])
<1>1. /\ n \in 0..Len(text) /\ n \in Nat /\ Len(text) = n + ((4 - (n % 4)) % 4)
      /\ \A i \in 1..n : text[i] \in Alphabet64
      /\ \A i \in (n + 1)..Len(text) : text[i] = Pad
  BY DEF Shaped
<1>2. Len(data) = n /\ \A i \in 1..n : data[i] = text[i]
  BY <1>1, PaddedIs
<1>3. Len(values) = n /\ \A i \in 1..n : values[i] = decode_char(text[i])
  <2> HIDE DEF data
  <2>1. Len(values) = n /\ \A i \in 1..n : values[i] = Value64(text[i], Plus, Slash)
    BY <1>1, <1>2 DEF ValuesOf
  <2> HIDE DEF values
  <2> QED BY <1>1, <2>1, ValueIsDecoded
<1>4. Len(bits) = 6 * n /\ \A i \in ((8 * ((6 * n) \div 8)) + 1)..(6 * n) : bits[i] = 0
  <2>1. Len(bits) = 6 * n
    BY <1>1, <1>3, BitsAre
  <2>2. \A i \in ((8 * (Len(bits) \div 8)) + 1)..Len(bits) : bits[i] = 0
    BY DEF CanonicalDigits, ValuesOf
  <2> QED BY <2>1, <2>2
<1> HIDE DEF bits, values, v
<1>5. ASSUME n % 4 = 2 \/ n % 4 = 3, NEW s \in 0..5, n % 4 = 2 => s \in 2..5, n % 4 = 3 => s \in 4..5
      PROVE  (v \div (2 ^ (5 - s))) % 2 = 0
  <2> DEFINE i == (6 * (n - 1)) + s + 1
  <2>1. /\ i \in 1..(6 * n) /\ (i - 1) \div 6 = n - 1 /\ (i - 1) % 6 = s
        /\ i \in ((8 * ((6 * n) \div 8)) + 1)..(6 * n) /\ n \in 1..n
    <3>1. n \in Nat /\ n >= 2
      BY <1>1, <1>5
    <3>2. i \in 1..(6 * n) /\ (i - 1) \div 6 = n - 1 /\ (i - 1) % 6 = s
      BY <3>1
    <3>3. n % 4 = 2 => 8 * ((6 * n) \div 8) = (6 * n) - 4
      BY <3>1
    <3>4. n % 4 = 3 => 8 * ((6 * n) \div 8) = (6 * n) - 2
      BY <3>1
    <3>5. i >= (8 * ((6 * n) \div 8)) + 1
      BY <1>5, <3>1, <3>3, <3>4
    <3> QED BY <3>1, <3>2, <3>5
  <2> HIDE DEF i
  <2>2. bits[i] = (values[((i - 1) \div 6) + 1] \div (2 ^ (6 - 1 - ((i - 1) % 6)))) % 2
    BY <1>1, <1>3, <2>1, BitsAre DEF bits
  <2>3. (n - 1) + 1 = n /\ 6 - 1 - s = 5 - s
    BY <1>1
  <2>4. bits[i] = (values[n] \div (2 ^ (5 - s))) % 2
    BY ONLY <2>1, <2>2, <2>3
  <2>5. values[n] = v
    BY <1>3, <2>1 DEF v
  <2> QED BY <1>4, <2>1, <2>4, <2>5
<1>6. n % 4 = 2 \/ n % 4 = 3 => v \in 0..63
  <2> HAVE n % 4 = 2 \/ n % 4 = 3
  <2>1. n \in 1..n
    BY <1>1
  <2> QED BY <1>1, <2>1, AlphabetInverse DEF v
<1>7. ASSUME n % 4 = 2
      PROVE  v % 16 = 0
  <2>1. (v \div (2 ^ 3)) % 2 = 0 /\ (v \div (2 ^ 2)) % 2 = 0 /\ (v \div (2 ^ 1)) % 2 = 0
        /\ (v \div (2 ^ 0)) % 2 = 0
    <3>1. 5 - 2 = 3 /\ 5 - 3 = 2 /\ 5 - 4 = 1 /\ 5 - 5 = 0
      OBVIOUS
    <3>2. ASSUME NEW s \in 2..5
          PROVE  (v \div (2 ^ (5 - s))) % 2 = 0
      <4>1. s \in 0..5 /\ (n % 4 = 2 => s \in 2..5) /\ (n % 4 = 3 => s \in 4..5)
        BY <1>7
      <4> QED BY ONLY <1>5, <1>7, <4>1
    <3> QED BY <3>1, <3>2
  <2>2. (v \div 8) % 2 = 0 /\ (v \div 4) % 2 = 0 /\ (v \div 2) % 2 = 0 /\ (v \div 1) % 2 = 0
    BY ONLY <2>1, Powers
  <2>3. v \in 0..63
    BY <1>6, <1>7
  <2>4. v % 2 = 0 /\ v % 4 = 0
    BY ONLY <2>2, <2>3
  <2>5. v % 8 = 0
    BY ONLY <2>2, <2>3, <2>4
  <2> QED BY ONLY <2>2, <2>3, <2>5
<1>8. ASSUME n % 4 = 3
      PROVE  v % 4 = 0
  <2>1. (v \div (2 ^ 1)) % 2 = 0 /\ (v \div (2 ^ 0)) % 2 = 0
    <3>1. 5 - 4 = 1 /\ 5 - 5 = 0
      OBVIOUS
    <3>2. ASSUME NEW s \in 4..5
          PROVE  (v \div (2 ^ (5 - s))) % 2 = 0
      <4>1. s \in 0..5 /\ (n % 4 = 2 => s \in 2..5) /\ (n % 4 = 3 => s \in 4..5)
        BY <1>8
      <4> QED BY ONLY <1>5, <1>8, <4>1
    <3> QED BY <3>1, <3>2
  <2>2. (v \div 2) % 2 = 0 /\ (v \div 1) % 2 = 0
    BY ONLY <2>1, Powers
  <2>3. v \in 0..63
    BY <1>6, <1>8
  <2> QED BY ONLY <2>2, <2>3
<1> QED BY <1>7, <1>8 DEF UnusedAreZero, v

\* base64_decode: a text is decoded if and only if it is canonical, and to the bytes it denotes.
THEOREM DecodeIsStrict ==
    ASSUME NEW text \in Seq(Byte)
    PROVE  LET result == base64_decode(text) IN
           /\ result.ok <=> CanonicalBase64(text)
           /\ result.ok => /\ result.bytes \in Seq(Byte)
                           /\ base64_encode(result.bytes) = text
                           /\ Denotes(Unpadded(text), result.bytes, Plus, Slash)
<1> DEFINE result == base64_decode(text)
           bytes == decoded_groups(text)
<1>1. result.ok => /\ ~reject_invalid_base64(text) /\ base64_encode(bytes) = text
                   /\ result.bytes = bytes
  BY DEF base64_decode, NotCanonical, Ok, Refused
<1>2. ~reject_invalid_base64(text) /\ base64_encode(bytes) = text => result.ok
  BY DEF base64_decode, NotCanonical, Ok
<1> HIDE DEF result, bytes
<1>3. ASSUME result.ok
      PROVE  /\ CanonicalBase64(text) /\ bytes \in Seq(Byte)
             /\ Denotes(Unpadded(text), bytes, Plus, Slash)
  <2>1. PICK n \in 0..Len(text) : Shaped(text, n)
    BY <1>1, <1>3, RejectsOthers
  <2>2. bytes \in Seq(Byte)
    BY <2>1, DecodedBytes DEF bytes
  <2> QED BY <1>1, <1>3, <2>2, EncodeIsStrict
<1>4. ASSUME CanonicalBase64(text)
      PROVE  result.ok
  <2>1. PICK n \in 0..Len(text) :
           Shaped(text, n) /\ CanonicalDigits(SubSeq(text, 1, n), Plus, Slash)
    BY <1>4, CanonicalIsShaped
  <2>2. UnusedAreZero(text, n)
    BY <2>1, CanonicalHasUnusedZero
  <2>3. base64_encode(bytes) = text
    BY <2>1, <2>2, EncodesAgain DEF bytes
  <2>4. ~reject_invalid_base64(text)
    BY <2>1, RejectsOthers
  <2> QED BY <1>2, <2>3, <2>4
<1> QED BY <1>1, <1>3, <1>4 DEF result

-----------------------------------------------------------------------------
(* Base64URL. *)

\* The digits of a text and of its other spelling have the same values.
LEMMA SameMeaning ==
    ASSUME NEW text, NEW data, NEW n \in Nat, Len(text) = n, Len(data) = n,
           \A i \in 1..n : text[i] \in AlphabetUrl /\ data[i] = plain(text[i])
    PROVE  /\ CanonicalDigits(text, Minus, Underscore) <=> CanonicalDigits(data, Plus, Slash)
           /\ \A bytes : Denotes(text, bytes, Minus, Underscore) <=> Denotes(data, bytes, Plus, Slash)
<1>1. \A i \in 1..n : /\ data[i] \in Alphabet64
                      /\ Value64(text[i], Minus, Underscore) = Value64(data[i], Plus, Slash)
  BY UrlAlphabet
<1>2. ValuesOf(text, Minus, Underscore) = ValuesOf(data, Plus, Slash)
  BY <1>1 DEF ValuesOf
<1> DEFINE bits == Bits(ValuesOf(data, Plus, Slash), 6)
<1> HIDE DEF bits
<1>3. CanonicalDigits(text, Minus, Underscore) <=>
         /\ \A i \in 1..Len(text) : text[i] \in AlphabetUrl
         /\ Len(text) % 4 # 1
         /\ \A i \in ((8 * (Len(bits) \div 8)) + 1)..Len(bits) : bits[i] = 0
  BY <1>2 DEF CanonicalDigits, ValuesOf, AlphabetUrl, bits
<1>4. CanonicalDigits(data, Plus, Slash) <=>
         /\ \A i \in 1..Len(data) : data[i] \in Alphabet64
         /\ Len(data) % 4 # 1
         /\ \A i \in ((8 * (Len(bits) \div 8)) + 1)..Len(bits) : bits[i] = 0
  BY DEF CanonicalDigits, ValuesOf, Alphabet64, bits
<1>5. ASSUME NEW bytes
      PROVE  Denotes(text, bytes, Minus, Underscore) <=> Denotes(data, bytes, Plus, Slash)
  <2>1. Denotes(text, bytes, Minus, Underscore) <=>
           /\ Len(text) = ((8 * Len(bytes)) + 5) \div 6
           /\ SubSeq(bits, 1, 8 * Len(bytes)) = Bits(bytes, 8)
           /\ \A i \in ((8 * Len(bytes)) + 1)..Len(bits) : bits[i] = 0
    BY <1>2 DEF Denotes, ValuesOf, bits
  <2>2. Denotes(data, bytes, Plus, Slash) <=>
           /\ Len(data) = ((8 * Len(bytes)) + 5) \div 6
           /\ SubSeq(bits, 1, 8 * Len(bytes)) = Bits(bytes, 8)
           /\ \A i \in ((8 * Len(bytes)) + 1)..Len(bits) : bits[i] = 0
    BY DEF Denotes, ValuesOf, bits
  <2> QED BY <2>1, <2>2
<1> QED BY <1>1, <1>3, <1>4, <1>5

\* Padding and taking it away again.
LEMMA PaddedShape ==
    ASSUME NEW data \in Seq(Byte), \A i \in 1..Len(data) : data[i] # Pad
    PROVE  LET text == Padded(data)  n == Len(data) IN
           /\ text \in Seq(Byte) /\ Len(text) = n + ((4 - (n % 4)) % 4) /\ n \in 0..Len(text)
           /\ \A i \in 1..n : text[i] = data[i]
           /\ \A i \in (n + 1)..Len(text) : text[i] = Pad
           /\ Unpadded(text) = data
<1> DEFINE n == Len(data)
           m == (4 - (n % 4)) % 4
           pads == [i \in 1..m |-> Pad]
           text == data \o pads
<1>1. n \in Nat /\ m \in Nat
  OBVIOUS
<1>2. pads \in Seq(Byte) /\ Len(pads) = m /\ \A i \in 1..m : pads[i] = Pad
  <2>1. Pad \in Byte
    BY DEF Pad, Byte
  <2> QED BY <1>1, <2>1
<1>3. Padded(data) = text
  BY DEF Padded
<1> HIDE DEF m, pads
<1>4. /\ data \o pads \in Seq(Byte) /\ Len(data \o pads) = Len(data) + Len(pads)
      /\ \A i \in 1..(Len(data) + Len(pads)) :
            (data \o pads)[i] = IF i <= Len(data) THEN data[i] ELSE pads[i - Len(data)]
  BY ONLY <1>2, data \in Seq(Byte), ConcatProperties
<1> HIDE DEF text, n
<1>5. text \in Seq(Byte) /\ Len(text) = n + m /\ n \in 0..Len(text)
  BY <1>1, <1>2, <1>4 DEF text, n
<1>6. \A i \in 1..n : text[i] = data[i]
  <2> TAKE i \in 1..n
  <2>1. i \in 1..(n + m) /\ i <= n
    BY <1>1
  <2> QED BY <1>2, <1>4, <2>1 DEF text, n
<1>7. \A i \in (n + 1)..Len(text) : text[i] = Pad
  <2> TAKE i \in (n + 1)..Len(text)
  <2>1. i \in 1..(n + m) /\ ~(i <= n) /\ i - n \in 1..m
    BY <1>1, <1>5
  <2> QED BY <1>2, <1>4, <2>1 DEF text, n
<1>8. Unpadded(text) = data
  <2>1. n > 0 => text[n] # Pad
    <3>1. n > 0 => n \in 1..n
      BY <1>1
    <3> QED BY <1>6, <3>1 DEF n
  <2>2. Unpadded(text) = SubSeq(text, 1, n)
    BY <1>5, <1>7, <2>1, UnpaddedIs
  <2>3. /\ SubSeq(text, 1, n) \in Seq(Byte) /\ Len(SubSeq(text, 1, n)) = n
        /\ \A i \in 1..n : SubSeq(text, 1, n)[i] = text[i]
    BY <1>5, <1>7, PaddedIs DEF m
  <2>4. SubSeq(text, 1, n) = data
    BY ONLY <1>6, <2>3, data \in Seq(Byte), SameText DEF n
  <2> QED BY <2>2, <2>4
<1> QED BY <1>3, <1>5, <1>6, <1>7, <1>8 DEF n, m

\* base64url_encode renames the digits of base64_encode and leaves the padding away.
LEMMA UrlEncodeIs ==
    ASSUME NEW bytes \in Seq(Byte)
    PROVE  LET text == base64_encode(bytes)  n == Digits(bytes) IN
           /\ base64url_encode(bytes) \in Seq(Byte) /\ Len(base64url_encode(bytes)) = n
           /\ \A i \in 1..n : base64url_encode(bytes)[i] = url(text[i])
<1> DEFINE text == base64_encode(bytes)
           n == Digits(bytes)
           mapped == Map(url, text)
<1>1. /\ text \in Seq(Byte) /\ n \in Nat /\ Len(text) = n + ((4 - (n % 4)) % 4)
      /\ \A i \in 1..n : text[i] \in Alphabet64
      /\ \A i \in (n + 1)..Len(text) : text[i] = Pad
  BY EncodedDigits
<1> HIDE DEF text, n
<1>2. n \in 0..Len(text)
  <2>1. (4 - (n % 4)) % 4 \in Nat
    BY <1>1
  <2> QED BY <1>1, <2>1
<1>3. mapped \in Seq(Byte) /\ Len(mapped) = Len(text) /\ \A i \in 1..Len(text) : mapped[i] = url(text[i])
  <2>1. \A ch \in Byte : url(ch) \in Byte
    BY DEF url, Byte, Minus, Underscore
  <2>2. \A i \in 1..Len(text) : url(text[i]) \in Byte
    BY <1>1, <2>1
  <2>3. Len(text) \in Nat
    BY <1>1
  <2> QED BY <2>2, <2>3 DEF Map
<1> HIDE DEF mapped
<1>4. \A i \in (n + 1)..Len(mapped) : mapped[i] = Pad
  <2>1. url(Pad) = Pad
    BY DEF url, Pad, Plus, Slash
  <2>2. \A i \in (n + 1)..Len(mapped) : i \in 1..Len(text)
    BY <1>1, <1>3
  <2> QED BY <1>1, <1>3, <2>1, <2>2
<1>5. n > 0 => mapped[n] # Pad
  <2> HAVE n > 0
  <2>1. n \in 1..n /\ n \in 1..Len(text)
    BY <1>1, <1>2
  <2>2. mapped[n] \in AlphabetUrl
    BY <1>1, <1>3, <2>1, UrlAlphabet
  <2> QED BY <2>2, UrlAlphabet
<1>6. base64url_encode(bytes) = SubSeq(mapped, 1, n)
  <2>1. base64url_encode(bytes) = Unpadded(mapped)
    BY DEF base64url_encode, mapped, text
  <2> QED BY <1>2, <1>3, <1>4, <1>5, <2>1, UnpaddedIs
<1>7. /\ SubSeq(mapped, 1, n) \in Seq(Byte) /\ Len(SubSeq(mapped, 1, n)) = n
      /\ \A i \in 1..n : SubSeq(mapped, 1, n)[i] = mapped[i]
  BY <1>1, <1>2, <1>3, <1>4, PaddedIs
<1>8. \A i \in 1..n : mapped[i] = url(text[i])
  BY <1>1, <1>2, <1>3
<1> QED BY <1>6, <1>7, <1>8 DEF text, n

\* base64url_encode: the text is canonical, and the bits of its digits are the bytes.
THEOREM UrlEncodeIsStrict ==
    ASSUME NEW bytes \in Seq(Byte)
    PROVE  LET text == base64url_encode(bytes) IN
           /\ text \in Seq(Byte) /\ CanonicalBase64Url(text)
           /\ Denotes(text, bytes, Minus, Underscore)
<1> DEFINE n == Digits(bytes)
           text == base64url_encode(bytes)
           data == [i \in 1..n |-> base64_encode(bytes)[i]]
<1>1. /\ n \in Nat /\ text \in Seq(Byte) /\ Len(text) = n
      /\ \A i \in 1..n : text[i] = url(base64_encode(bytes)[i]) /\ base64_encode(bytes)[i] \in Alphabet64
  BY UrlEncodeIs, EncodedDigits
<1>2. Len(data) = n /\ \A i \in 1..n : data[i] = base64_encode(bytes)[i]
  BY <1>1
<1> HIDE DEF data, text
<1>3. \A i \in 1..n : text[i] \in AlphabetUrl /\ data[i] = plain(text[i])
  BY <1>1, <1>2, UrlAlphabet
<1>4. Denotes(data, bytes, Plus, Slash) /\ CanonicalDigits(data, Plus, Slash)
  BY <1>2, EncodedDenotes
<1> QED BY <1>1, <1>2, <1>3, <1>4, SameMeaning DEF CanonicalBase64Url, text

\* base64url_decode: a text is decoded if and only if it is canonical, and to the bytes it
\* denotes.
THEOREM UrlDecodeIsStrict ==
    ASSUME NEW text \in Seq(Byte)
    PROVE  LET result == base64url_decode(text) IN
           /\ result.ok <=> CanonicalBase64Url(text)
           /\ result.ok => /\ result.bytes \in Seq(Byte)
                           /\ Denotes(text, result.bytes, Minus, Underscore)
<1> DEFINE n == Len(text)
           data == Map(plain, text)
           padded == Padded(data)
           inner == base64_decode(padded)
           result == base64url_decode(text)
<1>1. /\ data \in Seq(Byte) /\ Len(data) = n /\ \A i \in 1..n : data[i] = plain(text[i])
      /\ n \in Nat
  <2>1. \A ch \in Byte : plain(ch) \in Byte
    BY DEF plain, Byte, Plus, Slash
  <2>2. \A i \in 1..n : plain(text[i]) \in Byte
    BY <2>1
  <2> QED BY <2>2 DEF Map
<1>2. result.ok => /\ \A i \in 1..n : is_base64url_char(text[i])
                   /\ inner.ok /\ base64url_encode(inner.bytes) = text /\ result = inner
  BY DEF base64url_decode, Refused
<1>3. /\ n % 4 # 1 /\ (\A i \in 1..n : is_base64url_char(text[i])) /\ inner.ok
      /\ base64url_encode(inner.bytes) = text
      => result = inner
  BY DEF base64url_decode
<1> HIDE DEF data, padded, inner, result
<1>4. ASSUME \A i \in 1..n : text[i] \in AlphabetUrl
      PROVE  /\ padded \in Seq(Byte) /\ Len(padded) = n + ((4 - (n % 4)) % 4) /\ n \in 0..Len(padded)
             /\ \A i \in 1..n : padded[i] = data[i] /\ data[i] \in Alphabet64
             /\ \A i \in (n + 1)..Len(padded) : padded[i] = Pad
             /\ Unpadded(padded) = data
  <2>1. \A i \in 1..n : data[i] \in Alphabet64
    BY <1>1, <1>4, UrlAlphabet
  <2>2. \A i \in 1..Len(data) : data[i] # Pad
    BY <1>1, <2>1, AlphabetInverse
  <2> QED BY <1>1, <2>1, <2>2, PaddedShape DEF padded
<1>5. ASSUME result.ok
      PROVE  /\ result.bytes \in Seq(Byte) /\ CanonicalBase64Url(text)
             /\ Denotes(text, result.bytes, Minus, Underscore)
  <2>1. \A i \in 1..n : text[i] \in AlphabetUrl
    BY <1>2, <1>5, UrlAlphabet
  <2>2. result.bytes \in Seq(Byte)
    BY <1>2, <1>4, <1>5, <2>1, DecodeIsStrict DEF inner
  <2>3. base64url_encode(result.bytes) = text
    BY <1>2, <1>5
  <2> QED BY <2>2, <2>3, UrlEncodeIsStrict
<1>6. ASSUME CanonicalBase64Url(text)
      PROVE  result.ok
  <2>1. n % 4 # 1 /\ \A i \in 1..n : text[i] \in AlphabetUrl
    BY <1>6 DEF CanonicalBase64Url, CanonicalDigits, AlphabetUrl
  <2>2. \A i \in 1..n : is_base64url_char(text[i])
    BY <2>1, UrlAlphabet
  <2>3. CanonicalDigits(data, Plus, Slash)
    BY <1>1, <1>6, <2>1, SameMeaning DEF CanonicalBase64Url
  <2>4. CanonicalBase64(padded)
    BY <1>4, <2>1, <2>3 DEF CanonicalBase64, padded
  <2>5. inner.ok /\ base64_encode(inner.bytes) = padded
    BY <1>4, <2>1, <2>4, DecodeIsStrict DEF inner
  <2>6. base64url_encode(inner.bytes) = text
    <3> DEFINE mapped == Map(url, padded)
    <3>1. base64url_encode(inner.bytes) = Unpadded(mapped)
      BY <2>5 DEF base64url_encode
    <3>2. mapped \in Seq(Byte) /\ Len(mapped) = Len(padded)
          /\ \A i \in 1..Len(padded) : mapped[i] = url(padded[i])
      <4>1. \A ch \in Byte : url(ch) \in Byte
        BY DEF url, Byte, Minus, Underscore
      <4>2. padded \in Seq(Byte)
        BY <1>4, <2>1
      <4>3. \A i \in 1..Len(padded) : url(padded[i]) \in Byte
        BY <4>1, <4>2
      <4>4. Len(padded) \in Nat
        BY <4>2
      <4> QED BY <4>3, <4>4 DEF Map
    <3> HIDE DEF mapped
    <3>3. \A i \in 1..n : mapped[i] = text[i]
      <4> TAKE i \in 1..n
      <4>1. i \in 1..Len(padded)
        BY <1>1, <1>4, <2>1
      <4>2. mapped[i] = url(plain(text[i]))
        BY <1>1, <1>4, <2>1, <3>2, <4>1
      <4> QED BY <2>1, <4>2, UrlAlphabet
    <3>4. \A i \in (n + 1)..Len(mapped) : mapped[i] = Pad
      <4>1. url(Pad) = Pad
        BY DEF url, Pad, Plus, Slash
      <4>2. \A i \in (n + 1)..Len(mapped) : i \in 1..Len(padded) /\ padded[i] = Pad
        BY <1>1, <1>4, <2>1, <3>2
      <4> QED BY <3>2, <4>1, <4>2
    <3>5. n > 0 => mapped[n] # Pad
      <4> HAVE n > 0
      <4>1. n \in 1..n
        BY <1>1
      <4>2. mapped[n] \in AlphabetUrl
        BY <2>1, <3>3, <4>1
      <4> QED BY <4>2, UrlAlphabet
    <3>6. n \in 0..Len(mapped) /\ Len(mapped) = n + ((4 - (n % 4)) % 4)
      BY <1>4, <2>1, <3>2
    <3>7. Unpadded(mapped) = SubSeq(mapped, 1, n)
      BY ONLY <3>2, <3>4, <3>5, <3>6, UnpaddedIs
    <3>8. /\ SubSeq(mapped, 1, n) \in Seq(Byte) /\ Len(SubSeq(mapped, 1, n)) = n
          /\ \A i \in 1..n : SubSeq(mapped, 1, n)[i] = mapped[i]
      BY ONLY <3>2, <3>4, <3>6, PaddedIs
    <3>9. SubSeq(mapped, 1, n) = text
      BY ONLY <3>3, <3>8, text \in Seq(Byte), SameText
    <3> QED BY <3>1, <3>7, <3>9
  <2> QED BY <1>3, <2>1, <2>2, <2>5, <2>6
<1> QED BY <1>5, <1>6 DEF result

-----------------------------------------------------------------------------
(* What a text denotes is unique. *)

\* A byte is determined by its bits.
LEMMA ByteFromBits ==
    ASSUME NEW x \in Byte, NEW y \in Byte,
           \A r \in 0..7 : (x \div (2 ^ r)) % 2 = (y \div (2 ^ r)) % 2
    PROVE  x = y
<1>1. /\ (x \div (2 ^ 0)) % 2 = (y \div (2 ^ 0)) % 2 /\ (x \div (2 ^ 1)) % 2 = (y \div (2 ^ 1)) % 2
      /\ (x \div (2 ^ 2)) % 2 = (y \div (2 ^ 2)) % 2 /\ (x \div (2 ^ 3)) % 2 = (y \div (2 ^ 3)) % 2
      /\ (x \div (2 ^ 4)) % 2 = (y \div (2 ^ 4)) % 2 /\ (x \div (2 ^ 5)) % 2 = (y \div (2 ^ 5)) % 2
      /\ (x \div (2 ^ 6)) % 2 = (y \div (2 ^ 6)) % 2 /\ (x \div (2 ^ 7)) % 2 = (y \div (2 ^ 7)) % 2
  OBVIOUS
<1>2. /\ (x \div 1) % 2 = (y \div 1) % 2 /\ (x \div 2) % 2 = (y \div 2) % 2
      /\ (x \div 4) % 2 = (y \div 4) % 2 /\ (x \div 8) % 2 = (y \div 8) % 2
      /\ (x \div 16) % 2 = (y \div 16) % 2 /\ (x \div 32) % 2 = (y \div 32) % 2
      /\ (x \div 64) % 2 = (y \div 64) % 2 /\ (x \div 128) % 2 = (y \div 128) % 2
  BY ONLY <1>1, Powers
<1>3. x \in 0..255 /\ y \in 0..255
  BY DEF Byte
<1>4. x \div 64 = y \div 64
  BY ONLY <1>2, <1>3
<1>5. x \div 32 = y \div 32
  BY ONLY <1>2, <1>3, <1>4
<1>6. x \div 16 = y \div 16
  BY ONLY <1>2, <1>3, <1>5
<1>7. x \div 8 = y \div 8
  BY ONLY <1>2, <1>3, <1>6
<1>8. x \div 4 = y \div 4
  BY ONLY <1>2, <1>3, <1>7
<1>9. x \div 2 = y \div 2
  BY ONLY <1>2, <1>3, <1>8
<1> QED BY ONLY <1>2, <1>3, <1>9

\* So are the bytes of a sequence.
LEMMA BytesFromBits ==
    ASSUME NEW x \in Seq(Byte), NEW y \in Seq(Byte), Len(x) = Len(y), Bits(x, 8) = Bits(y, 8)
    PROVE  x = y
<1> DEFINE n == Len(x)
<1>1. n \in Nat /\ Len(y) = n
  OBVIOUS
<1> HIDE DEF n
<1>2. ASSUME NEW j \in 1..n
      PROVE  x[j] = y[j]
  <2>1. x[j] \in Byte /\ y[j] \in Byte
    BY <1>1 DEF n
  <2>2. ASSUME NEW r \in 0..7
        PROVE  (x[j] \div (2 ^ r)) % 2 = (y[j] \div (2 ^ r)) % 2
    <3> DEFINE i == (8 * (j - 1)) + (7 - r) + 1
    <3>1. /\ i \in 1..(8 * n) /\ ((i - 1) \div 8) + 1 = j /\ 8 - 1 - ((i - 1) % 8) = r
      BY <1>1
    <3>2. Len(x) = n
      BY DEF n
    <3> HIDE DEF i
    <3>3. Bits(x, 8)[i] = (x[((i - 1) \div 8) + 1] \div (2 ^ (8 - 1 - ((i - 1) % 8)))) % 2
      BY <1>1, <3>1, <3>2, BitsAre
    <3>4. Bits(y, 8)[i] = (y[((i - 1) \div 8) + 1] \div (2 ^ (8 - 1 - ((i - 1) % 8)))) % 2
      BY <1>1, <3>1, BitsAre
    <3>5. Bits(x, 8) = Bits(y, 8)
      OBVIOUS
    <3> QED BY ONLY <3>1, <3>3, <3>4, <3>5
  <2> QED BY ONLY <2>1, <2>2, ByteFromBits
<1> QED BY ONLY <1>1, <1>2, x \in Seq(Byte), y \in Seq(Byte), SameText DEF n

\* A text denotes one sequence of bytes at most.
LEMMA DenotesOne ==
    ASSUME NEW data, NEW p, NEW q, NEW x \in Seq(Byte), NEW y \in Seq(Byte),
           Denotes(data, x, p, q), Denotes(data, y, p, q)
    PROVE  x = y
<1>1. Len(x) \in Nat /\ Len(y) \in Nat
  OBVIOUS
<1>2. ((8 * Len(x)) + 5) \div 6 = ((8 * Len(y)) + 5) \div 6
  BY DEF Denotes
<1>3. Len(y) = Len(x)
  BY ONLY <1>1, <1>2
<1>4. Bits(x, 8) = Bits(y, 8)
  BY <1>3 DEF Denotes
<1> QED BY <1>3, <1>4, BytesFromBits

\* base64url_decode gives back what was encoded.
LEMMA UrlRoundTrip ==
    ASSUME NEW bytes \in Seq(Byte)
    PROVE  LET result == base64url_decode(base64url_encode(bytes)) IN
           result.ok /\ result.bytes = bytes
<1> DEFINE text == base64url_encode(bytes)
           result == base64url_decode(text)
<1>1. text \in Seq(Byte) /\ CanonicalBase64Url(text) /\ Denotes(text, bytes, Minus, Underscore)
  BY UrlEncodeIsStrict
<1> HIDE DEF text
<1>2. result.ok /\ result.bytes \in Seq(Byte) /\ Denotes(text, result.bytes, Minus, Underscore)
  BY <1>1, UrlDecodeIsStrict
<1> HIDE DEF result
<1>3. result.bytes = bytes
  BY <1>1, <1>2, DenotesOne
<1> QED BY <1>2, <1>3 DEF result, text

-----------------------------------------------------------------------------
(* Hex. *)

\* decode_nibble gives the value of a digit, and refuses every other character.
LEMMA HexDigits ==
    /\ \A ch \in HexDigit : decode_nibble(ch) \in 0..15 /\ HexValue(ch) = decode_nibble(ch)
    /\ \A ch : decode_nibble(ch) < 0 <=> ch \notin HexDigit
    /\ \A v \in 0..15 : encode_nibble(v) \in HexDigit /\ HexValue(encode_nibble(v)) = v
<1>1. \A ch : decode_nibble(ch) < 0 <=> ch \notin HexDigit
  BY DEF decode_nibble, HexDigit, Digit
<1>2. ASSUME NEW ch \in HexDigit
      PROVE  decode_nibble(ch) \in 0..15 /\ HexValue(ch) = decode_nibble(ch)
  <2>1. decode_nibble(ch) \in 0..15
    BY DEF decode_nibble, HexDigit, Digit
  <2>2. \A v \in 0..15 : ch \in {encode_nibble(v), encode_nibble(v) - 32 * (v \div 10)}
           <=> v = decode_nibble(ch)
    BY DEF encode_nibble, decode_nibble, HexDigit, Digit
  <2> QED BY <2>1, <2>2 DEF HexValue
<1>3. ASSUME NEW v \in 0..15
      PROVE  encode_nibble(v) \in HexDigit /\ HexValue(encode_nibble(v)) = v
  <2>1. encode_nibble(v) \in HexDigit /\ decode_nibble(encode_nibble(v)) = v
    BY DEF encode_nibble, decode_nibble, HexDigit, Digit
  <2> QED BY <1>2, <2>1
<1> QED BY <1>1, <1>2, <1>3

\* The bits of two nibbles are those of their byte.
LEMMA NibbleBits ==
    ASSUME NEW x \in 0..15, NEW y \in 0..15, NEW u \in 0..7
    PROVE  (((x * 16) + y) \div (2 ^ (7 - u))) % 2
              = ((IF u < 4 THEN x ELSE y) \div (2 ^ (3 - (u % 4)))) % 2
<1>0. CASE u = 0 BY <1>0, Powers
<1>1. CASE u = 1 BY <1>1, Powers
<1>2. CASE u = 2 BY <1>2, Powers
<1>3. CASE u = 3 BY <1>3, Powers
<1>4. CASE u = 4 BY <1>4, Powers
<1>5. CASE u = 5 BY <1>5, Powers
<1>6. CASE u = 6 BY <1>6, Powers
<1>7. CASE u = 7 BY <1>7, Powers
<1> QED BY <1>0, <1>1, <1>2, <1>3, <1>4, <1>5, <1>6, <1>7

\* Two digits for each byte denote the bytes.
LEMMA DenotesHexIs ==
    ASSUME NEW text, NEW bytes, NEW n \in Nat, Len(bytes) = n, Len(text) = 2 * n,
           \A j \in 1..n : /\ HexValue(text[(2 * j) - 1]) \in 0..15 /\ HexValue(text[2 * j]) \in 0..15
                           /\ bytes[j] = (HexValue(text[(2 * j) - 1]) * 16) + HexValue(text[2 * j])
    PROVE  DenotesHex(text, bytes)
<1> DEFINE values == Map(HexValue, text)
<1>1. 2 * n \in Nat /\ 4 * (2 * n) = 8 * n
  OBVIOUS
<1>2. Len(values) = 2 * n /\ \A k \in 1..(2 * n) : values[k] = HexValue(text[k])
  BY <1>1 DEF Map
<1> HIDE DEF values
<1>3. /\ Bits(values, 4) = [i \in 1..(8 * n) |-> Bits(values, 4)[i]]
      /\ \A i \in 1..(8 * n) : Bits(values, 4)[i]
            = (values[((i - 1) \div 4) + 1] \div (2 ^ (4 - 1 - ((i - 1) % 4)))) % 2
  <2> DEFINE m == 2 * n
  <2>1. m \in Nat /\ Len(values) = m /\ 4 * m = 8 * n
    BY <1>1, <1>2
  <2> HIDE DEF m
  <2>2. /\ Bits(values, 4) = [i \in 1..(4 * m) |-> Bits(values, 4)[i]]
        /\ \A i \in 1..(4 * m) : Bits(values, 4)[i]
              = (values[((i - 1) \div 4) + 1] \div (2 ^ (4 - 1 - ((i - 1) % 4)))) % 2
    BY ONLY <2>1, BitsAre
  <2> QED BY ONLY <2>1, <2>2
<1>4. /\ Bits(bytes, 8) = [i \in 1..(8 * n) |-> Bits(bytes, 8)[i]]
      /\ \A i \in 1..(8 * n) : Bits(bytes, 8)[i]
            = (bytes[((i - 1) \div 8) + 1] \div (2 ^ (8 - 1 - ((i - 1) % 8)))) % 2
  BY BitsAre
<1>5. ASSUME NEW i \in 1..(8 * n)
      PROVE  Bits(values, 4)[i] = Bits(bytes, 8)[i]
  <2> DEFINE j == ((i - 1) \div 8) + 1
             u == (i - 1) % 8
             x == HexValue(text[(2 * j) - 1])
             y == HexValue(text[2 * j])
  <2>1. /\ j \in 1..n /\ u \in 0..7 /\ (i - 1) % 4 = u % 4
        /\ u < 4 => ((i - 1) \div 4) + 1 = (2 * j) - 1
        /\ ~(u < 4) => ((i - 1) \div 4) + 1 = 2 * j
        /\ 8 - 1 - u = 7 - u /\ 4 - 1 - (u % 4) = 3 - (u % 4)
        /\ (2 * j) - 1 \in 1..(2 * n) /\ 2 * j \in 1..(2 * n)
    <3>1. i \in Nat /\ i >= 1 /\ i <= 8 * n
      OBVIOUS
    <3>2. j \in 1..n /\ u \in 0..7 /\ i - 1 = (8 * (j - 1)) + u
      <4>1. (i - 1) \div 8 \in 0..(n - 1) /\ u \in 0..7
        BY ONLY <3>1, n \in Nat
      <4>2. j - 1 = (i - 1) \div 8 /\ i - 1 = (8 * ((i - 1) \div 8)) + u
        BY ONLY <3>1
      <4> QED BY ONLY <4>1, <4>2
    <3> HIDE DEF j, u
    <3>3. (i - 1) % 4 = u % 4 /\ (i - 1) \div 4 = (2 * (j - 1)) + (u \div 4)
      BY <3>1, <3>2
    <3>4. (u < 4 => u \div 4 = 0) /\ (~(u < 4) => u \div 4 = 1) /\ 2 * (j - 1) = (2 * j) - 2
      BY <3>2
    <3>5. 8 - 1 - u = 7 - u /\ 4 - 1 - (u % 4) = 3 - (u % 4)
      BY <3>2
    <3>6. (2 * j) - 1 \in 1..(2 * n) /\ 2 * j \in 1..(2 * n)
      BY <3>2
    <3>7. /\ u < 4 => ((i - 1) \div 4) + 1 = (2 * j) - 1
          /\ ~(u < 4) => ((i - 1) \div 4) + 1 = 2 * j
      BY ONLY <3>2, <3>3, <3>4, n \in Nat
    <3> QED BY ONLY <3>2, <3>3, <3>5, <3>6, <3>7
  <2> HIDE DEF j, u
  <2>2. x \in 0..15 /\ y \in 0..15 /\ bytes[j] = (x * 16) + y
    BY <2>1
  <2>3. values[((i - 1) \div 4) + 1] = IF u < 4 THEN x ELSE y
    BY <1>2, <2>1
  <2> HIDE DEF x, y
  <2>4. Bits(bytes, 8)[i] = (((x * 16) + y) \div (2 ^ (7 - u))) % 2
    BY <1>4, <2>1, <2>2 DEF j, u
  <2>5. Bits(values, 4)[i] = ((IF u < 4 THEN x ELSE y) \div (2 ^ (3 - (u % 4)))) % 2
    BY <1>3, <2>1, <2>3
  <2> QED BY ONLY <2>1, <2>2, <2>4, <2>5, NibbleBits
<1>6. Bits(values, 4) = Bits(bytes, 8)
  BY ONLY <1>3, <1>4, <1>5
<1> QED BY <1>6 DEF DenotesHex, values

\* hex_encode: the text is canonical and denotes the bytes.
THEOREM HexEncodeIsStrict ==
    ASSUME NEW bytes \in Seq(Byte)
    PROVE  CanonicalHex(hex_encode(bytes)) /\ DenotesHex(hex_encode(bytes), bytes)
<1> DEFINE n == Len(bytes)
           text == hex_encode(bytes)
<1>1. n \in Nat /\ 2 * n \in Nat
  OBVIOUS
<1>2. /\ Len(text) = 2 * n
      /\ \A i \in 1..(2 * n) : text[i] = LET byte == bytes[(i + 1) \div 2] IN
                                         encode_nibble(IF i % 2 = 1 THEN byte \div 16 ELSE byte % 16)
  BY <1>1 DEF hex_encode
<1> HIDE DEF text
<1>3. ASSUME NEW j \in 1..n
      PROVE  /\ text[(2 * j) - 1] = encode_nibble(bytes[j] \div 16)
             /\ text[2 * j] = encode_nibble(bytes[j] % 16)
             /\ bytes[j] \div 16 \in 0..15 /\ bytes[j] % 16 \in 0..15
             /\ bytes[j] = ((bytes[j] \div 16) * 16) + (bytes[j] % 16)
  <2>1. /\ (2 * j) - 1 \in 1..(2 * n) /\ 2 * j \in 1..(2 * n)
        /\ (((2 * j) - 1) + 1) \div 2 = j /\ ((2 * j) + 1) \div 2 = j
        /\ ((2 * j) - 1) % 2 = 1 /\ (2 * j) % 2 = 0
    OBVIOUS
  <2>2. bytes[j] \in 0..255
    <3>1. bytes[j] \in Byte
      OBVIOUS
    <3> QED BY ONLY <3>1 DEF Byte
  <2>6. /\ bytes[j] \div 16 \in 0..15 /\ bytes[j] % 16 \in 0..15
        /\ bytes[j] = ((bytes[j] \div 16) * 16) + (bytes[j] % 16)
    <3>1. \A b \in 0..255 : b \div 16 \in 0..15 /\ b % 16 \in 0..15 /\ b = ((b \div 16) * 16) + (b % 16)
      OBVIOUS
    <3> QED BY ONLY <2>2, <3>1
  <2>3. text[(2 * j) - 1] = encode_nibble(bytes[j] \div 16)
    BY <1>2, <2>1
  <2>4. text[2 * j] = encode_nibble(bytes[j] % 16)
    BY <1>2, <2>1
  <2> QED BY <2>3, <2>4, <2>6
<1>4. \A j \in 1..n : /\ HexValue(text[(2 * j) - 1]) \in 0..15 /\ HexValue(text[2 * j]) \in 0..15
                      /\ bytes[j] = (HexValue(text[(2 * j) - 1]) * 16) + HexValue(text[2 * j])
  BY <1>3, HexDigits
<1>5. DenotesHex(text, bytes)
  BY <1>1, <1>2, <1>4, DenotesHexIs
<1>6. \A i \in 1..(2 * n) : text[i] \in HexDigit
  <2> TAKE i \in 1..(2 * n)
  <2> DEFINE j == (i + 1) \div 2
  <2>1. j \in 1..n /\ (i = (2 * j) - 1 \/ i = 2 * j)
    BY <1>1
  <2> HIDE DEF j
  <2>2. text[(2 * j) - 1] \in HexDigit /\ text[2 * j] \in HexDigit
    BY <1>3, <2>1, HexDigits
  <2> QED BY <2>1, <2>2
<1>7. CanonicalHex(text)
  BY <1>1, <1>2, <1>6 DEF CanonicalHex
<1> QED BY <1>5, <1>7 DEF text

\* hex_decode: a text is decoded if and only if it is canonical, and to the bytes it denotes.
THEOREM HexDecodeIsStrict ==
    ASSUME NEW text \in Seq(Byte)
    PROVE  LET result == hex_decode(text) IN
           /\ result.ok <=> CanonicalHex(text)
           /\ result.ok => /\ result.bytes \in Seq(Byte) /\ Len(text) = 2 * Len(result.bytes)
                           /\ DenotesHex(text, result.bytes)
<1> DEFINE n == Len(text) \div 2
           bytes == [i \in 1..n |->
                (decode_nibble(text[(2 * i) - 1]) * 16) + decode_nibble(text[2 * i])]
<1>1. CASE ~CanonicalHex(text)
  <2>1. hex_decode(text) = Refused
    BY <1>1, HexDigits DEF hex_decode, CanonicalHex
  <2> QED BY <1>1, <2>1 DEF Refused
<1>2. CASE CanonicalHex(text)
  <2>1. hex_decode(text) = Ok(bytes)
    BY <1>2, HexDigits DEF hex_decode, CanonicalHex
  <2>2. n \in Nat /\ Len(text) = 2 * n
    BY <1>2 DEF CanonicalHex
  <2>3. Len(bytes) = n /\ \A j \in 1..n : bytes[j] =
           (decode_nibble(text[(2 * j) - 1]) * 16) + decode_nibble(text[2 * j])
    BY <2>2
  <2> HIDE DEF bytes
  <2>4. \A j \in 1..n : text[(2 * j) - 1] \in HexDigit /\ text[2 * j] \in HexDigit
    <3> TAKE j \in 1..n
    <3>1. (2 * j) - 1 \in 1..Len(text) /\ 2 * j \in 1..Len(text)
      BY <2>2
    <3> QED BY <1>2, <3>1 DEF CanonicalHex
  <2>5. \A j \in 1..n :
           /\ HexValue(text[(2 * j) - 1]) \in 0..15 /\ HexValue(text[2 * j]) \in 0..15
           /\ bytes[j] = (HexValue(text[(2 * j) - 1]) * 16) + HexValue(text[2 * j])
    BY <2>3, <2>4, HexDigits
  <2> HIDE DEF n
  <2>6. DenotesHex(text, bytes)
    BY <2>2, <2>3, <2>5, DenotesHexIs
  <2>7. \A j \in 1..n : bytes[j] \in Byte
    <3>1. \A a, b \in 0..15 : (a * 16) + b \in Byte
      BY DEF Byte
    <3> QED BY ONLY <2>5, <3>1
  <2>8. bytes \in Seq(Byte)
    <3>1. bytes = [i \in 1..n |-> bytes[i]]
      BY DEF bytes
    <3> QED BY ONLY <2>2, <2>7, <3>1, TextOf
  <2>9. Len(text) = 2 * Len(bytes)
    BY <2>2, <2>3
  <2>10. hex_decode(text).ok /\ hex_decode(text).bytes = bytes
    BY <2>1 DEF Ok
  <2> QED BY <1>2, <2>6, <2>8, <2>9, <2>10
<1> QED BY <1>1, <1>2

-----------------------------------------------------------------------------
(* Round trips. *)

\* What base64_encode, base64url_encode or hex_encode made of any bytes, its decoder accepts
\* and turns into the same bytes again.
THEOREM RoundTrips ==
    ASSUME NEW bytes \in Seq(Byte)
    PROVE  /\ LET r == base64_decode(base64_encode(bytes)) IN r.ok /\ r.bytes = bytes
           /\ LET r == base64url_decode(base64url_encode(bytes)) IN r.ok /\ r.bytes = bytes
           /\ LET r == hex_decode(hex_encode(bytes)) IN r.ok /\ r.bytes = bytes
<1>1. LET r == base64_decode(base64_encode(bytes)) IN r.ok /\ r.bytes = bytes
  <2> DEFINE text == base64_encode(bytes)
             r == base64_decode(text)
  <2>1. /\ text \in Seq(Byte) /\ CanonicalBase64(text)
        /\ Denotes(Unpadded(text), bytes, Plus, Slash)
    BY EncodeIsStrict
  <2> HIDE DEF text
  <2>2. r.ok /\ r.bytes \in Seq(Byte) /\ Denotes(Unpadded(text), r.bytes, Plus, Slash)
    BY <2>1, DecodeIsStrict
  <2> HIDE DEF r
  <2>3. r.bytes = bytes
    BY <2>1, <2>2, DenotesOne
  <2> QED BY <2>2, <2>3 DEF r, text
<1>2. LET r == hex_decode(hex_encode(bytes)) IN r.ok /\ r.bytes = bytes
  <2> DEFINE text == hex_encode(bytes)
             r == hex_decode(text)
  <2>1. Len(bytes) \in Nat
    OBVIOUS
  <2>2. text \in Seq(Byte) /\ Len(text) = 2 * Len(bytes)
    <3>1. 2 * Len(bytes) \in Nat
      BY <2>1
    <3>2. text = [i \in 1..(2 * Len(bytes)) |-> text[i]] /\ Len(text) = 2 * Len(bytes)
      BY <3>1 DEF hex_encode
    <3>3. \A i \in 1..(2 * Len(bytes)) : text[i] \in Byte
      <4>1. CanonicalHex(text)
        BY HexEncodeIsStrict
      <4> HIDE DEF text
      <4>2. \A i \in 1..(2 * Len(bytes)) : text[i] \in HexDigit
        BY <3>2, <4>1 DEF CanonicalHex
      <4>3. \A ch \in HexDigit : ch \in Byte
        BY DEF HexDigit, Digit, Byte
      <4> QED BY ONLY <4>2, <4>3
    <3> HIDE DEF text
    <3> QED BY ONLY <3>1, <3>2, <3>3, TextOf
  <2>3. CanonicalHex(text) /\ DenotesHex(text, bytes)
    BY HexEncodeIsStrict
  <2> HIDE DEF text
  <2>4. r.ok /\ r.bytes \in Seq(Byte) /\ Len(text) = 2 * Len(r.bytes) /\ DenotesHex(text, r.bytes)
    BY <2>2, <2>3, HexDecodeIsStrict
  <2> HIDE DEF r
  <2>5. Len(r.bytes) = Len(bytes) /\ Bits(r.bytes, 8) = Bits(bytes, 8)
    <3>1. Len(r.bytes) \in Nat
      BY <2>4
    <3>2. Len(r.bytes) = Len(bytes)
      BY ONLY <2>1, <2>2, <2>4, <3>1
    <3> QED BY <2>3, <2>4, <3>2 DEF DenotesHex
  <2>6. r.bytes = bytes
    BY <2>4, <2>5, BytesFromBits
  <2> QED BY <2>4, <2>6 DEF r, text
<1> QED BY <1>1, <1>2, UrlRoundTrip
=============================================================================

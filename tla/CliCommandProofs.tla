-------------------------- MODULE CliCommandProofs --------------------------
(***************************************************************************)
(* Proofs about CliCommand, for any values, files, texts and keys, and any *)
(* number of options.                                                      *)
(***************************************************************************)
EXTENDS CliCommand, CodecsProofs

-----------------------------------------------------------------------------
(* The inductive invariant. *)

Option == {"--in", "--out", "--text", "--key-hex", "--key-file", "--password-file",
           "--wrapping-key-hex", "--wrapping-key-file", "--packet-hex", "--packet-file",
           "--aad-text", "--aad-hex"}
Pairs == [option : Option \cup {"--other"}, value : Value]

\* The options set are those of the pairs looked at, with what was made of their values.
Settled ==
    /\ Compatible(command)
    /\ \A g : g \in DOMAIN options <=>
          \E i \in 1..Len(argv) : g \in GroupOf(command, argv[i].option)
    /\ \A i \in 1..Len(argv) : \A g \in GroupOf(command, argv[i].option) :
          options[g] = Convert(command, argv[i].option, argv[i].value).bytes

\* What makes a parser refuse.
Refusable ==
    \/ argc % 2 # 0 \/ (argc - 2) \div 2 < Cardinality(Required(command))
    \/ ~Compatible(command)
    \/ Len(argv) = (argc - 2) \div 2 /\ ~Complete(command)

\* A command that has a parser.
ParsedInv ==
    /\ pc \in {"options", "run", "done"} /\ argv \in Seq(Pairs) /\ argc \in Nat /\ argc >= 2
    /\ pc # "done" => exit = -1 /\ why = "none" /\ Settled
    /\ pc = "options" => argc % 2 = 0
    /\ pc = "run" \/ exit = 0 =>
          2 * Len(argv) = argc - 2 /\ Settled /\ Required(command) \subseteq DOMAIN options
    /\ exit = 0 => result = IF command \in FileCommands THEN FileRoute ELSE PacketRoute
    /\ why = "refused" => Refusable

LineInv ==
    /\ pc = "idle" => command = "none" /\ argv = << >> /\ options = << >> /\ exit = -1 /\ why = "none"
    /\ pc \in {"options", "run"} => command \in Parsed
    /\ pc = "random" => command = "token"
    /\ command \in Parsed => ParsedInv

-----------------------------------------------------------------------------
(* The options of the commands. *)

GroupName == {"input", "output", "key", "aad", "wrapping"}

\* What the groups of each command hold.
LEMMA GroupsAre ==
    ASSUME NEW c \in Parsed
    PROVE  /\ c = "seal-file" \/ c = "open-file" => Groups(c) = FileGroups
           /\ c = "verify-file" => Groups(c) = VerifyGroups
           /\ c = "seal-file-password" \/ c = "open-file-password" => Groups(c) = WithPassword(FileGroups)
           /\ c = "verify-file-password" => Groups(c) = WithPassword(VerifyGroups)
           /\ c = "encrypt" => Groups(c) = PacketGroups({"--text", "--in"})
           /\ c = "decrypt" => Groups(c) = PacketGroups(PacketOptions)
           /\ c = "wrap-key" => Groups(c) = [key |-> KeyOptions, wrapping |-> WrappingOptions, output |-> {"--out"}]
           /\ c = "unwrap-key" => Groups(c) = [input |-> PacketOptions, wrapping |-> WrappingOptions, output |-> {"--out"}]
<1>1. CASE c = "seal-file" BY <1>1 DEF Groups
<1>2. CASE c = "open-file" BY <1>2 DEF Groups
<1>3. CASE c = "verify-file" BY <1>3 DEF Groups
<1>4. CASE c = "seal-file-password" BY <1>4 DEF Groups
<1>5. CASE c = "open-file-password" BY <1>5 DEF Groups
<1>6. CASE c = "verify-file-password" BY <1>6 DEF Groups
<1>7. CASE c = "encrypt" BY <1>7 DEF Groups
<1>8. CASE c = "decrypt" BY <1>8 DEF Groups
<1>9. CASE c = "wrap-key" BY <1>9 DEF Groups
<1>10. CASE c = "unwrap-key" BY <1>10 DEF Groups
<1> QED BY <1>1, <1>2, <1>3, <1>4, <1>5, <1>6, <1>7, <1>8, <1>9, <1>10 DEF Parsed, FileCommands, Verifying

\* The groups a command has, what they hold, and which it requires.
LEMMA GroupsOfFileCommands ==
    ASSUME NEW c \in FileCommands
    PROVE  /\ DOMAIN Groups(c) = {"input", "key", "aad"} \cup (IF c \in Verifying THEN {} ELSE {"output"})
           /\ Groups(c)["input"] = {"--in"} /\ Groups(c)["aad"] = AadOptions
           /\ Groups(c)["key"] = KeyOptions \/ Groups(c)["key"] = {"--password-file"}
           /\ c \notin Verifying => Groups(c)["output"] = {"--out"}
           /\ Required(c) = {"input", "key"} \cup (IF c \in Verifying THEN {} ELSE {"output"})
<1> c \in Parsed
  BY DEF Parsed
<1>1. CASE c = "seal-file" \/ c = "open-file"
  <2> Groups(c) = FileGroups /\ c \notin Verifying
    BY <1>1, GroupsAre DEF Verifying
  <2> QED BY DEF FileGroups, Required
<1>2. CASE c = "verify-file"
  <2> Groups(c) = VerifyGroups /\ c \in Verifying
    BY <1>2, GroupsAre DEF Verifying
  <2> QED BY DEF VerifyGroups, Required
<1>3. CASE c = "seal-file-password" \/ c = "open-file-password"
  <2> Groups(c) = WithPassword(FileGroups) /\ c \notin Verifying
    BY <1>3, GroupsAre DEF Verifying
  <2> QED BY DEF FileGroups, WithPassword, Required
<1>4. CASE c = "verify-file-password"
  <2> Groups(c) = WithPassword(VerifyGroups) /\ c \in Verifying
    BY <1>4, GroupsAre DEF Verifying
  <2> QED BY DEF VerifyGroups, WithPassword, Required
<1> QED BY <1>1, <1>2, <1>3, <1>4 DEF FileCommands, Verifying

\* The same for the commands on packets and keys, whose output and AAD are optional.
LEMMA GroupsOfOthers ==
    ASSUME NEW c \in Parsed, c \notin FileCommands
    PROVE  /\ DOMAIN Groups(c) \subseteq GroupName
           /\ "output" \in DOMAIN Groups(c) /\ Groups(c)["output"] = {"--out"}
           /\ "input" \in DOMAIN Groups(c) => 
                 Groups(c)["input"] = {"--text", "--in"} \/ Groups(c)["input"] = PacketOptions
           /\ "aad" \in DOMAIN Groups(c) => Groups(c)["aad"] = AadOptions
           /\ "key" \in DOMAIN Groups(c) => Groups(c)["key"] = KeyOptions
           /\ "wrapping" \in DOMAIN Groups(c) => Groups(c)["wrapping"] = WrappingOptions
           /\ \/ Required(c) = {"input", "key"} \/ Required(c) = {"key", "wrapping"}
              \/ Required(c) = {"input", "wrapping"}
<1>1. CASE c = "encrypt"
  <2> Groups(c) = PacketGroups({"--text", "--in"})
    BY <1>1, GroupsAre
  <2> QED BY DEF PacketGroups, Required, GroupName
<1>2. CASE c = "decrypt"
  <2> Groups(c) = PacketGroups(PacketOptions)
    BY <1>2, GroupsAre
  <2> QED BY DEF PacketGroups, Required, GroupName
<1>3. CASE c = "wrap-key"
  <2> Groups(c) = [key |-> KeyOptions, wrapping |-> WrappingOptions, output |-> {"--out"}]
    BY <1>3, GroupsAre
  <2> QED BY DEF Required, GroupName
<1>4. CASE c = "unwrap-key"
  <2> Groups(c) = [input |-> PacketOptions, wrapping |-> WrappingOptions, output |-> {"--out"}]
    BY <1>4, GroupsAre
  <2> QED BY DEF Required, GroupName
<1> QED BY <1>1, <1>2, <1>3, <1>4 DEF Parsed

\* An option is of one group at most, and is one of those known.
LEMMA OneGroup ==
    ASSUME NEW c \in Parsed
    PROVE  /\ \A g \in DOMAIN Groups(c) : Groups(c)[g] \subseteq Option
           /\ \A g, h \in DOMAIN Groups(c) : g # h => Groups(c)[g] \cap Groups(c)[h] = {}
<1>1. CASE c \in FileCommands
  <2> DEFINE K == Groups(c)["key"]
  <2>1. DOMAIN Groups(c) \subseteq {"input", "key", "aad", "output"}
    BY <1>1, GroupsOfFileCommands
  <2>2. /\ Groups(c)["input"] = {"--in"} /\ Groups(c)["aad"] = AadOptions
        /\ K = KeyOptions \/ K = {"--password-file"}
    BY <1>1, GroupsOfFileCommands
  <2> "output" \in DOMAIN Groups(c) => Groups(c)["output"] = {"--out"}
    <3>1. c \in Verifying => DOMAIN Groups(c) = {"input", "key", "aad"} \cup {}
      BY <1>1, GroupsOfFileCommands
    <3>2. c \in Verifying => "output" \notin DOMAIN Groups(c)
      BY ONLY <3>1
    <3>3. c \notin Verifying => Groups(c)["output"] = {"--out"}
      BY <1>1, GroupsOfFileCommands
    <3> QED BY <3>2, <3>3
  <2>3. \A g \in DOMAIN Groups(c) : Groups(c)[g] \subseteq Option
    BY <2>1, <2>2 DEF Option, KeyOptions, AadOptions
  <2>4. \A g, h \in DOMAIN Groups(c) : g # h => Groups(c)[g] \cap Groups(c)[h] = {}
    BY <2>1, <2>2 DEF KeyOptions, AadOptions
  <2> QED BY <2>3, <2>4
<1>2. CASE c \notin FileCommands
  BY <1>2, GroupsOfOthers, SMTT(30)
  DEF Option, KeyOptions, AadOptions, WrappingOptions, PacketOptions, GroupName
<1> QED BY <1>1, <1>2

\* So many pairs are needed at least.
LEMMA PairsNeeded ==
    ASSUME NEW c \in Parsed
    PROVE  /\ Required(c) \subseteq DOMAIN Groups(c)
           /\ Cardinality(Required(c)) \in Nat
           /\ MinArgc(c) = 2 + (2 * Cardinality(Required(c)))
<1>0. Required(c) \subseteq DOMAIN Groups(c)
  BY DEF Required
<1>1. \A a, b : a # b => Cardinality({a, b}) = 2
  <2> SUFFICES ASSUME NEW a, NEW b, a # b PROVE Cardinality({a, b}) = 2
    OBVIOUS
  <2>1. Cardinality({a}) = 1 /\ IsFiniteSet({a})
    BY FS_Singleton
  <2>2. {a} \cup {b} = {a, b} /\ b \notin {a}
    OBVIOUS
  <2>3. Cardinality({a} \cup {b}) = 1 + 1
    BY ONLY <2>1, <2>2, FS_AddElement
  <2> QED BY <2>2, <2>3
<1>2. Cardinality({"input", "key"} \cup {"output"}) = 3
  <2>1. IsFiniteSet({"input", "key"})
    <3>1. IsFiniteSet({"input"})
      BY FS_Singleton
    <3>2. {"input"} \cup {"key"} = {"input", "key"}
      OBVIOUS
    <3> QED BY <3>1, <3>2, FS_AddElement
  <2>2. "output" \notin {"input", "key"} /\ "input" # "key"
    OBVIOUS
  <2>3. Cardinality({"input", "key"}) = 2
    BY <1>1, <2>2
  <2> QED BY ONLY <2>1, <2>2, <2>3, FS_AddElement
<1>3. CASE c \in FileCommands
  <2>1. Required(c) = {"input", "key"} \cup (IF c \in Verifying THEN {} ELSE {"output"})
    BY <1>3, GroupsOfFileCommands
  <2>2. c \in Verifying => Required(c) = {"input", "key"}
    BY <2>1
  <2>3. c \notin Verifying => Required(c) = {"input", "key"} \cup {"output"}
    BY <2>1
  <2>4. "input" # "key"
    OBVIOUS
  <2>5. c \in Verifying => Cardinality(Required(c)) = 2
    BY <1>1, <2>2, <2>4
  <2>6. c \notin Verifying => Cardinality(Required(c)) = 3
    BY <1>2, <2>3
  <2> QED BY <1>0, <1>3, <2>5, <2>6 DEF MinArgc
<1>4. CASE c \notin FileCommands
  <2>1. "input" # "key" /\ "key" # "wrapping" /\ "input" # "wrapping"
    OBVIOUS
  <2>2. Cardinality(Required(c)) = 2
    <3>1. \/ Required(c) = {"input", "key"} \/ Required(c) = {"key", "wrapping"}
          \/ Required(c) = {"input", "wrapping"}
      BY <1>4, GroupsOfOthers
    <3> QED BY <1>1, <2>1, <3>1
  <2> QED BY <1>0, <1>4, <2>2 DEF MinArgc
<1> QED BY <1>3, <1>4

-----------------------------------------------------------------------------
(* Reading the values. *)

IsKey(t) == Len(t) = 2 * kKeySize /\ CanonicalHex(t)

\* hex_decode accepts the canonical texts, and no other.
LEMMA HexAccepts ==
    ASSUME NEW t \in Seq(Character)
    PROVE  hex_decode(t).ok <=> CanonicalHex(t)
BY HexDecodeIsStrict DEF Character, Byte

\* key_from_hex accepts the canonical texts of twice the length of a key.
LEMMA KeyAccepts ==
    ASSUME NEW t \in Seq(Character)
    PROVE  key_from_hex(t).ok <=> IsKey(t)
<1>1. kKeySize \in Nat
  BY ValueAssumption
<1>2. CASE IsKey(t)
  <2> key_from_hex(t) = hex_decode(t)
    BY <1>2 DEF key_from_hex, IsKey, CanonicalHex
  <2> QED BY <1>2, HexAccepts DEF IsKey
<1>3. CASE ~IsKey(t)
  <2> key_from_hex(t) = Refused
    BY <1>1, <1>3 DEF key_from_hex, IsKey, CanonicalHex
  <2> QED BY <1>3 DEF Refused
<1> QED BY <1>2, <1>3

\* A key stands at i..j, and white space everywhere else.
Framed(t, i, j) ==
    IsKey(SubSeq(t, i, j)) /\ \A k \in (1..Len(t)) \ (i..j) : t[k] \in AsciiSpace

\* trim_ascii_whitespace leaves a key if and only if one is there between white space.
LEMMA TrimAccepts ==
    ASSUME NEW t \in Seq(Character)
    PROVE  /\ trim_ascii_whitespace(t) \in Seq(Character)
           /\ IsKey(trim_ascii_whitespace(t)) <=>
                 \E i \in 1..Len(t), j \in 0..Len(t) : Framed(t, i, j)
<1> DEFINE solid == {i \in 1..Len(t) : t[i] \notin AsciiSpace}
           trim == trim_ascii_whitespace(t)
<1>0. Len(t) \in Nat /\ solid \subseteq 1..Len(t) /\ kKeySize \in Nat \ {0}
  BY ValueAssumption
<1>1. /\ solid = {} => trim = << >>
      /\ solid # {} => trim = SubSeq(t, Min(solid), Max(solid))
  BY DEF trim_ascii_whitespace
<1>2. solid # {} => /\ Min(solid) \in solid /\ Max(solid) \in solid
                    /\ \A y \in solid : Min(solid) <= y /\ y <= Max(solid)
  <2>1. solid \subseteq 0..Len(t)
    BY <1>0
  <2> HIDE DEF solid
  <2> QED BY ONLY <1>0, <2>1, MinMax
<1>3. trim \in Seq(Character)
  <2> HIDE DEF solid, trim
  <2>1. CASE solid = {}
    BY <1>1, <2>1
  <2>2. CASE solid # {}
    <3>1. Min(solid) \in 1..Len(t) /\ Max(solid) \in 1..Len(t)
      BY <1>0, <1>2, <2>2
    <3>2. \A k \in Min(solid)..Max(solid) : t[k] \in Character
      BY <1>0, <3>1
    <3>3. Min(solid) \in Int /\ Max(solid) \in Int
      BY <1>0, <3>1
    <3>4. SubSeq(t, Min(solid), Max(solid)) \in Seq(Character)
      BY ONLY <3>2, <3>3, SubSeqProperties
    <3> QED BY <1>1, <2>2, <3>4
  <2> QED BY <2>1, <2>2
<1>4. IsKey(trim) => \E i \in 1..Len(t), j \in 0..Len(t) : Framed(t, i, j)
  <2> HAVE IsKey(trim)
  <2>1. solid # {}
    BY <1>0, <1>1 DEF IsKey
  <2>2. Min(solid) \in 1..Len(t) /\ Max(solid) \in 0..Len(t)
    BY <1>0, <1>2, <2>1
  <2>3. \A k \in (1..Len(t)) \ (Min(solid)..Max(solid)) : t[k] \in AsciiSpace
    <3> TAKE k \in (1..Len(t)) \ (Min(solid)..Max(solid))
    <3>1. k \notin solid
      BY <1>2, <2>1, <2>2
    <3> QED BY <3>1
  <2>4. Framed(t, Min(solid), Max(solid))
    BY <1>1, <2>1, <2>3 DEF Framed
  <2> QED BY <2>2, <2>4
<1>5. ASSUME NEW i \in 1..Len(t), NEW j \in 0..Len(t), Framed(t, i, j)
      PROVE  IsKey(trim)
  <2> DEFINE sub == SubSeq(t, i, j)
  <2>1. IsKey(sub) /\ \A k \in (1..Len(t)) \ (i..j) : t[k] \in AsciiSpace
    BY <1>5 DEF Framed
  <2>2. i <= j
    <3> SUFFICES ASSUME j < i PROVE FALSE
      BY <1>0
    <3>1. sub = << >>
      BY <1>0, SubSeqProperties
    <3> QED BY <1>0, <2>1, <3>1 DEF IsKey
  <2>3. Len(sub) = j - i + 1 /\ \A k \in 1..(j - i + 1) : sub[k] = t[i + k - 1]
    BY <1>0, <2>2, SubSeqProperties
  <2>4. sub[1] = t[i] /\ sub[j - i + 1] = t[j]
    BY <1>0, <2>2, <2>3
  <2>5. \A c : c \in HexDigit => c \notin AsciiSpace
    BY DEF HexDigit, Digit, AsciiSpace
  <2>6. \A k \in 1..Len(sub) : sub[k] \in HexDigit
    BY <2>1 DEF IsKey, CanonicalHex
  <2>7. i \in solid /\ j \in solid
    <3>1. 1 \in 1..Len(sub) /\ (j - i + 1) \in 1..Len(sub)
      BY <1>0, <2>2, <2>3
    <3>2. t[i] \notin AsciiSpace /\ t[j] \notin AsciiSpace
      BY <2>4, <2>5, <2>6, <3>1
    <3> QED BY <1>0, <2>2, <3>2
  <2>8. solid \subseteq i..j
    BY <1>0, <2>1
  <2>9. Min(solid) = i /\ Max(solid) = j
    <3> HIDE DEF solid
    <3>0. solid # {} /\ solid \subseteq Int
      BY <1>0, <2>7
    <3>1. Min(solid) \in Int /\ Max(solid) \in Int
      BY <1>2, <3>0
    <3>2. Min(solid) <= i /\ j <= Max(solid)
      BY <1>2, <2>7
    <3>3. Min(solid) \in i..j /\ Max(solid) \in i..j
      BY <1>2, <2>7, <2>8
    <3> QED BY <1>0, <3>1, <3>2, <3>3
  <2> QED BY <1>1, <2>1, <2>7, <2>9
<1> QED BY <1>3, <1>4, <1>5

\* An option's value is accepted if and only if it is good; a path is taken as it is.
LEMMA ConvertAccepts ==
    ASSUME NEW c \in Parsed, NEW o \in Option, NEW v \in Value
    PROVE  /\ Convert(c, o, v).ok <=> Good(c, o, v)
           /\ o = "--out" \/ (o = "--in" /\ c # "encrypt") => Convert(c, o, v).bytes = v
<1> DEFINE content == IF v \in DOMAIN File THEN File[v] ELSE << >>
<1>1. v \in Seq(Character) /\ (v \in DOMAIN File => File[v] \in Seq(Character))
  BY ValueAssumption
<1>2. /\ read_file(v).ok <=> v \in DOMAIN File
      /\ read_file(v).bytes = content
  BY DEF read_file, Ok, Refused
<1>3. CASE o \in {"--key-hex", "--wrapping-key-hex"}
  <2>1. Convert(c, o, v) = key_from_hex(v)
    BY <1>3 DEF Convert
  <2>2. Good(c, o, v) <=> IsKey(v)
    BY <1>3 DEF Good, IsKey, ReadsFile
  <2> QED BY <1>1, <1>3, <2>1, <2>2, KeyAccepts
<1>4. CASE o \in {"--key-file", "--wrapping-key-file"}
  <2>1. Convert(c, o, v) = key_from_file(v)
    BY <1>4 DEF Convert
  <2>2. Good(c, o, v) <=> /\ \E i \in 1..Len(content), j \in 0..Len(content) : Framed(content, i, j)
                          /\ v \in DOMAIN File
    BY <1>4 DEF Good, IsKey, Framed, ReadsFile
  <2>3. CASE v \in DOMAIN File
    <3>1. content \in Seq(Character)
      BY <1>1, <2>3
    <3>2. key_from_file(v) = key_from_hex(trim_ascii_whitespace(content))
      BY <1>2, <2>3 DEF key_from_file
    <3> QED BY <1>4, <2>1, <2>2, <2>3, <3>1, <3>2, TrimAccepts, KeyAccepts
  <2>4. CASE v \notin DOMAIN File
    BY <1>2, <1>4, <2>1, <2>2, <2>4 DEF key_from_file, Refused
  <2> QED BY <2>3, <2>4
<1>5. CASE o = "--password-file"
  <2>1. Convert(c, o, v) = password_from_file(v)
    BY <1>5 DEF Convert
  <2>2. Good(c, o, v) <=> content # << >> /\ v \in DOMAIN File
    BY <1>5 DEF Good, ReadsFile
  <2> QED BY <1>2, <1>5, <2>1, <2>2 DEF password_from_file, Refused
<1>6. CASE o \in {"--aad-hex", "--packet-hex"}
  <2>1. Convert(c, o, v) = hex_decode(v)
    BY <1>6 DEF Convert
  <2>2. Good(c, o, v) <=> CanonicalHex(v)
    BY <1>6 DEF Good, ReadsFile
  <2> QED BY <1>1, <1>6, <2>1, <2>2, HexAccepts
<1>7. CASE o = "--packet-file" \/ (o = "--in" /\ c = "encrypt")
  <2>1. Convert(c, o, v) = read_file(v)
    BY <1>7 DEF Convert, ReadsFile
  <2>2. Good(c, o, v) <=> v \in DOMAIN File
    BY <1>7 DEF Good, ReadsFile
  <2> QED BY <1>2, <1>7, <2>1, <2>2
<1>8. CASE o \in {"--out", "--text", "--aad-text"} \/ (o = "--in" /\ c # "encrypt")
  <2>1. Convert(c, o, v) = Ok(v)
    BY <1>8 DEF Convert, ReadsFile
  <2>2. Good(c, o, v)
    BY <1>8 DEF Good, ReadsFile
  <2> QED BY <2>1, <2>2 DEF Ok
<1> QED BY <1>3, <1>4, <1>5, <1>6, <1>7, <1>8 DEF Option

-----------------------------------------------------------------------------
(* Looking at pairs. *)

\* While the options agree with the pairs, what was given for a group is one value, that of
\* the pair that set it.
LEMMA GivenOnce ==
    ASSUME command \in Parsed, argv \in Seq(Pairs), Settled, NEW g \in DOMAIN Groups(command)
    PROVE  /\ g \notin DOMAIN options => Given(Groups(command)[g]) = {}
           /\ g \in DOMAIN options =>
                 \E i \in 1..Len(argv) :
                    /\ argv[i].option \in Groups(command)[g]
                    /\ Given(Groups(command)[g]) = {argv[i].value}
                    /\ options[g] = Convert(command, argv[i].option, argv[i].value).bytes
<1> DEFINE os == Groups(command)[g]
<1>1. \A o : o \in os <=> g \in GroupOf(command, o)
  BY DEF GroupOf
<1>2. g \in DOMAIN options <=> \E i \in 1..Len(argv) : argv[i].option \in os
  BY <1>1 DEF Settled
<1>3. \A i, j \in 1..Len(argv) : argv[i].option \in os /\ argv[j].option \in os => i = j
  BY <1>1 DEF Settled, Compatible
<1>4. \A w : w \in Given(os) <=> \E i \in 1..Len(argv) : argv[i].option \in os /\ w = argv[i].value
  BY DEF Given
<1> HIDE DEF os
<1>5. CASE g \notin DOMAIN options
  <2> Given(os) = {}
    BY <1>2, <1>4, <1>5
  <2> QED BY <1>5 DEF os
<1>6. CASE g \in DOMAIN options
  <2>1. PICK i \in 1..Len(argv) : argv[i].option \in os
    BY <1>2, <1>6
  <2>2. Given(os) = {argv[i].value}
    BY <1>3, <1>4, <2>1
  <2>3. options[g] = Convert(command, argv[i].option, argv[i].value).bytes
    BY <1>1, <2>1 DEF Settled
  <2> QED BY <1>6, <2>1, <2>2, <2>3 DEF os
<1> QED BY <1>5, <1>6

\* A group with one option for a path has that path as its value.
LEMMA PathGiven ==
    ASSUME command \in Parsed, argv \in Seq(Pairs), Settled,
           NEW g \in DOMAIN Groups(command), NEW o, Groups(command)[g] = {o},
           o = "--out" \/ (o = "--in" /\ command # "encrypt")
    PROVE  Given({o}) = IF g \in DOMAIN options THEN {options[g]} ELSE {}
<1>1. CASE g \in DOMAIN options
  <2>1. PICK i \in 1..Len(argv) :
           /\ argv[i].option \in {o} /\ Given({o}) = {argv[i].value}
           /\ options[g] = Convert(command, argv[i].option, argv[i].value).bytes
    BY <1>1, GivenOnce
  <2>2. argv[i].option = o /\ argv[i].value \in Value /\ o \in Option
    <3>1. argv[i] \in Pairs
      OBVIOUS
    <3> QED BY <2>1, <3>1 DEF Pairs, Option
  <2>3. options[g] = argv[i].value
    BY <2>1, <2>2, ConvertAccepts
  <2> QED BY <1>1, <2>1, <2>3
<1>2. CASE g \notin DOMAIN options
  BY <1>2, GivenOnce
<1> QED BY <1>1, <1>2

\* The has_ flags tell whether every required group was given.
LEMMA CompleteWhenRequired ==
    ASSUME command \in Parsed, argv \in Seq(Pairs), Settled
    PROVE  Complete(command) <=> Required(command) \subseteq DOMAIN options
<1>1. \A g \in DOMAIN Groups(command) :
         g \in DOMAIN options <=> Given(Groups(command)[g]) # {}
  BY GivenOnce
<1> QED BY <1>1, PairsNeeded DEF Complete

\* The options tried are those of the command, and what they lead to.
LEMMA TriedOption ==
    ASSUME NEW c \in Parsed, NEW o \in Tried(c)
    PROVE  /\ o \in Option \cup {"--other"}
           /\ \A g \in GroupOf(c, o) : o \in Option /\ GroupOf(c, o) = {g}
<1>1. \A g \in GroupOf(c, o) : g \in DOMAIN Groups(c) /\ o \in Groups(c)[g]
  BY DEF GroupOf
<1>2. \A g \in GroupOf(c, o) : o \in Option
  BY <1>1, OneGroup
<1>3. \A g, h \in GroupOf(c, o) : g = h
  BY <1>1, OneGroup
<1>4. o \in Option \cup {"--other"}
  <2>1. "--out" \in Option
    BY DEF Option
  <2>2. (\E g \in DOMAIN Groups(c) : o \in Groups(c)[g]) \/ o \in {"--out", "--other"}
    BY DEF Tried
  <2> QED BY <2>1, <2>2, OneGroup
<1> QED BY <1>2, <1>3, <1>4

\* One more pair.
LEMMA OneMore ==
    ASSUME argv \in Seq(Pairs), NEW o \in Option \cup {"--other"}, NEW v \in Value,
           argv' = Append(argv, Pair(o, v))
    PROVE  /\ argv' \in Seq(Pairs) /\ Len(argv) \in Nat /\ Len(argv') = Len(argv) + 1
           /\ \A i \in 1..Len(argv) : i \in 1..Len(argv') /\ i # Len(argv') /\ argv'[i] = argv[i]
           /\ Len(argv') \in 1..Len(argv')
           /\ argv'[Len(argv')].option = o /\ argv'[Len(argv')].value = v
           /\ \A i \in 1..Len(argv') : i \in 1..Len(argv) \/ i = Len(argv')
<1>1. Pair(o, v) \in Pairs /\ Pair(o, v).option = o /\ Pair(o, v).value = v
  BY DEF Pair, Pairs
<1>2. /\ argv' \in Seq(Pairs) /\ Len(argv') = Len(argv) + 1
      /\ \A i \in 1..Len(argv) : argv'[i] = argv[i]
      /\ argv'[Len(argv) + 1] = Pair(o, v)
  BY <1>1, AppendProperties
<1>3. Len(argv) \in Nat
  OBVIOUS
<1> QED BY <1>1, <1>2, <1>3

\* A good value for a group that has none keeps the options settled.
LEMMA SettledGrows ==
    ASSUME command \in Parsed, argv \in Seq(Pairs), Settled, command' = command,
           NEW o \in Tried(command), NEW v \in Value, argv' = Append(argv, Pair(o, v)),
           NEW g \in GroupOf(command, o), g \notin DOMAIN options,
           Convert(command, o, v).ok, SetOption(g, Convert(command, o, v).bytes)
    PROVE  Settled'
<1> DEFINE n == Len(argv')
<1>1. o \in Option /\ GroupOf(command, o) = {g}
  BY TriedOption
<1>2. /\ Len(argv) \in Nat /\ n = Len(argv) + 1 /\ n \in 1..n
      /\ \A i \in 1..Len(argv) : i \in 1..n /\ i # n /\ argv'[i] = argv[i]
      /\ argv'[n].option = o /\ argv'[n].value = v
      /\ \A i \in 1..n : i \in 1..Len(argv) \/ i = n
  BY <1>1, OneMore
<1>3. Good(command, o, v)
  BY <1>1, ConvertAccepts
<1> HIDE DEF n
<1>4. \A h : h \in DOMAIN options <=> \E i \in 1..Len(argv) : h \in GroupOf(command, argv[i].option)
  BY DEF Settled
<1>5. \A i \in 1..Len(argv) : GroupOf(command, argv[i].option) \cap {g} = {}
  BY <1>4
<1>6. Compatible(command)'
  <2>1. \A i \in 1..n : GroupOf(command, argv'[i].option) # {}
                         /\ Good(command, argv'[i].option, argv'[i].value)
    BY <1>1, <1>2, <1>3 DEF Settled, Compatible
  <2>2. ASSUME NEW i \in 1..n, NEW j \in 1..n, i # j
        PROVE  GroupOf(command, argv'[i].option) \cap GroupOf(command, argv'[j].option) = {}
    <3>1. CASE i = n
      <4>1. j \in 1..Len(argv) /\ argv'[j] = argv[j]
        BY <1>2, <2>2, <3>1
      <4> QED BY <1>1, <1>2, <1>5, <3>1, <4>1
    <3>2. CASE j = n
      <4>1. i \in 1..Len(argv) /\ argv'[i] = argv[i]
        BY <1>2, <2>2, <3>2
      <4> QED BY <1>1, <1>2, <1>5, <3>2, <4>1
    <3>3. CASE i # n /\ j # n
      <4>1. i \in 1..Len(argv) /\ argv'[i] = argv[i] /\ j \in 1..Len(argv) /\ argv'[j] = argv[j]
        BY <1>2, <3>3
      <4> QED BY <2>2, <4>1 DEF Settled, Compatible
    <3> QED BY <3>1, <3>2, <3>3
  <2> QED BY <2>1, <2>2 DEF Compatible, n
<1>7. /\ DOMAIN options' = DOMAIN options \cup {g}
      /\ options'[g] = Convert(command, o, v).bytes
      /\ \A h \in DOMAIN options : options'[h] = options[h]
  BY DEF SetOption
<1>8. \A h : h \in DOMAIN options' <=> \E i \in 1..n : h \in GroupOf(command, argv'[i].option)
  <2> TAKE h
  <2>1. h = g => \E i \in 1..n : h \in GroupOf(command, argv'[i].option)
    BY <1>1, <1>2
  <2>2. h \in DOMAIN options => \E i \in 1..n : h \in GroupOf(command, argv'[i].option)
    BY <1>2, <1>4
  <2>3. ASSUME NEW i \in 1..n, h \in GroupOf(command, argv'[i].option)
        PROVE  h \in DOMAIN options \/ h = g
    <3>1. CASE i = n
      BY <1>1, <1>2, <2>3, <3>1
    <3>2. CASE i \in 1..Len(argv)
      BY <1>2, <1>4, <2>3, <3>2
    <3> QED BY <1>2, <3>1, <3>2
  <2> QED BY <1>7, <2>1, <2>2, <2>3
<1>9. ASSUME NEW i \in 1..n, NEW h \in GroupOf(command, argv'[i].option)
      PROVE  options'[h] = Convert(command, argv'[i].option, argv'[i].value).bytes
  <2>1. CASE i = n
    BY <1>1, <1>2, <1>7, <1>9, <2>1
  <2>2. CASE i \in 1..Len(argv)
    <3>1. argv'[i] = argv[i] /\ h \in DOMAIN options
      BY <1>2, <1>4, <1>9, <2>2
    <3>2. options[h] = Convert(command, argv[i].option, argv[i].value).bytes
      BY <1>9, <2>2, <3>1 DEF Settled
    <3> QED BY <1>7, <3>1, <3>2
  <2> QED BY <1>2, <2>1, <2>2
<1> QED BY <1>6, <1>8, <1>9 DEF Settled, n

\* An unknown option, one for a group that has its value, and a bad value do not fit.
LEMMA BadPair ==
    ASSUME command \in Parsed, argv \in Seq(Pairs), Settled, command' = command,
           NEW o \in Tried(command), NEW v \in Value, argv' = Append(argv, Pair(o, v)),
           \/ GroupOf(command, o) = {}
           \/ \E g \in GroupOf(command, o) : g \in DOMAIN options \/ ~Convert(command, o, v).ok
    PROVE  ~Compatible(command)'
<1> DEFINE n == Len(argv')
<1>1. /\ n \in 1..n /\ argv'[n].option = o /\ argv'[n].value = v
      /\ \A i \in 1..Len(argv) : i \in 1..n /\ i # n /\ argv'[i] = argv[i]
  BY TriedOption, OneMore
<1> HIDE DEF n
<1> SUFFICES ASSUME Compatible(command)' PROVE FALSE
  OBVIOUS
<1>2. /\ \A i \in 1..n : GroupOf(command, argv'[i].option) # {}
                         /\ Good(command, argv'[i].option, argv'[i].value)
      /\ \A i, j \in 1..n : i # j =>
            GroupOf(command, argv'[i].option) \cap GroupOf(command, argv'[j].option) = {}
  BY DEF Compatible, n
<1>3. CASE GroupOf(command, o) = {}
  BY <1>1, <1>2, <1>3
<1>4. ASSUME NEW g \in GroupOf(command, o), g \in DOMAIN options
      PROVE  FALSE
  <2>1. PICK i \in 1..Len(argv) : g \in GroupOf(command, argv[i].option)
    BY <1>4 DEF Settled
  <2>2. i \in 1..n /\ i # n /\ argv'[i] = argv[i]
    BY <1>1
  <2> QED BY <1>1, <1>2, <1>4, <2>1, <2>2
<1>5. ASSUME NEW g \in GroupOf(command, o), ~Convert(command, o, v).ok
      PROVE  FALSE
  <2>1. o \in Option
    BY TriedOption
  <2>2. ~Good(command, o, v)
    BY <1>5, <2>1, ConvertAccepts
  <2> QED BY <1>1, <1>2, <2>2
<1> QED BY <1>3, <1>4, <1>5

-----------------------------------------------------------------------------
(* The invariant is inductive. *)

\* A parser begins with nothing looked at and nothing set.
LEMMA BeginOptionsPreserves ==
    ASSUME LineInv, pc = "idle", NEW c \in Parsed, NEW n \in Nat, n >= 2, BeginOptions(c, n)
    PROVE  LineInv'
<1>1. /\ command' = c /\ argc' = n /\ argv' = << >> /\ options' = << >>
      /\ exit = -1 /\ why = "none"
  BY DEF LineInv, BeginOptions
<1>2. argv' \in Seq(Pairs) /\ Len(argv') = 0 /\ DOMAIN options' = {}
  BY <1>1
<1>3. Settled'
  BY <1>2 DEF Settled, Compatible
<1>4. CASE n < MinArgc(c) \/ (n - 2) % 2 # 0
  <2>1. pc' = "done" /\ exit' = 1 /\ why' = "refused"
    BY <1>4 DEF BeginOptions, Fail
  <2>2. argc' % 2 # 0 \/ (argc' - 2) \div 2 < Cardinality(Required(command'))
    BY <1>1, <1>4, PairsNeeded
  <2>3. Refusable'
    BY <2>2 DEF Refusable
  <2> QED BY <1>1, <1>2, <2>1, <2>3 DEF LineInv, ParsedInv
<1>5. CASE ~(n < MinArgc(c) \/ (n - 2) % 2 # 0)
  <2>1. pc' = "options" /\ exit' = -1 /\ why' = "none" /\ argc' % 2 = 0
    BY <1>1, <1>5 DEF BeginOptions
  <2> QED BY <1>1, <1>2, <1>3, <2>1 DEF LineInv, ParsedInv
<1> QED BY <1>4, <1>5

\* The next pair is refused for a reason, or settled.
LEMMA ReadOptionPreserves ==
    ASSUME LineInv, pc = "options", NEW o \in Tried(command), NEW v \in Value, ReadOption(o, v)
    PROVE  LineInv'
<1>1. /\ command \in Parsed /\ argv \in Seq(Pairs) /\ argc \in Nat /\ argc >= 2 /\ argc % 2 = 0
      /\ exit = -1 /\ why = "none" /\ Settled
  BY DEF LineInv, ParsedInv
<1>2. command' = command /\ argc' = argc /\ argv' = Append(argv, Pair(o, v))
  BY DEF ReadOption
<1>3. argv' \in Seq(Pairs)
  BY <1>1, <1>2, TriedOption, OneMore
<1>4. ASSUME Fail("refused"), ~Compatible(command)'
      PROVE  LineInv'
  <2>1. pc' = "done" /\ exit' = 1 /\ why' = "refused"
    BY <1>4 DEF Fail
  <2>2. Refusable'
    BY <1>4 DEF Refusable
  <2> QED BY <1>1, <1>2, <1>3, <2>1, <2>2 DEF LineInv, ParsedInv
<1>5. CASE GroupOf(command, o) = {} /\ Fail("refused")
  <2>1. ~Compatible(command)'
    BY <1>1, <1>2, <1>5, BadPair
  <2> QED BY <1>4, <1>5, <2>1
<1>6. ASSUME NEW g \in GroupOf(command, o),
             Fail("refused"), AlreadyGiven(g) \/ ~Convert(command, o, v).ok
      PROVE  LineInv'
  <2>1. ~Compatible(command)'
    BY <1>1, <1>2, <1>6, BadPair DEF AlreadyGiven
  <2> QED BY <1>4, <1>6, <2>1
<1>7. CASE Throw
  <2>1. pc' = "done" /\ exit' = 1 /\ why' = "failure"
    BY <1>7 DEF Throw, Fail
  <2> QED BY <1>1, <1>2, <1>3, <2>1 DEF LineInv, ParsedInv
<1>8. ASSUME NEW g \in GroupOf(command, o), ~AlreadyGiven(g), Convert(command, o, v).ok,
             SetOption(g, Convert(command, o, v).bytes), UNCHANGED <<pc, exit, why, result>>
      PROVE  LineInv'
  <2>1. Settled'
    BY <1>1, <1>2, <1>8, SettledGrows DEF AlreadyGiven
  <2> QED BY <1>1, <1>2, <1>3, <1>8, <2>1 DEF LineInv, ParsedInv
<1>9. \/ GroupOf(command, o) = {} /\ Fail("refused")
      \/ \E g \in GroupOf(command, o) :
            \/ Fail("refused") /\ (AlreadyGiven(g) \/ ~Convert(command, o, v).ok)
            \/ Throw
            \/ /\ ~AlreadyGiven(g) /\ Convert(command, o, v).ok
               /\ SetOption(g, Convert(command, o, v).bytes) /\ UNCHANGED <<pc, exit, why, result>>
  BY DEF ReadOption
<1> QED BY <1>5, <1>6, <1>7, <1>8, <1>9

\* When all pairs are looked at, nothing required is missing, or the parser refuses.
LEMMA EndOptionsPreserves ==
    ASSUME LineInv, EndOptions
    PROVE  LineInv'
<1>1. /\ pc = "options" /\ 2 * Len(argv) = argc - 2
      /\ UNCHANGED <<command, argc, argv, options>>
  BY DEF EndOptions
<1>2. /\ command \in Parsed /\ argv \in Seq(Pairs) /\ argc \in Nat /\ argc >= 2 /\ argc % 2 = 0
      /\ exit = -1 /\ why = "none" /\ Settled
  BY <1>1 DEF LineInv, ParsedInv
<1>3. Settled' <=> Settled
  BY <1>1 DEF Settled, Compatible
<1>4. CASE Required(command) \subseteq DOMAIN options
  <2>1. pc' = "run" /\ exit' = exit /\ why' = why
    BY <1>4 DEF EndOptions
  <2> QED BY <1>1, <1>2, <1>3, <1>4, <2>1 DEF LineInv, ParsedInv
<1>5. CASE ~(Required(command) \subseteq DOMAIN options)
  <2>1. pc' = "done" /\ exit' = 1 /\ why' = "refused"
    BY <1>5 DEF EndOptions, Fail
  <2>2. ~Complete(command)
    BY <1>2, <1>5, CompleteWhenRequired
  <2>3. Len(argv) = (argc - 2) \div 2
    BY <1>1, <1>2
  <2>4. Refusable'
    BY <1>1, <2>2, <2>3 DEF Refusable, Complete, Given
  <2> QED BY <1>1, <1>2, <2>1, <2>4 DEF LineInv, ParsedInv
<1> QED BY <1>4, <1>5

\* A command that runs has its options settled and complete; its result goes their way.
LEMMA RunCommandPreserves ==
    ASSUME LineInv, RunCommand
    PROVE  LineInv'
<1>1. pc = "run" /\ UNCHANGED <<command, argc, argv, options>>
  BY DEF RunCommand
<1>2. /\ command \in Parsed /\ argv \in Seq(Pairs) /\ argc \in Nat /\ argc >= 2
      /\ 2 * Len(argv) = argc - 2 /\ Required(command) \subseteq DOMAIN options
      /\ exit = -1 /\ why = "none" /\ Settled
  BY <1>1 DEF LineInv, ParsedInv
<1>3. Settled' <=> Settled
  BY <1>1 DEF Settled, Compatible
<1>4. CASE Throw
  <2>1. pc' = "done" /\ exit' = 1 /\ why' = "failure"
    BY <1>4 DEF Throw, Fail
  <2> QED BY <1>1, <1>2, <2>1 DEF LineInv, ParsedInv
<1>5. CASE Succeed(IF command \in FileCommands THEN FileRoute ELSE PacketRoute)
  <2>1. /\ pc' = "done" /\ exit' = 0 /\ why' = why
        /\ result' = IF command \in FileCommands THEN FileRoute ELSE PacketRoute
    BY <1>5 DEF Succeed
  <2>2. FileRoute' = FileRoute /\ PacketRoute' = PacketRoute
    BY <1>1 DEF FileRoute, PacketRoute, FromInput, ToOutput, PathCall, UsesStandardStream,
                InputIsStdin, OutputIsStdout
  <2> QED BY <1>1, <1>2, <1>3, <2>1, <2>2 DEF LineInv, ParsedInv
<1> QED BY <1>4, <1>5 DEF RunCommand

\* What begins without a parser.
BeginOther ==
    \/ \E c \in Hashing \cup TextCommands \cup {"keygen"} : \E args \in FixedArguments(c) :
          RunFixed(c, args)
    \/ \E f \in {"base64_encode", "base64_decode"}, t \in Text : CallBase64(f, t)
    \/ \E c \in {"none", "help", "--help", "version", "--version", "token", "other"}, n \in 1..4,
          known \in BOOLEAN : Usage(c, n, known)
    \/ \E t \in Size : BeginToken(t)

\* Nothing of it has to do with a command that has a parser.
LEMMA OthersPreserve ==
    ASSUME LineInv, (pc = "idle" /\ BeginOther) \/ FillRandom \/ EndToken
    PROVE  LineInv'
<1>1. SUFFICES command' \notin Parsed /\ (pc' = "done" \/ (pc' = "random" /\ command' = "token"))
  BY <1>1 DEF LineInv
<1>2. ASSUME NEW c \in Hashing \cup TextCommands \cup {"keygen"}, NEW args, RunFixed(c, args)
      PROVE  command' \notin Parsed /\ pc' = "done"
  <2>1. command' = c /\ pc' = "done"
    BY <1>2 DEF RunFixed, Fail, Succeed, Throw
  <2> QED BY <2>1 DEF Hashing, TextCommands, Parsed, FileCommands, Verifying
<1>3. ASSUME NEW f \in {"base64_encode", "base64_decode"}, NEW t, CallBase64(f, t)
      PROVE  command' \notin Parsed /\ pc' = "done"
  <2>1. command' = f /\ pc' = "done"
    BY <1>3 DEF CallBase64, Fail, Succeed
  <2> QED BY <2>1 DEF Parsed, FileCommands, Verifying
<1>4. ASSUME NEW c \in {"none", "help", "--help", "version", "--version", "token", "other"},
             NEW n, NEW known, Usage(c, n, known)
      PROVE  command' \notin Parsed /\ pc' = "done"
  <2>1. command' = c /\ pc' = "done"
    BY <1>4 DEF Usage, Fail, Succeed
  <2> QED BY <2>1 DEF Parsed, FileCommands, Verifying
<1>5. "token" \notin Parsed
  BY DEF Parsed, FileCommands, Verifying
<1>6. ASSUME NEW t, BeginToken(t)
      PROVE  command' = "token" /\ pc' \in {"done", "random"}
  BY <1>6 DEF BeginToken, Fail, Throw
<1>7. ASSUME FillRandom \/ EndToken
      PROVE  command' = "token" /\ pc' \in {"done", "random"}
  <2>1. pc = "random" /\ command' = command
    BY <1>7 DEF FillRandom, EndToken
  <2>2. pc' \in {"done", "random"}
    BY <1>7, <2>1 DEF FillRandom, EndToken, Fail, Succeed, Throw
  <2> QED BY <2>1, <2>2 DEF LineInv
<1> QED BY <1>2, <1>3, <1>4, <1>5, <1>6, <1>7 DEF BeginOther

\* In every reachable state of run() the options agree with the pairs looked at so far.
THEOREM LineInvariant == Spec => []LineInv
<1>1. Init => LineInv
  <2>1. "none" \notin Parsed
    BY DEF Parsed, FileCommands, Verifying
  <2> QED BY <2>1 DEF Init, LineInv
<1>2. LineInv /\ [Next]_vars => LineInv'
  <2> SUFFICES ASSUME LineInv, [Next]_vars PROVE LineInv'
    OBVIOUS
  <2>1. CASE pc = "idle" /\ \E c \in Parsed, n \in 2..(2 + (2 * MaxPairs)) : BeginOptions(c, n)
    <3>1. PICK c \in Parsed, n \in 2..(2 + (2 * MaxPairs)) : BeginOptions(c, n)
      BY <2>1
    <3>2. n \in Nat /\ n >= 2
      OBVIOUS
    <3> QED BY <2>1, <3>1, <3>2, BeginOptionsPreserves
  <2>2. CASE pc = "options" /\ \E o \in Tried(command), v \in Value : ReadOption(o, v)
    BY <2>2, ReadOptionPreserves
  <2>3. CASE EndOptions
    BY <2>3, EndOptionsPreserves
  <2>4. CASE RunCommand
    BY <2>4, RunCommandPreserves
  <2>5. CASE UNCHANGED vars
    <3>1. UNCHANGED <<pc, command, argc, argv, options, exit, why, result>>
      BY <2>5 DEF vars
    <3>2. (Settled' <=> Settled) /\ (Refusable' <=> Refusable)
      BY <3>1 DEF Settled, Compatible, Refusable, Complete, Given
    <3>3. FileRoute' = FileRoute /\ PacketRoute' = PacketRoute
      BY <3>1 DEF FileRoute, PacketRoute, FromInput, ToOutput, PathCall, UsesStandardStream,
                  InputIsStdin, OutputIsStdout
    <3>4. ParsedInv' <=> ParsedInv
      BY <3>1, <3>2, <3>3 DEF ParsedInv
    <3> QED BY <3>1, <3>4 DEF LineInv
  <2>6. CASE pc = "idle" /\ Begin
    <3>1. BeginOther \/ \E c \in Parsed, n \in 2..(2 + (2 * MaxPairs)) : BeginOptions(c, n)
      BY <2>6, Zenon DEF Begin, BeginOther
    <3> QED BY <2>1, <2>6, <3>1, OthersPreserve
  <2>7. CASE FillRandom \/ EndToken
    BY <2>7, OthersPreserve
  <2> QED BY <2>2, <2>3, <2>4, <2>5, <2>6, <2>7 DEF Next
<1> QED BY <1>1, <1>2, PTL DEF Spec

-----------------------------------------------------------------------------
(* What follows. *)

\* The parsers accept exactly the well-formed command lines, of any number of options.
THEOREM AcceptsExactlyWellFormedCorrect == Spec => []AcceptsExactlyWellFormed
<1>1. LineInv => AcceptsExactlyWellFormed
  <2> SUFFICES ASSUME LineInv, pc \in {"run", "done"}, command \in Parsed
               PROVE  AcceptsExactlyWellFormed
    BY DEF AcceptsExactlyWellFormed
  <2>1. ParsedInv
    BY DEF LineInv
  <2>2. ASSUME pc = "run" \/ exit = 0
        PROVE  Len(argv) = (argc - 2) \div 2 /\ Compatible(command) /\ Complete(command)
    <3>1. /\ argv \in Seq(Pairs) /\ argc \in Nat /\ 2 * Len(argv) = argc - 2 /\ Settled
          /\ Required(command) \subseteq DOMAIN options
      BY <2>1, <2>2 DEF ParsedInv
    <3>2. Complete(command)
      BY <3>1, CompleteWhenRequired
    <3>3. Len(argv) = (argc - 2) \div 2
      BY <3>1
    <3> QED BY <3>1, <3>2, <3>3 DEF Settled
  <2>3. why = "refused" => Refusable
    BY <2>1 DEF ParsedInv
  <2> QED BY <2>2, <2>3 DEF AcceptsExactlyWellFormed, Refusable
<1> QED BY <1>1, LineInvariant, PTL

\* Input and output go where the options say, "-" being a standard stream to a file command
\* and a path to the others.
THEOREM RoutedAsAskedCorrect == Spec => []RoutedAsAsked
<1>1. LineInv => RoutedAsAsked
  <2> SUFFICES ASSUME LineInv, exit = 0, command \in Parsed
               PROVE  LET in == Given({"--in"})  out == Given({"--out"}) IN
                      /\ command \in FileCommands =>
                            IF in = {Standard} THEN result.from = "stdin"
                            ELSE result.from = "file" /\ in = {result.source}
                      /\ result.to = IF command \in Verifying THEN "nothing"
                                     ELSE IF out = {} \/ (command \in FileCommands /\ out = {Standard})
                                     THEN "stdout" ELSE "file"
                      /\ result.to = "file" => out = {result.path}
    BY DEF RoutedAsAsked
  <2>1. /\ argv \in Seq(Pairs) /\ Settled /\ Required(command) \subseteq DOMAIN options
        /\ result = IF command \in FileCommands THEN FileRoute ELSE PacketRoute
    BY DEF LineInv, ParsedInv
  <2>2. CASE command \in FileCommands
    <3>1. command # "encrypt"
      BY <2>2 DEF FileCommands, Verifying
    <3>2. Given({"--in"}) = {options["input"]}
      <4>1. "input" \in DOMAIN Groups(command) /\ Groups(command)["input"] = {"--in"}
        BY <2>2, GroupsOfFileCommands
      <4>2. "input" \in DOMAIN options
        BY <2>1, <2>2, GroupsOfFileCommands
      <4> QED BY <2>1, <3>1, <4>1, <4>2, PathGiven
    <3>3. command \notin Verifying => Given({"--out"}) = {options["output"]}
      <4> SUFFICES ASSUME command \notin Verifying PROVE Given({"--out"}) = {options["output"]}
        OBVIOUS
      <4>1. "output" \in DOMAIN Groups(command) /\ Groups(command)["output"] = {"--out"}
        BY <2>2, GroupsOfFileCommands
      <4>2. "output" \in DOMAIN options
        BY <2>1, <2>2, GroupsOfFileCommands
      <4> QED BY <2>1, <4>1, <4>2, PathGiven
    <3>4. result = FileRoute
      BY <2>1, <2>2
    <3>5. CASE command \in Verifying
      BY <2>2, <3>2, <3>4, <3>5 DEF FileRoute, FromInput, Nothing, InputIsStdin
    <3>6. CASE command \notin Verifying /\ UsesStandardStream
      BY <2>2, <3>2, <3>3, <3>4, <3>6 DEF FileRoute, FromInput, ToOutput, Printed, NewFile, Nothing,
                                          InputIsStdin, OutputIsStdout
    <3>7. CASE command \notin Verifying /\ ~UsesStandardStream
      BY <2>2, <3>2, <3>3, <3>4, <3>7 DEF FileRoute, PathCall, NewFile, Nothing, UsesStandardStream,
                                          InputIsStdin, OutputIsStdout
    <3> QED BY <3>5, <3>6, <3>7
  <2>3. CASE command \notin FileCommands
    <3>1. Given({"--out"}) = IF "output" \in DOMAIN options THEN {options["output"]} ELSE {}
      BY <2>1, <2>3, GroupsOfOthers, PathGiven
    <3>2. command \notin Verifying
      BY <2>3 DEF FileCommands
    <3>3. result = PacketRoute
      BY <2>1, <2>3
    <3> QED BY <2>3, <3>1, <3>2, <3>3 DEF PacketRoute, NewFile, Printed, Nothing
  <2> QED BY <2>2, <2>3
<1> QED BY <1>1, LineInvariant, PTL

-----------------------------------------------------------------------------
(* Encoding, decoding and tokens. *)

\* The characters of a text are bytes.
LEMMA TextsAreBytes == \A t \in Text : t \in Seq(Byte)
BY ValueAssumption DEF Character, Byte

\* What an encoding or decoding call answered is what its function makes of the text.
Computed ==
    LET r == Codec(command, argv[1].value) IN
    /\ argv[1].value \in Text
    /\ exit = 0 <=> r.ok
    /\ exit = 0 => result.bytes = r.bytes

\* The bytes of a token that are drawn already.
Drawn ==
    /\ parse_size(argv[1].value) = Ok(<<Len(buffer)>>)
    /\ buffer \in Seq(Byte) /\ filled \in 0..Len(buffer)
    /\ \A i \in 1..filled : buffer[i] \in RandomByte

CallInv ==
    /\ pc = "idle" => command = "none" /\ exit = -1 /\ filled = 0
    /\ pc \in {"options", "run"} => command \in Parsed
    /\ pc = "random" => command = "token"
    /\ pc = "done" /\ command \in TextCommands /\ (exit = 0 \/ WellShaped) => Computed
    /\ pc = "done" /\ command \in {"base64_encode", "base64_decode"} => Computed
    /\ command = "token" =>
          /\ pc = "random" => exit = -1 /\ Drawn
          /\ exit = 0 => /\ pc = "done" /\ Drawn /\ filled = Len(buffer)
                         /\ result.bytes = base64url_encode(buffer)

\* The commands of which the invariant says something.
Called == TextCommands \cup {"base64_encode", "base64_decode", "token"}

\* No other command matters to it.
LEMMA OutsidePreserves ==
    ASSUME command' \notin Called, pc' \notin {"idle", "random"},
           pc' \in {"options", "run"} => command' \in Parsed
    PROVE  CallInv'
BY DEF CallInv, Called

\* The kinds of commands exclude each other.
LEMMA Kinds ==
    /\ \A c \in Parsed \cup Hashing \cup {"keygen", "none", "help", "--help", "version", "--version", "other"} :
          c \notin Called
    /\ \A c \in TextCommands : c \notin Hashing /\ c # "keygen" /\ c # "token" /\ c # "none"
          /\ c # "base64_encode" /\ c # "base64_decode"
BY DEF Parsed, FileCommands, Verifying, Hashing, TextCommands, Called

\* The arguments of an encoding or decoding command are one option and a text, or none.
LEMMA ArgumentsAre ==
    ASSUME NEW c \in TextCommands, NEW args \in FixedArguments(c)
    PROVE  /\ Shapes(c) = {<<"--text">>}
           /\ args = << >> \/ \E o \in {"--text", "--other"}, t \in Text : args = <<Pair(o, t)>>
<1>1. Shapes(c) = {<<"--text">>}
  BY DEF Shapes, TextCommands
<1>2. PICK s \in {<<"--text">>, << >>, <<"--other">>} :
         \E v \in [1..Len(s) -> Text] : args = [i \in 1..Len(s) |-> Pair(s[i], v[i])]
  BY <1>1 DEF FixedArguments
<1>3. PICK v \in [1..Len(s) -> Text] : args = [i \in 1..Len(s) |-> Pair(s[i], v[i])]
  BY <1>2
<1>4. CASE s = << >>
  <2>1. args = << >>
    BY <1>3, <1>4
  <2> QED BY <1>1, <2>1
<1>5. ASSUME NEW o \in {"--text", "--other"}, s = <<o>>
      PROVE  \E t \in Text : args = <<Pair(o, t)>>
  <2>1. Len(s) = 1 /\ s[1] = o /\ v[1] \in Text
    BY <1>3, <1>5
  <2>2. args = <<Pair(o, v[1])>>
    BY <1>3, <2>1
  <2> QED BY <2>1, <2>2
<1>6. CASE s = <<"--text">>
  <2>1. \E t \in Text : args = <<Pair("--text", t)>>
    BY <1>5, <1>6
  <2> QED BY <1>1, <2>1
<1>7. CASE s = <<"--other">>
  <2>1. \E t \in Text : args = <<Pair("--other", t)>>
    BY <1>5, <1>7
  <2> QED BY <1>1, <2>1
<1>8. s = <<"--text">> \/ s = << >> \/ s = <<"--other">>
  BY <1>2
<1> QED BY <1>4, <1>6, <1>7, <1>8

\* The end of such a call, by the answer of its function.
LEMMA AnswerIs ==
    ASSUME NEW r, IF r.ok THEN Succeed(Printed(r.bytes)) ELSE Fail("refused")
    PROVE  /\ pc' = "done"
           /\ exit' = 0 <=> r.ok
           /\ exit' = 0 => result'.bytes = r.bytes
<1>1. CASE r.ok
  <2>1. Succeed(Printed(r.bytes))
    BY <1>1
  <2>2. Printed(r.bytes).bytes = r.bytes
    BY DEF Printed, Nothing
  <2> QED BY <1>1, <2>1, <2>2 DEF Succeed
<1>2. CASE ~r.ok
  <2>1. Fail("refused")
    BY <1>2
  <2> QED BY <1>2, <2>1 DEF Fail
<1> QED BY <1>1, <1>2

\* An encoding or decoding command computes its function, or was called in another way.
LEMMA RunTextComputes ==
    ASSUME NEW c \in TextCommands, NEW args \in FixedArguments(c), RunFixed(c, args)
    PROVE  /\ command' = c /\ pc' = "done"
           /\ exit' = 0 \/ WellShaped' => Computed'
<1>1. /\ command' = c /\ argc' = 2 + (2 * Len(args)) /\ argv' = args /\ pc' = "done"
  BY DEF RunFixed, Fail, Succeed, Throw
<1>2. CASE args = << >>
  <2>1. argc' # 4 /\ [i \in 1..Len(args) |-> args[i].option] = << >>
    BY <1>1, <1>2
  <2>2. << >> \notin Shapes(c)
    BY ArgumentsAre
  <2>3. Fail("refused")
    BY <2>1, <2>2 DEF RunFixed
  <2> QED BY <1>1, <2>1, <2>3 DEF Fail, WellShaped
<1>3. ASSUME NEW o \in {"--text", "--other"}, NEW t \in Text, args = <<Pair(o, t)>>
      PROVE  exit' = 0 \/ WellShaped' => Computed'
  <2>1. Len(args) = 1 /\ args[1].option = o /\ args[1].value = t
    BY <1>3 DEF Pair
  <2>2. [i \in 1..Len(args) |-> args[i].option] = <<o>>
    BY <2>1
  <2>3. CASE o = "--other"
    <3>1. <<o>> \notin Shapes(c)
      BY <2>3, ArgumentsAre
    <3>2. Fail("refused")
      BY <2>2, <3>1 DEF RunFixed
    <3> QED BY <1>1, <2>1, <2>3, <3>2 DEF Fail, WellShaped
  <2>4. CASE o = "--text"
    <3>1. <<o>> \in Shapes(c)
      BY <2>4, ArgumentsAre
    <3>2. Convert(c, o, t) = Ok(t)
      BY <2>4, Kinds DEF Convert, ReadsFile, TextCommands
    <3>3. IF Codec(c, t).ok THEN Succeed(Printed(Codec(c, t).bytes)) ELSE Fail("refused")
      BY <2>1, <2>2, <3>1, <3>2, Kinds DEF RunFixed, Ok
    <3>4. /\ argv'[1].value = t
          /\ exit' = 0 <=> Codec(c, t).ok
          /\ exit' = 0 => result'.bytes = Codec(c, t).bytes
      BY <1>1, <2>1, <3>3, AnswerIs
    <3> QED BY <1>1, <3>4 DEF Computed
  <2> QED BY <2>3, <2>4
<1> QED BY <1>1, <1>2, <1>3, ArgumentsAre

\* So does a call of the library.
LEMMA CallComputes ==
    ASSUME NEW f \in {"base64_encode", "base64_decode"}, NEW t \in Text, CallBase64(f, t)
    PROVE  command' = f /\ pc' = "done" /\ Computed'
<1>1. command' = f /\ argv'[1].value = t
  BY DEF CallBase64, Pair
<1>2. IF Codec(f, t).ok THEN Succeed(Printed(Codec(f, t).bytes)) ELSE Fail("refused")
  BY DEF CallBase64
<1>3. /\ pc' = "done"
      /\ exit' = 0 <=> Codec(f, t).ok
      /\ exit' = 0 => result'.bytes = Codec(f, t).bytes
  BY <1>2, AnswerIs
<1> QED BY <1>1, <1>3 DEF Computed

\* A size that is parsed is a number.
LEMMA SizeIsParsed ==
    ASSUME NEW text, parse_size(text).ok
    PROVE  \E v \in Nat : parse_size(text) = Ok(<<v>>)
<1> DEFINE value == CHOOSE f : f = [i \in 0..Len(text) |->
                       IF i = 0 THEN 0 ELSE (f[i - 1] * 10) + (text[i] - 48)]
           good == /\ text # << >> /\ (\A i \in 1..Len(text) : text[i] \in Digit)
                   /\ value[Len(text)] \in 1..SizeMax
<1>1. parse_size(text) = IF good THEN Ok(<<value[Len(text)]>>) ELSE Refused
  BY Zenon DEF parse_size
<1> DEFINE last == value[Len(text)]
<1>2. good => last \in 1..SizeMax
  OBVIOUS
<1> HIDE DEF value, last, good
<1>3. ~Refused.ok
  BY DEF Refused
<1>4. good
  BY <1>1, <1>3, Zenon
<1>5. parse_size(text) = Ok(<<last>>)
  BY <1>1, <1>4, Zenon DEF last
<1>6. last \in Nat
  BY <1>2, <1>4, ValueAssumption
<1> QED BY <1>5, <1>6

\* A token begins as zeros.
LEMMA BeginTokenPreserves ==
    ASSUME CallInv, pc = "idle", NEW t \in Size, BeginToken(t)
    PROVE  CallInv'
<1>1. /\ command' = "token" /\ argv' = <<Pair("operand", t)>> /\ filled' = filled
      /\ exit = -1 /\ filled = 0
  BY DEF BeginToken, CallInv
<1>2. argv'[1].value = t
  BY <1>1 DEF Pair
<1>3. CASE pc' = "done" /\ exit' = 1
  BY <1>1, <1>3 DEF CallInv, TextCommands
<1>4. CASE /\ parse_size(t).ok /\ pc' = "random" /\ exit' = exit
           /\ buffer' = [i \in 1..parse_size(t).bytes[1] |-> 0]
  <2>1. PICK v \in Nat : parse_size(t) = Ok(<<v>>)
    BY <1>4, SizeIsParsed
  <2>2. buffer' = [i \in 1..v |-> 0]
    BY <1>4, <2>1 DEF Ok
  <2>3. buffer' \in Seq(Byte) /\ Len(buffer') = v
    BY <2>2 DEF Byte
  <2>4. Drawn'
    BY <1>1, <1>2, <2>1, <2>3 DEF Drawn
  <2> QED BY <1>1, <1>4, <2>4 DEF CallInv, TextCommands
<1>5. (pc' = "done" /\ exit' = 1)
      \/ /\ parse_size(t).ok /\ pc' = "random" /\ exit' = exit
         /\ buffer' = [i \in 1..parse_size(t).bytes[1] |-> 0]
  BY DEF BeginToken, Fail, Throw
<1> QED BY <1>3, <1>4, <1>5

\* Each piece is drawn behind the bytes drawn before it.
LEMMA FillRandomPreserves ==
    ASSUME CallInv, FillRandom
    PROVE  CallInv'
<1>1. /\ pc = "random" /\ command = "token" /\ exit = -1 /\ Drawn /\ filled < Len(buffer)
      /\ UNCHANGED <<command, argv>>
  BY DEF FillRandom, FillAgain, CallInv
<1> DEFINE chunk == Min({Len(buffer) - filled, IntMax})
<1>2. CASE pc' = "done" /\ exit' = 1
  BY <1>1, <1>2 DEF CallInv, TextCommands
<1>3. ASSUME NEW r \in RandomByte,
             buffer' = [i \in 1..Len(buffer) |->
                           IF i \in (filled + 1)..(filled + chunk) THEN r ELSE buffer[i]],
             filled' = filled + chunk, UNCHANGED <<pc, exit>>
      PROVE  CallInv'
  <2>1. /\ buffer \in Seq(Byte) /\ Len(buffer) \in Nat /\ filled \in 0..Len(buffer)
        /\ \A i \in 1..filled : buffer[i] \in RandomByte
        /\ parse_size(argv[1].value) = Ok(<<Len(buffer)>>)
    BY <1>1 DEF Drawn
  <2>2. chunk \in 1..(Len(buffer) - filled)
    <3> DEFINE S == {Len(buffer) - filled, IntMax}
               top == Len(buffer) + IntMax
    <3>1. top \in Nat /\ S \subseteq 0..top /\ S # {}
      BY <1>1, <2>1, RandomAssumption
    <3>2. chunk \in S /\ chunk <= Len(buffer) - filled
      <4> HIDE DEF top
      <4> QED BY <3>1, MinMax
    <3> QED BY <1>1, <2>1, <3>2, RandomAssumption
  <2>3. r \in Byte
    BY RandomAssumption DEF Byte, Character
  <2> HIDE DEF chunk
  <2>4. buffer' = [i \in 1..Len(buffer) |-> buffer'[i]] /\ \A i \in 1..Len(buffer) : buffer'[i] \in Byte
    BY <1>3, <2>1, <2>3
  <2>5. buffer' \in Seq(Byte) /\ Len(buffer') = Len(buffer)
    BY <2>1, <2>4, TextOf
  <2>6. filled' \in 0..Len(buffer)
    BY <1>3, <2>1, <2>2
  <2>7. \A i \in 1..filled' : buffer'[i] \in RandomByte
    BY <1>3, <2>1, <2>2
  <2>8. Drawn'
    BY <1>1, <2>1, <2>5, <2>6, <2>7 DEF Drawn
  <2> QED BY <1>1, <1>3, <2>8 DEF CallInv, TextCommands
<1>4. FillRandom => (pc' = "done" /\ exit' = 1)
                    \/ \E r \in RandomByte :
                          /\ buffer' = [i \in 1..Len(buffer) |->
                                 IF i \in (filled + 1)..(filled + chunk) THEN r ELSE buffer[i]]
                          /\ filled' = filled + chunk /\ UNCHANGED <<pc, exit>>
  BY Zenon DEF FillRandom, Throw, Fail
<1> QED
  <2> HIDE DEF chunk
  <2> QED BY <1>2, <1>3, <1>4

\* The token is done when all of it is drawn.
LEMMA EndTokenPreserves ==
    ASSUME CallInv, EndToken
    PROVE  CallInv'
<1>1. /\ pc = "random" /\ command = "token" /\ Drawn /\ ~(filled < Len(buffer))
      /\ UNCHANGED <<command, argv, buffer, filled>>
  BY DEF EndToken, FillAgain, CallInv
<1>2. filled = Len(buffer)
  BY <1>1 DEF Drawn
<1>3. Drawn'
  BY <1>1 DEF Drawn
<1>4. Succeed(Printed(base64url_encode(buffer)))
  BY DEF EndToken
<1>5. Printed(base64url_encode(buffer)).bytes = base64url_encode(buffer)
  BY DEF Printed, Nothing
<1>6. pc' = "done" /\ result'.bytes = base64url_encode(buffer)'
  BY <1>1, <1>4, <1>5 DEF Succeed
<1> QED BY <1>1, <1>2, <1>3, <1>6 DEF CallInv, TextCommands

\* token with too few or too many arguments is refused.
LEMMA UsagePreserves ==
    ASSUME NEW c \in {"none", "help", "--help", "version", "--version", "token", "other"},
           NEW n \in 1..4, NEW known \in BOOLEAN, Usage(c, n, known)
    PROVE  CallInv'
<1>1. command' = c /\ pc' = "done"
  BY DEF Usage, Fail, Succeed
<1>2. CASE c = "token"
  <2>1. ~Understood(c, n, known)
    BY <1>2 DEF Usage, Understood
  <2>2. exit' = 1
    BY <2>1 DEF Usage, Fail
  <2> QED BY <1>1, <1>2, <2>2 DEF CallInv, TextCommands
<1>3. CASE c # "token"
  <2>1. c \notin Called
    BY <1>3, Kinds
  <2> QED BY <1>1, <2>1, OutsidePreserves
<1> QED BY <1>2, <1>3

\* Whatever begins a run.
LEMMA BeginPreserves ==
    ASSUME CallInv, pc = "idle", Begin
    PROVE  CallInv'
<1>1. ASSUME NEW c \in Parsed, NEW n, BeginOptions(c, n)
      PROVE  CallInv'
  <2>1. command' = c /\ pc' \in {"done", "options"}
    BY <1>1 DEF BeginOptions, Fail
  <2> QED BY <2>1, Kinds, OutsidePreserves
<1>2. ASSUME NEW c \in Hashing \cup TextCommands \cup {"keygen"}, NEW args \in FixedArguments(c),
             RunFixed(c, args)
      PROVE  CallInv'
  <2>1. CASE c \in TextCommands
    <3>1. /\ command' = c /\ pc' = "done"
          /\ exit' = 0 \/ WellShaped' => Computed'
      BY <1>2, <2>1, RunTextComputes
    <3>2. c # "token" /\ c # "base64_encode" /\ c # "base64_decode"
      BY <2>1, Kinds
    <3> QED BY <3>1, <3>2 DEF CallInv
  <2>2. CASE c \notin TextCommands
    <3>1. command' = c /\ pc' = "done"
      BY <1>2 DEF RunFixed, Fail, Succeed, Throw
    <3>2. c \notin Called
      BY <2>2, Kinds
    <3> QED BY <3>1, <3>2, OutsidePreserves
  <2> QED BY <2>1, <2>2
<1>3. ASSUME NEW f \in {"base64_encode", "base64_decode"}, NEW t \in Text, CallBase64(f, t)
      PROVE  CallInv'
  <2>1. command' = f /\ pc' = "done" /\ Computed'
    BY <1>3, CallComputes
  <2> QED BY <2>1 DEF CallInv, TextCommands
<1> QED
  BY <1>1, <1>2, <1>3, UsagePreserves, BeginTokenPreserves, Zenon DEF Begin

\* In every reachable state a call that has ended answered what its function computes, and a
\* token consists of bytes drawn so far.
THEOREM CallInvariant == Spec => []CallInv
<1>1. Init => CallInv
  BY DEF Init, CallInv, TextCommands
<1>2. CallInv /\ [Next]_vars => CallInv'
  <2> SUFFICES ASSUME CallInv, [Next]_vars PROVE CallInv'
    OBVIOUS
  <2>1. CASE pc = "idle" /\ Begin
    BY <2>1, BeginPreserves
  <2>2. CASE pc = "options" /\ \E o \in Tried(command), v \in Value : ReadOption(o, v)
    <3>1. PICK o \in Tried(command), v \in Value : ReadOption(o, v)
      BY <2>2
    <3>2. command' = command /\ pc' \in {"done", "options"}
      BY <2>2, <3>1 DEF ReadOption, Fail, Throw
    <3>3. command \in Parsed
      BY <2>2 DEF CallInv
    <3> QED BY <3>2, <3>3, Kinds, OutsidePreserves
  <2>3. CASE EndOptions
    <3>1. command' = command /\ pc' \in {"done", "run"} /\ command \in Parsed
      BY <2>3 DEF EndOptions, Fail, CallInv
    <3> QED BY <3>1, Kinds, OutsidePreserves
  <2>4. CASE RunCommand
    <3>1. command' = command /\ pc' = "done" /\ command \in Parsed
      BY <2>4 DEF RunCommand, Fail, Throw, Succeed, CallInv
    <3> QED BY <3>1, Kinds, OutsidePreserves
  <2>5. CASE UNCHANGED vars
    <3>1. UNCHANGED <<pc, command, argc, argv, buffer, filled, exit, result>>
      BY <2>5 DEF vars
    <3>2. (Computed' <=> Computed) /\ (Drawn' <=> Drawn) /\ (WellShaped' <=> WellShaped)
      BY <3>1 DEF Computed, Drawn, WellShaped
    <3> QED BY <3>1, <3>2 DEF CallInv
  <2> QED BY <2>1, <2>2, <2>3, <2>4, <2>5, FillRandomPreserves, EndTokenPreserves DEF Next
<1> QED BY <1>1, <1>2, PTL DEF Spec

\* Every encoding and decoding call is strict, on texts of any length.
THEOREM CodecsStrictCorrect == Spec => []CodecsStrict
<1>1. CallInv => CodecsStrict
  <2> SUFFICES ASSUME CallInv, pc = "done"
               PROVE  CodecsStrict
    BY DEF CodecsStrict
  <2> DEFINE text == argv[1].value
             bytes == result.bytes
  <2>0. \A b : Ok(b).ok /\ Ok(b).bytes = b
    BY DEF Ok
  <2>1. ASSUME Computed
        PROVE  text \in Seq(Byte)
    BY <2>1, TextsAreBytes DEF Computed
  <2>2. ASSUME command = "hex-decode", WellShaped
        PROVE  /\ exit = 0 <=> CanonicalHex(text)
               /\ exit = 0 => DenotesHex(text, bytes)
    <3>1. Computed
      BY <2>2 DEF CallInv, TextCommands
    <3>2. Codec(command, text) = hex_decode(text)
      BY <2>2 DEF Codec
    <3>3. /\ exit = 0 <=> hex_decode(text).ok
          /\ exit = 0 => bytes = hex_decode(text).bytes
      BY <3>1, <3>2 DEF Computed
    <3> HIDE DEF text, bytes
    <3> QED BY <2>1, <3>1, <3>3, HexDecodeIsStrict
  <2>3. ASSUME command = "hex-encode", exit = 0
        PROVE  CanonicalHex(bytes) /\ DenotesHex(bytes, text)
    <3>1. Computed
      BY <2>3 DEF CallInv, TextCommands
    <3>2. Codec(command, text) = Ok(hex_encode(text))
      BY <2>3 DEF Codec
    <3>3. bytes = hex_encode(text)
      BY <2>0, <2>3, <3>1, <3>2 DEF Computed
    <3> HIDE DEF text, bytes
    <3> QED BY <2>1, <3>1, <3>3, HexEncodeIsStrict
  <2>4. ASSUME command = "base64url-decode", WellShaped
        PROVE  /\ exit = 0 <=> CanonicalBase64Url(text)
               /\ exit = 0 => Denotes(text, bytes, Minus, Underscore)
    <3>1. Computed
      BY <2>4 DEF CallInv, TextCommands
    <3>2. Codec(command, text) = base64url_decode(text)
      BY <2>4 DEF Codec
    <3>3. /\ exit = 0 <=> base64url_decode(text).ok
          /\ exit = 0 => bytes = base64url_decode(text).bytes
      BY <3>1, <3>2 DEF Computed
    <3> HIDE DEF text, bytes
    <3> QED BY <2>1, <3>1, <3>3, UrlDecodeIsStrict
  <2>5. ASSUME command = "base64url-encode", exit = 0
        PROVE  CanonicalBase64Url(bytes) /\ Denotes(bytes, text, Minus, Underscore)
    <3>1. Computed
      BY <2>5 DEF CallInv, TextCommands
    <3>2. Codec(command, text) = Ok(base64url_encode(text))
      BY <2>5 DEF Codec
    <3>3. bytes = base64url_encode(text)
      BY <2>0, <2>5, <3>1, <3>2 DEF Computed
    <3> HIDE DEF text, bytes
    <3> QED BY <2>1, <3>1, <3>3, UrlEncodeIsStrict
  <2>6. ASSUME command = "base64_decode"
        PROVE  /\ exit = 0 <=> CanonicalBase64(text)
               /\ exit = 0 => Denotes(Unpadded(text), bytes, Plus, Slash)
    <3>1. Computed
      BY <2>6 DEF CallInv
    <3>2. Codec(command, text) = base64_decode(text)
      BY <2>6 DEF Codec
    <3>3. /\ exit = 0 <=> base64_decode(text).ok
          /\ exit = 0 => bytes = base64_decode(text).bytes
      BY <3>1, <3>2 DEF Computed
    <3> HIDE DEF text, bytes
    <3> QED BY <2>1, <3>1, <3>3, DecodeIsStrict
  <2>7. ASSUME command = "base64_encode"
        PROVE  CanonicalBase64(bytes) /\ Denotes(Unpadded(bytes), text, Plus, Slash)
    <3>1. Computed
      BY <2>7 DEF CallInv
    <3>2. Codec(command, text) = Ok(base64_encode(text))
      BY <2>7 DEF Codec
    <3>3. bytes = base64_encode(text)
      BY <2>0, <3>1, <3>2 DEF Computed
    <3> HIDE DEF text, bytes
    <3> QED BY <2>1, <3>1, <3>3, EncodeIsStrict
  <2> QED BY <2>2, <2>3, <2>4, <2>5, <2>6, <2>7, Zenon DEF CodecsStrict
<1> QED BY <1>1, CallInvariant, PTL

\* A token is as long as asked for and nothing of it is left undrawn, however many calls of
\* RAND_bytes it takes.
THEOREM TokenFullyRandomCorrect == Spec => []TokenFullyRandom
<1>1. CallInv => TokenFullyRandom
  <2> SUFFICES ASSUME CallInv, command = "token", exit = 0
               PROVE  LET bytes == base64url_decode(result.bytes) IN
                      /\ bytes.ok /\ parse_size(argv[1].value) = Ok(<<Len(bytes.bytes)>>)
                      /\ \A i \in 1..Len(bytes.bytes) : bytes.bytes[i] \in RandomByte
    BY DEF TokenFullyRandom
  <2>1. Drawn /\ filled = Len(buffer) /\ result.bytes = base64url_encode(buffer)
    BY DEF CallInv
  <2>2. /\ buffer \in Seq(Byte) /\ parse_size(argv[1].value) = Ok(<<Len(buffer)>>)
        /\ \A i \in 1..Len(buffer) : buffer[i] \in RandomByte
    BY <2>1 DEF Drawn
  <2>3. base64url_decode(result.bytes).ok /\ base64url_decode(result.bytes).bytes = buffer
    BY <2>1, <2>2, UrlRoundTrip
  <2> QED BY <2>2, <2>3
<1> QED BY <1>1, CallInvariant, PTL
=============================================================================

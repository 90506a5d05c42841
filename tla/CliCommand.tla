----------------------------- MODULE CliCommand -----------------------------
(***************************************************************************)
(* One run of the command line tool (run() in src/src/cli/commands.cpp):   *)
(* dispatch, the six option parsers, the commands of a fixed shape, random *)
(* tokens, and which way the result takes.  How files and standard output  *)
(* are written is the matter of CliOutput and PathFile.  base64_encode and *)
(* base64_decode, which no command offers, are called by other programs.   *)
(*                                                                         *)
(* An argument list is a command and pairs of an option and a value.  The  *)
(* parsers look at a pair only when they come to it, so the pair is chosen *)
(* then.  The option --other stands for every option a command does not    *)
(* know.                                                                   *)
(***************************************************************************)
EXTENDS Codecs

CONSTANTS
    Value,          \* values of options
    File,           \* what the files hold, by the value that names them
    Text,           \* arguments of the encoding and decoding commands
    Size,           \* arguments of token
    MaxPairs,       \* bound: pairs on the command line
    kKeySize,       \* bytes of a key256
    SizeMax,        \* the largest size_t
    IntMax,         \* the most RAND_bytes delivers at once
    RandomByte      \* the bytes it delivers; zero among them would hide what it did not

\* Arguments and files are sequences of characters.
Character == 0..255
ASSUME ValueAssumption ==
    /\ Value \subseteq Seq(Character) /\ Text \subseteq Seq(Character)
    /\ \A path \in DOMAIN File : File[path] \in Seq(Character)
    /\ kKeySize \in Nat \ {0} /\ SizeMax \in Nat
ASSUME RandomAssumption == RandomByte \subseteq Character /\ IntMax \in Nat \ {0}

VARIABLES
    pc,         \* "idle", "options", "run", "random", "done"
    command,
    argc,
    argv,       \* the pairs looked at so far
    options,    \* the value of each group of options, once it has one
    buffer,     \* random_bytes: zeros until they are filled
    filled,     \* bytes filled
    exit,       \* the exit code
    why,        \* what made a command fail
    result      \* the result, where it was read from and where it went

vars == <<pc, command, argc, argv, options, buffer, filled, exit, why, result>>

Standard == <<Minus>>       \* "-"
Pair(o, v) == [option |-> o, value |-> v]
Nothing == [from |-> "nothing", source |-> << >>, to |-> "nothing", path |-> << >>, bytes |-> << >>]

Init ==
    /\ pc = "idle" /\ command = "none" /\ argc = 1 /\ argv = << >>
    /\ options = << >> /\ buffer = << >> /\ filled = 0
    /\ exit = -1 /\ why = "none" /\ result = Nothing

-----------------------------------------------------------------------------
(* Which options belong to which command; those of a group exclude each other. *)

KeyOptions == {"--key-hex", "--key-file"}
WrappingOptions == {"--wrapping-key-hex", "--wrapping-key-file"}
PacketOptions == {"--packet-hex", "--packet-file"}
AadOptions == {"--aad-text", "--aad-hex"}

FileGroups == [input |-> {"--in"}, output |-> {"--out"}, key |-> KeyOptions, aad |-> AadOptions]
VerifyGroups == [input |-> {"--in"}, key |-> KeyOptions, aad |-> AadOptions]
WithPassword(groups) == [groups EXCEPT !.key = {"--password-file"}]
PacketGroups(inputs) ==
    [input |-> inputs, key |-> KeyOptions, aad |-> AadOptions, output |-> {"--out"}]

Groups(c) ==
    CASE c \in {"seal-file", "open-file"} -> FileGroups
      [] c = "verify-file" -> VerifyGroups
      [] c \in {"seal-file-password", "open-file-password"} -> WithPassword(FileGroups)
      [] c = "verify-file-password" -> WithPassword(VerifyGroups)
      [] c = "encrypt" -> PacketGroups({"--text", "--in"})
      [] c = "decrypt" -> PacketGroups(PacketOptions)
      [] c = "wrap-key" -> [key |-> KeyOptions, wrapping |-> WrappingOptions, output |-> {"--out"}]
      [] c = "unwrap-key" -> [input |-> PacketOptions, wrapping |-> WrappingOptions,
                              output |-> {"--out"}]

Verifying == {"verify-file", "verify-file-password"}
FileCommands == Verifying \cup {"seal-file", "open-file", "seal-file-password", "open-file-password"}
Parsed == FileCommands \cup {"encrypt", "decrypt", "wrap-key", "unwrap-key"}
Required(c) ==
    DOMAIN Groups(c) \ ({"aad"} \cup (IF c \in FileCommands THEN {} ELSE {"output"}))
MinArgc(c) == IF c \in FileCommands \ Verifying THEN 8 ELSE 6
GroupOf(c, o) == {g \in DOMAIN Groups(c) : o \in Groups(c)[g]}

\* The options tried on a command: its own, --out, and one for all the others.
Tried(c) == (UNION {Groups(c)[g] : g \in DOMAIN Groups(c)}) \cup {"--out", "--other"}

-----------------------------------------------------------------------------
(* Values. *)

read_file(path) == IF path \in DOMAIN File THEN Ok(File[path]) ELSE Refused

key_from_hex(text) ==
    IF Len(text) # 2 * kKeySize \/ \E i \in 1..Len(text) : text[i] \notin HexDigit THEN Refused
    ELSE hex_decode(text)

AsciiSpace == {32, 9, 10, 13, 12, 11}
trim_ascii_whitespace(text) ==
    LET solid == {i \in 1..Len(text) : text[i] \notin AsciiSpace} IN
    IF solid = {} THEN << >> ELSE SubSeq(text, Min(solid), Max(solid))

key_from_file(path) ==
    LET text == read_file(path) IN
    IF text.ok THEN key_from_hex(trim_ascii_whitespace(text.bytes)) ELSE Refused

password_from_file(path) ==
    IF read_file(path).bytes = << >> THEN Refused ELSE read_file(path)

ReadsFile(c, o) ==
    o \in {"--key-file", "--wrapping-key-file", "--packet-file", "--password-file", "--file"}
        \/ (c = "encrypt" /\ o = "--in")

parse_size(text) ==
    LET value[i \in 0..Len(text)] == IF i = 0 THEN 0 ELSE (value[i - 1] * 10) + (text[i] - 48) IN
    IF text # << >> /\ (\A i \in 1..Len(text) : text[i] \in Digit) /\ value[Len(text)] \in 1..SizeMax
    THEN Ok(<<value[Len(text)]>>) ELSE Refused

\* What an option makes of its value; a path or a text is taken as it is.
Convert(c, o, v) ==
    IF o \in {"--key-hex", "--wrapping-key-hex"} /\ c \in Parsed THEN key_from_hex(v)
    ELSE IF o \in {"--key-file", "--wrapping-key-file"} THEN key_from_file(v)
    ELSE IF o = "--password-file" THEN password_from_file(v)
    ELSE IF o \in {"--key-hex", "--salt-hex", "--info-hex", "--aad-hex", "--packet-hex"}
         THEN hex_decode(v)
    ELSE IF o = "--out-size" THEN parse_size(v)
    ELSE IF ReadsFile(c, o) THEN read_file(v)
    ELSE Ok(v)

-----------------------------------------------------------------------------
(* The end of run(). *)

Fail(reason) ==
    /\ pc' = "done" /\ exit' = 1 /\ why' = reason
    /\ UNCHANGED result
Succeed(r) ==
    /\ pc' = "done" /\ exit' = 0 /\ result' = r
    /\ UNCHANGED why

Printed(bytes) == [Nothing EXCEPT !.to = "stdout", !.bytes = bytes]
NewFile(path) == [Nothing EXCEPT !.to = "file", !.path = path]

\* A read, an allocation or OpenSSL fails: an exception that run() reports.
Throw == Fail("failure")

-----------------------------------------------------------------------------
(* The option parsers. *)

BeginOptions(c, n) ==
    /\ command' = c /\ argc' = n
    /\ IF n < MinArgc(c) \/ (n - 2) % 2 # 0 THEN Fail("refused")
       ELSE pc' = "options" /\ UNCHANGED <<exit, why, result>>
    /\ UNCHANGED <<argv, options, buffer, filled>>

\* reject_duplicate and the conflict checks: a group has a value already.
\* Mutant of AlreadyGiven: the flag is not looked at, and the later value replaces the first.
NeverGiven(g) == FALSE
AlreadyGiven(g) == g \in DOMAIN options
SetOption(g, bytes) ==
    options' = [h \in DOMAIN options \cup {g} |-> IF h = g THEN bytes ELSE options[h]]

ReadOption(o, v) ==
    /\ 2 * Len(argv) < argc - 2
    /\ argv' = Append(argv, Pair(o, v))
    /\ LET value == Convert(command, o, v) IN
       \/ /\ GroupOf(command, o) = {}
          /\ Fail("refused") /\ UNCHANGED options
       \/ \E g \in GroupOf(command, o) :
             \/ AlreadyGiven(g) /\ Fail("refused") /\ UNCHANGED options
             \/ ~AlreadyGiven(g) /\ ~value.ok /\ Fail("refused") /\ UNCHANGED options
             \/ ~AlreadyGiven(g) /\ ReadsFile(command, o) /\ Throw /\ UNCHANGED options
             \/ /\ ~AlreadyGiven(g) /\ value.ok
                /\ SetOption(g, value.bytes)
                /\ UNCHANGED <<pc, exit, why, result>>
    /\ UNCHANGED <<command, argc, buffer, filled>>

EndOptions ==
    /\ pc = "options" /\ 2 * Len(argv) = argc - 2
    /\ IF Required(command) \subseteq DOMAIN options
       THEN pc' = "run" /\ UNCHANGED <<exit, why, result>>
       ELSE Fail("refused")
    /\ UNCHANGED <<command, argc, argv, options, buffer, filled>>

-----------------------------------------------------------------------------
(* Running a command on its options. *)

InputIsStdin == options["input"] = Standard
OutputIsStdout == command \notin Verifying /\ options["output"] = Standard

\* Mutant of UsesStandardStream: only the input decides.
OnlyInputIsLookedAt == InputIsStdin
UsesStandardStream == InputIsStdin \/ OutputIsStdout

\* run_streaming_file_command and run_verify_file_command open what is not a standard stream.
FromInput(r) ==
    IF InputIsStdin THEN [r EXCEPT !.from = "stdin"]
    ELSE [r EXCEPT !.from = "file", !.source = options["input"]]
ToOutput == IF OutputIsStdout THEN Printed(<< >>) ELSE NewFile(options["output"])

\* The path overloads of the library know files only.
PathCall == [NewFile(options["output"]) EXCEPT !.from = "file", !.source = options["input"]]

FileRoute ==
    IF command \in Verifying THEN FromInput(Nothing)
    ELSE IF UsesStandardStream THEN FromInput(ToOutput) ELSE PathCall

\* A packet or a key goes to a new file or is printed.
PacketRoute ==
    IF "output" \in DOMAIN options THEN NewFile(options["output"]) ELSE Printed(<< >>)

RunCommand ==
    /\ pc = "run"
    /\ \/ Throw
       \/ command \in FileCommands /\ Succeed(FileRoute)
       \/ command \notin FileCommands /\ Succeed(PacketRoute)
    /\ UNCHANGED <<command, argc, argv, options, buffer, filled>>

-----------------------------------------------------------------------------
(* The commands whose arguments stand in fixed places. *)

Shapes(c) ==
    CASE c = "sha256" -> {<<"--text">>, <<"--file">>}
      [] c = "hmac-sha256" -> {<<"--key-hex", "--text">>, <<"--key-hex", "--file">>}
      [] c = "hkdf-sha256" -> {<<"--key-hex", "--salt-hex", i, "--out-size">> :
                                  i \in {"--info-hex", "--info-text"}}
      [] c = "keygen" -> {<<"--out">>}
      [] OTHER -> {<<"--text">>}

Hashing == {"sha256", "hmac-sha256", "hkdf-sha256"}
TextCommands == {"hex-encode", "hex-decode", "base64url-encode", "base64url-decode"}

\* The encoding and decoding functions, of the commands and of the library.
Codec(f, text) ==
    CASE f = "hex-encode" -> Ok(hex_encode(text))
      [] f = "hex-decode" -> hex_decode(text)
      [] f = "base64url-encode" -> Ok(base64url_encode(text))
      [] f = "base64url-decode" -> base64url_decode(text)
      [] f = "base64_encode" -> Ok(base64_encode(text))
      [] f = "base64_decode" -> base64_decode(text)

FixedArguments(c) ==
    UNION {{[i \in 1..Len(s) |-> Pair(s[i], v[i])] :
                v \in [1..Len(s) -> IF c \in TextCommands THEN Text ELSE Value]} :
           s \in Shapes(c) \cup {<< >>, <<"--other">>}}

RunFixed(c, args) ==
    LET values == [i \in 1..Len(args) |-> Convert(c, args[i].option, args[i].value)] IN
    /\ command' = c /\ argc' = 2 + (2 * Len(args)) /\ argv' = args
    /\ \/ /\ [i \in 1..Len(args) |-> args[i].option] \notin Shapes(c)
          /\ Fail("refused")
       \/ /\ [i \in 1..Len(args) |-> args[i].option] \in Shapes(c)
          /\ \/ (\E i \in 1..Len(args) : ~values[i].ok) /\ Fail("refused")
             \/ /\ \A i \in 1..Len(args) : values[i].ok
                /\ \/ c \in TextCommands /\ LET r == Codec(c, args[1].value) IN
                          IF r.ok THEN Succeed(Printed(r.bytes)) ELSE Fail("refused")
                   \/ c \in Hashing /\ (Succeed(Printed(<< >>)) \/ Throw)
                   \/ c = "keygen" /\ (Succeed(NewFile(args[1].value)) \/ Throw)
    /\ UNCHANGED <<options, buffer, filled>>

\* Another program calls the library.
CallBase64(f, text) ==
    /\ command' = f /\ argv' = <<Pair("operand", text)>>
    /\ LET r == Codec(f, text) IN IF r.ok THEN Succeed(Printed(r.bytes)) ELSE Fail("refused")
    /\ UNCHANGED <<argc, options, buffer, filled>>

\* help, version, their misuse and that of token, and what is no command at all.
Understood(c, n, topicIsKnown) ==
    \/ n = 1
    \/ n = 2 /\ c \in {"help", "--help", "version", "--version"}
    \/ n = 3 /\ c = "help" /\ topicIsKnown

Usage(c, n, topicIsKnown) ==
    /\ (n = 1 <=> c = "none") /\ (c = "token" => n # 3)
    /\ command' = c /\ argc' = n
    /\ IF Understood(c, n, topicIsKnown) THEN Succeed(Printed(<< >>)) ELSE Fail("refused")
    /\ UNCHANGED <<argv, options, buffer, filled>>

-----------------------------------------------------------------------------
(* token: random_token of a parsed size. *)

BeginToken(text) ==
    LET size == parse_size(text) IN
    /\ command' = "token" /\ argc' = 3 /\ argv' = <<Pair("operand", text)>>
    /\ \/ ~size.ok /\ Fail("refused") /\ UNCHANGED buffer
       \/ size.ok /\ Throw /\ UNCHANGED buffer
       \/ /\ size.ok
          /\ buffer' = [i \in 1..size.bytes[1] |-> 0]
          /\ pc' = "random"
          /\ UNCHANGED <<exit, why, result>>
    /\ UNCHANGED <<options, filled>>

\* RAND_bytes takes an int, so it is called for one piece after the other.
\* Mutant of FillAgain: once is enough.
FillOnce == filled = 0
FillAgain == filled < Len(buffer)

FillRandom ==
    LET chunk == Min({Len(buffer) - filled, IntMax}) IN
    /\ pc = "random" /\ FillAgain
    /\ \/ /\ \E r \in RandomByte :
                buffer' = [i \in 1..Len(buffer) |->
                              IF i \in (filled + 1)..(filled + chunk) THEN r ELSE buffer[i]]
          /\ filled' = filled + chunk
          /\ UNCHANGED <<pc, exit, why, result>>
       \/ Throw /\ UNCHANGED <<buffer, filled>>
    /\ UNCHANGED <<command, argc, argv, options>>

EndToken ==
    /\ pc = "random" /\ ~FillAgain
    /\ Succeed(Printed(base64url_encode(buffer)))
    /\ UNCHANGED <<command, argc, argv, options, buffer, filled>>

-----------------------------------------------------------------------------

Begin ==
    \/ \E c \in Parsed, n \in 2..(2 + (2 * MaxPairs)) : BeginOptions(c, n)
    \/ \E c \in Hashing \cup TextCommands \cup {"keygen"} : \E args \in FixedArguments(c) :
          RunFixed(c, args)
    \/ \E f \in {"base64_encode", "base64_decode"}, t \in Text : CallBase64(f, t)
    \/ \E c \in {"none", "help", "--help", "version", "--version", "token", "other"}, n \in 1..4,
          known \in BOOLEAN : Usage(c, n, known)
    \/ \E t \in Size : BeginToken(t)

Next ==
    \/ pc = "idle" /\ Begin
    \/ pc = "options" /\ \E o \in Tried(command), v \in Value : ReadOption(o, v)
    \/ EndOptions \/ RunCommand \/ FillRandom \/ EndToken

Spec == Init /\ [][Next]_vars

-----------------------------------------------------------------------------
(* Properties. *)

Given(os) == {argv[i].value : i \in {j \in 1..Len(argv) : argv[j].option \in os}}

\* A good value, said without the functions that read it.
Good(c, o, v) ==
    LET content == IF v \in DOMAIN File THEN File[v] ELSE << >>
        isKey(t) == Len(t) = 2 * kKeySize /\ CanonicalHex(t)
    IN
    /\ o \in {"--key-hex", "--wrapping-key-hex"} => isKey(v)
    /\ o \in {"--aad-hex", "--packet-hex"} => CanonicalHex(v)
    /\ o \in {"--key-file", "--wrapping-key-file"} =>
          \E i \in 1..Len(content), j \in 0..Len(content) :
              /\ isKey(SubSeq(content, i, j))
              /\ \A k \in (1..Len(content)) \ (i..j) : content[k] \in AsciiSpace
    /\ o = "--password-file" => content # << >>
    /\ ReadsFile(c, o) => v \in DOMAIN File

Compatible(c) ==
    /\ \A i \in 1..Len(argv) :
          GroupOf(c, argv[i].option) # {} /\ Good(c, argv[i].option, argv[i].value)
    /\ \A i, j \in 1..Len(argv) :
          i # j => GroupOf(c, argv[i].option) \cap GroupOf(c, argv[j].option) = {}

Complete(c) == \A g \in Required(c) : Given(Groups(c)[g]) # {}

\* "options may be supplied in any order, but each command must provide exactly one input
\* source and one key source" (docs/CLI.md:107-116): the parsers accept a command line if
\* and only if all of its options are known, compatible and good and none is missing, in
\* whatever order the has_ flags were set.
AcceptsExactlyWellFormed ==
    pc \in {"run", "done"} /\ command \in Parsed =>
        /\ pc = "run" \/ exit = 0 => Len(argv) = (argc - 2) \div 2 /\ Compatible(command) /\ Complete(command)
        /\ why = "refused" =>
              \/ argc % 2 # 0 \/ (argc - 2) \div 2 < Cardinality(Required(command))
              \/ ~Compatible(command)
              \/ Len(argv) = (argc - 2) \div 2 /\ ~Complete(command)

\* A file command reads and writes standard streams where "-" says so, each by itself, and
\* the named paths otherwise; a verifying command writes nothing; for every other command
\* "-" is a path and no --out is standard output (docs/CLI.md:86-104,111-118).
RoutedAsAsked ==
    exit = 0 /\ command \in Parsed =>
        LET in == Given({"--in"})  out == Given({"--out"}) IN
        /\ command \in FileCommands =>
              IF in = {Standard} THEN result.from = "stdin"
              ELSE result.from = "file" /\ in = {result.source}
        /\ result.to = IF command \in Verifying THEN "nothing"
                       ELSE IF out = {} \/ (command \in FileCommands /\ out = {Standard})
                       THEN "stdout" ELSE "file"
        /\ result.to = "file" => out = {result.path}

\* "Hex and Base64 decoders are strict only: malformed or non-canonical input raises
\* securekit::error" (README.md:536): the text of bytes is one of theirs, and a text is decoded if
\* and only if it is canonical, and to the bytes it denotes.
WellShaped == argc = 4 /\ argv[1].option = "--text"
CodecsStrict ==
    LET text == argv[1].value IN
    pc = "done" =>
        /\ command = "hex-decode" /\ WellShaped =>
              /\ exit = 0 <=> CanonicalHex(text)
              /\ exit = 0 => DenotesHex(text, result.bytes)
        /\ command = "hex-encode" /\ exit = 0 =>
              CanonicalHex(result.bytes) /\ DenotesHex(result.bytes, text)
        /\ command = "base64url-decode" /\ WellShaped =>
              /\ exit = 0 <=> CanonicalBase64Url(text)
              /\ exit = 0 => Denotes(text, result.bytes, Minus, Underscore)
        /\ command = "base64url-encode" /\ exit = 0 =>
              CanonicalBase64Url(result.bytes) /\ Denotes(result.bytes, text, Minus, Underscore)
        /\ command = "base64_decode" =>
              /\ exit = 0 <=> CanonicalBase64(text)
              /\ exit = 0 => Denotes(Unpadded(text), result.bytes, Plus, Slash)
        /\ command = "base64_encode" =>
              CanonicalBase64(result.bytes) /\ Denotes(Unpadded(result.bytes), text, Plus, Slash)

\* A token is as long as asked for, and every byte of it came from RAND_bytes, also when the
\* size is more than one call delivers.
TokenFullyRandom ==
    command = "token" /\ exit = 0 =>
        LET bytes == base64url_decode(result.bytes) IN
        /\ bytes.ok /\ parse_size(argv[1].value) = Ok(<<Len(bytes.bytes)>>)
        /\ \A i \in 1..Len(bytes.bytes) : bytes.bytes[i] \in RandomByte
=============================================================================

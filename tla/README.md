# A TLA+ model of securekit

securekit is a C++ library and command line tool over OpenSSL: authenticated
packets, packet streams, sealed files, key wrapping and text encodings. This
directory holds TLA+ modules for the parts that carry its own logic, the TLC
configurations that check them on small instances, and TLAPS proofs for every
instance. `PROJECT.json` maps every definition to the lines it models and lists
runs, mutants, hazards, findings and theorems.

## 1. Inventory

| part | source | state | operations | interacts with |
|---|---|---|---|---|
| path file APIs | `src/src/file.cpp` (path overloads), `src/src/file_io.cpp` | a temporary file per call, its buffered and synced bytes, the output directory | `seal_file`, `open_file`, `*_with_password`; exclusive open, write, flush, close, commit, clean-up | other calls and programs through the file system |
| sealed container | `file.cpp` (stream overloads), `file_crypto.cpp` | chunk index, position, cursor | header, record by record sealing and opening | OpenSSL, caller's streams |
| packet streams | `packet_stream.cpp`, `aead_internal.hpp` | phase, OpenSSL context, key, AAD | construct, move, `begin`, `update`, `finalize` | OpenSSL, the caller |
| one-shot packets, key wrap | `aead.cpp`, `key_wrap.cpp` | none | `encrypt`, `decrypt`, `wrap_key`, `unwrap_key` | packet streams, OpenSSL |
| command line output | `src/src/cli/commands.cpp` | its own temporary file, standard streams, exit code | one command per process | stream overloads, file system |
| command line options | `src/src/cli/commands.cpp` | the options set so far (`has_` flags and values) | dispatch, six option parsers, commands of a fixed shape | the functions that read files, codecs, the output part |
| codecs | `base64.cpp`, `hex.cpp` | none | encode, strict decode | command line |
| random bytes | `random.cpp` | a buffer filled piece by piece | `random_bytes`, `random_token`, `generate_key` | OpenSSL, command line |
| hash, HKDF, compare, wipe, error, version | remaining files of `src/src` | none | wrappers | all |

What is hard in it:

* The path APIs are run by several threads and processes on one directory. The
  refusal to overwrite is asked at the start and enforced at the commit; names
  may collide; every system call may fail; a process may be killed and power
  may be lost between any two steps.
* The container is read from an untrusted place: records may be cut, repeated,
  reordered, mixed and rewritten; the 32-bit index has a limit no test reaches.
* Packet streams are driven call by call by callers who may go on after an
  exception, move objects around, and retry.
* One-shot packets are cut open by lengths alone, before anything about them is
  authenticated.
* Options come in any order and number, while each parser keeps one flag per
  group of options; from two of these flags the tool chooses between two quite
  different ways to write a file.
* Decoders promise one text per value, which depends on the bits of the last
  digit; a random token of more than `INT_MAX` bytes needs more than one call.

The hazards, each at its line and with the properties that would notice it going
wrong, are in `PROJECT.json` under `hazards`.

## 2. Modules

### PathFile, AtomicPublish, PathFileProofs

`PathFile` has one record of program state per call (`pc`, `kind`, `target`,
`token`, `attempt`, `written`, `result`), per inode (`size`: units the kernel
has, `durable`: units the disk has) and per directory entry (`dir`, `tmp` and
their copies on disk `diskDir`, `diskTmp`). One action stands for one call into
the operating system:

| action | code |
|---|---|
| `Call`, `CallWithEmptyPassword` | entry points of `file.cpp`, `require_non_empty_password` |
| `EnsureOutputDoesNotExist` | `ensure_output_does_not_exist` |
| `MakeHeaderAndKey` | sealing: header and key before the temporary file |
| `OpenUniqueTempOutput` | one turn of `open_unique_temp_output`, `O_EXCL` and `fdopen` |
| `OpenInput`, `ReadHeader`, `WritePayload` | the body of the `try` block |
| `Flush`, `Close` | `OutputFile::flush` (with `fsync`/`FlushFileBuffers`), `OutputFile::close` |
| `Link`, `UnlinkTemp`, `FlushParentDirectory` | `commit_temp_file` on POSIX |
| `MoveFileNoReplace` | `commit_temp_file` on Windows |
| `CheckBeforeRename`, `Rename` | `commit_temp_file` elsewhere |
| `Cleanup` | the `catch (...)` handler: `discard`, `remove_quietly`, rethrow |
| `ForeignCreate`, `Kill`, `WriteBack*`, `PowerLoss` | the environment (external) |

Sealing and opening differ only in where the header is made; what is written is
a number of `Units`. Stdio may pass buffered units to the kernel at any write
and on the closing of a failed call. The kernel may write back data and entries
in any order; only `fsync`, `FlushFileBuffers` and a write-through move force
it. The ghost variable `leak` records why a call may leave its temporary file.

The 128-bit random token is taken never to hit a name that a still running call
has already given back (`FreshDraw`): after a failed directory sync the handler
removes the temporary path a second time, and nothing in the code would notice
if another call had created the same name in between. Collisions with names that
exist are modelled, since `O_EXCL` handles them.

`AtomicPublish` is what a caller relies on: a path goes from absent to one
complete file in a step, is never replaced, and what was acknowledged stays. The
`Abstract` instance in `PathFile` gives the refinement mapping; a half-written
file at an output path maps to a value `AtomicPublish` does not have.

### FileCrypto, SealStream, OpenStream, SealedFile, SealStreamProofs, SealedFileProofs

`FileCrypto` has the container's pieces: header, record header, nonce, chunk
AAD, key derivation and an ideal AES-256-GCM. The encryptions made so far are the variable `encs`, and
decryption succeeds exactly on one of them under the same key, nonce and
AAD. A container is a sequence of atoms (a header, a record header, one
ciphertext byte, a tag). The header fields the code fixes (version, algorithm,
chunk size, scrypt parameters) are one Boolean. The chunk size and the index
range are constants; the index is incremented modulo its range.

`SealStream` is the loop of `seal_stream_payload` for several files at a time,
`OpenStream` the loop of `open_file_payload` for one container. `SealedFile`
composes them with whoever holds the files in between and may splice, truncate,
repeat, mix and rewrite them; the type, the secret and the AAD the opening
caller passes are arbitrary. Salts are taken never to repeat (256 random bits);
nonce prefixes may.

### PacketStream, PacketStreamProofs

Each `impl` object is a record with its phase, key, AAD and context; `held` says
which variable owns it, and a defaulted move empties the source. Every OpenSSL
call may fail, and the state left behind is the one the code leaves: `begin`
that fails keeps the old or a half-made context, `update` that throws may or may
not have advanced it, `finalize` may fail on a context that is used up. Calls in
a wrong phase throw and change nothing. A nonce is taken never to repeat. The
decryptor is fed any piece, nonce and tag that encryptors produced.

### Packet, PacketProofs

`encrypt`, `decrypt`, `wrap_key` and `unwrap_key` are calls that make one
encryptor or decryptor of `PacketStream` and drive it: `Packet` holds an instance
`Object` of that module with the same variables, names an object after its call,
and its steps are `Object!EncBegin(c)`, `Object!EncUpdate(c, ...)` and so on,
together with what the one-shot function does before and after.

| action | code |
|---|---|
| `EncryptCall` ... `EncryptFinalize` | `encrypt`; `wrap_key` passes the key as plaintext |
| `DecryptCall` | `require_valid_packet`, the three spans, the decryptor |
| `DecryptBegin`, `DecryptUpdate`, `DecryptFinalize` | `decrypt` |
| `Unwrapped`, `Refuse` | the size check of `unwrap_key`; the rethrow |

A packet is a sequence of atoms, the tag two of them, so that a packet can be cut
and joined anywhere, also inside a tag, and the holder can spoil a header.
Packets put together this way are what decrypting calls are given, with any key
and associated data. Bytes out of place authenticate nowhere. `check_update_size`
has its limit as the constant `IntMax`. The objects live for one call and are
never moved, retried or shared; that is `PacketStream`'s matter.

### CliOutput, CliOutputProofs

The command line tool does not use `file_io.cpp` for what it writes itself: it
has its own temporary files, its own commit and its own clean-up, and no
`fsync`, so power losses are not part of this module. Each process runs one
command of one of five kinds: printing text, writing a new file
(`write_new_output_file`, keys and packets), streaming to a file or
to standard output (`run_streaming_file_command`), and verifying into a
discarding buffer (`run_verify_file_command`). Path-to-path file commands call
the library and are `PathFile`.

| action | code |
|---|---|
| `Start`, `StartFails` | dispatch in `run`, option parsing and decoding, whose outcome is the matter of `CliCommand` |
| `PrintResult` | `std::cout << ... << '\n'; return 0;` |
| `OpenCliInputFile`, `EnsureOutputFileDoesNotExist` | functions of the same names |
| `OpenCliOutputFile` | one turn of the loop: `exists`, then an open that truncates |
| `Work`, `Finish` | chunks through the stream buffer; close or flush, and their checks |
| `CreateHardLink`, `UnlinkTemp` | `commit_output_file` |
| `Handler` | the two `catch (...)` blocks and `fail` |
| `ForeignCreate`, `Kill` | the environment (external) |

`exists` and the open are two calls and the open is not exclusive. As in
`PathFile`, `FreshDraw` takes a random token never to hit a name that a running
process uses and that does not exist at the moment; existing names may be drawn.
`write_new_output_file` has no counterpart of `uses_temp_output`: when it runs
out of attempts its handler removes the last name it tried, whosever it is.
`OwnTempStays` therefore excuses it, and nothing else.

Although none of its code is shared with `file_io.cpp`, `CliOutput` implements
`AtomicPublish` as well. Exit code 0 maps to "ok"; exit code 1 maps to a result with
which that specification allows no output to be left, so the refinement says more
here than for the library, where a late `backend_failure` may leave one.

### CliCommand, Codecs, CliCommandProofs, CodecsProofs

`CliCommand` is one run of the tool up to the point where something is written:
which command, which options, which values, and where the result comes from and
goes to. How it gets there is `CliOutput` and `PathFile`.

| action | code |
|---|---|
| `BeginOptions` | the test of `argc` at the head of each `parse_*_options` |
| `ReadOption` | one turn of its loop: unknown, duplicate, conflicting, bad, a failing read, accepted |
| `EndOptions` | what is missing |
| `RunCommand` | the branch of `run` for the command; streams or path overload |
| `RunFixed`, `CallBase64` | hashes, codecs, `keygen`; the library's base64, which no command offers |
| `Usage` | `help`, `version`, their misuse, unknown commands |
| `BeginToken`, `FillRandom`, `EndToken` | `parse_size`, `random_bytes` piece by piece, `random_token` |

The six parsers differ in their groups of options (`Groups`), which of these are
required (`Required`) and the least `argc` (`MinArgc`); the loop is the same. A
parser looks at a pair only when it comes to it, so the pair is chosen at that
moment, which gives every command line in every order without enumerating them.
`--other` stands for every option that a command does not know. Values are
sequences of characters, as the parsers look into them; what the commands compute
on accepted keys, packets and files is left to the other modules.

`Codecs` has every function of `base64.cpp` and `hex.cpp` on sequences of numbers,
and beside them what the texts mean, said without them: the bits of the digits,
most significant first, are the bits of the bytes, and what is left over is zero
(`Denotes`, `CanonicalDigits`). The decoders work by groups of four and by encoding
the result again, the definitions by neither. The loops of the code push characters
or bytes group by group; `base64_encode` and `decoded_groups` say at each position
what its group puts there, and take the length from the number of groups, as
`encoded_groups` and `decoded_size` do in the code. What a failed decoder says is
its error only; messages are left out.

`MC*.tla` add the symmetry sets for TLC, and `MCCliCommand` the values and texts.

## 3. Runs

| run | instance | shows |
|---|---|---|
| `path_power` | POSIX, 2 calls, 1 output, 2 names, 2 units, 2 faults, 1 power loss | exclusion, clean-up, no mutual defeat, durability, completeness, refinement of `AtomicPublish` |
| `path_windows` | Windows, 3 calls, 1 output, 1 unit, 1 fault, 1 power loss | refinement of `AtomicPublish`, which includes durability |
| `path_other` | the third platform, 2 calls, 2 names, 2 faults | a reader sees complete files although outputs may be replaced; every call ends |
| `path_other_overwrites` | third platform, no faults | finding: an output is overwritten |
| `path_orphan` | POSIX, 1 fault | finding: a failing `fdopen` leaves a file |
| `seal_tamper` | 2 files of 3 chunks, 2 formats, any 2 edits | nothing but an intact file is accepted |
| `seal_limits` | lengths 0 to 5, chunk size 2, 2 indices, 2 secrets, 2 AADs, faults, 1 edit | nonces, limits, round trip, closed failure, no parts in another context |
| `packet_protocol` | 2 encryptors, 1 decryptor, 2 variables each, 2 bytes, 1 fault | ownership, verdicts, retries |
| `packet_calls` | 3 one-shot calls, 2 keys, 2 AADs, lengths 0, 2 and 3, 1 fault | only made packets open, they do open, errors tell little, keys have their size |
| `cli_race` | 3 processes, commands of every kind, 1 output, 2 names, 2 units, 2 faults | exit codes tell the truth, results are whole and never replaced, temporary files go, running out of names leaves the files of others alone, refinement of `AtomicPublish` |
| `cli_lost_text` | 1 text command, 1 fault | finding: a lost result with exit code 0 |
| `cli_command` | up to 5 pairs, 4 values, 2 files; all short texts; sizes to 7, 2 bytes per `RAND_bytes` | parsers accept exactly the well formed lines, results go where they were asked to, codecs are strict and right, tokens random |

Deadlock is not checked: every run ends when the calls have ended and the bounds
are used up.

Why the bounds are enough. Two calls suffice for every race on one path; the
three of `path_windows` and `cli_race` let a loser interfere with a winner and a
bystander. Two names with two attempts
reach a collision and the exhaustion of the retries. Two units make a half
written file possible. A fault may strike at every step; two of them let one
strike the handler of the other. Three chunks have a first, a middle and a last;
two splices compose to a move of a record. With two indices the limit is one
chunk away from the start, and lengths up to five go one chunk past it; in
`seal_tamper` a chunk is one byte, since only the order and number of the records
matter there. One-shot plaintexts are empty, of a key's size (2) or one byte
longer, which is also one past the limit of an update (`IntMax`). Three calls let
two packets be joined for a third. Five option pairs are one more than any command
can use; of the values one is a key, one the standard stream marker, one the name
of a file that holds a key between blanks and one the name of an empty file. Texts
have up to three characters from eight or more classes, and up to eight from those
that decide about padding and unused bits, which is two groups of four. With
`SizeMax` 7 and `IntMax` 2 a token takes up to four pieces, the last one short; zero
is not among the bytes drawn there, so that one left over from the buffer shows.

Fairness. Only `Terminates` uses it: weak fairness of the steps of each call that
has begun. It says that a system call returns and that the scheduler runs a
thread which is ready; a killed call is over. No fairness is put on faults or on
the environment. It is checked on the third platform, where the instance is
small enough; the retry loop, the `try` block and the handler are the same
everywhere, and no branch of the commit has a loop.

### Findings

* On a platform that is neither Windows nor UNIX, `commit_temp_file` checks and
  then renames, and `std::filesystem::rename` replaces: of two racing calls both
  return success and one output is lost (`path_other_overwrites`).
* `try_open_output_exclusive` leaves the file it created when `fdopen` fails; the
  caller's handler is not yet in force (`path_orphan`). `TempAccounted` excuses
  exactly this case and a removal that fails, and holds otherwise.
* `docs/CLI.md:133-134` says successful text commands write their result. They
  return 0 without looking at `std::cout`; a full or closed standard output loses
  the result silently (`cli_lost_text`). The streaming commands do check.

## 4. Proofs

All theorems hold for every value of the constants that the named `ASSUME`s of
the modules allow: any numbers of calls, files, processes, options, names and
faults, where the runs have two or three.

| module | theorem | says, of every reachable state or step |
|---|---|---|
| `PathFileProofs` | `TypeCorrect`, `TempStaysOwnCorrect` | types; a temporary path names its call's own file until the commit |
| | `OutputCompleteCorrect`, `SuccessKeptCorrect`, `RejectedLeavesNoOutputCorrect`, `NeverOverwrittenCorrect` | on POSIX and Windows: outputs are complete, kept, absent after a refusal, never replaced |
| | `TempAccountedCorrect`, `SomeoneWinsCorrect` | on all platforms: no temporary file is left without a reason; racing calls do not all defeat each other |
| | `PublishesAtomicallyCorrect` | on POSIX and Windows `PathFile` implements `AtomicPublish` |
| `SealedFileProofs` | `FileTypeCorrect`, `NonceNeverReusedCorrect` | types; no key encrypts two chunks under one nonce |
| | `AcceptsOnlySealedCorrect`, `OutputIsPrefixCorrect`, `LastChunkNeedsEndCorrect` | a container that was cut, mixed or rewritten is not accepted, and what it releases before that is a beginning of one plaintext |
| | `SealedOpensCorrect`, `WrongSecretFailsClosedCorrect` | an intact container opens with its secret and AAD, and with no other |
| `PacketStreamProofs` | `PacketTypeCorrect`, `SingleOwnerCorrect`, `FinishedIsFinalCorrect` | phases and contexts agree; one owner per stream; a finished object never changes |
| | `VerdictSoundCorrect`, `PacketVerifiesCorrect` | `finalize` accepts the whole of one stream and nothing else |
| `PacketProofs` | `OpensOnlyMadeCorrect`, `IntactOpensCorrect` | what one-shot calls returned opens again, and nothing else does |
| | `FailureTellsLittleCorrect`, `UnwrapsKeysCorrect` | the error reveals no more than the shape; keys have their size |
| `CliOutputProofs` | `CliTypeCorrect`, `WholeResultCorrect`, `NeverReplacedCorrect` | types; outputs are whole and never replaced |
| | `ExitCodeTellsCorrect`, `NoTempLeftCorrect`, `OwnTempStaysCorrect` | exit codes tell the truth; temporary files go, and only their owner takes them |
| | `CliPublishesAtomically` | `CliOutput` implements `AtomicPublish` |
| `CliCommandProofs` | `AcceptsExactlyWellFormedCorrect`, `RoutedAsAskedCorrect` | parsers accept exactly the well formed lines; results go where they were asked to |
| | `CodecsStrictCorrect`, `TokenFullyRandomCorrect` | every encoding and decoding call is strict and right; every byte of a token was drawn |
| `CodecsProofs` | `EncodeIsStrict`, `DecodeIsStrict`, `UrlEncodeIsStrict`, `UrlDecodeIsStrict`, `HexEncodeIsStrict`, `HexDecodeIsStrict` | of the functions themselves: texts are canonical and have the bits of the bytes; decoders accept the canonical texts and no others, of any length |
| | `RoundTrips` | decoding undoes encoding |

Two hypotheses go beyond the `ASSUME`s. `Platform # "other"`
stands where the commit has to refuse an existing output; TLC refutes
`NeverOverwritten` on the third platform (`path_other_overwrites`), so it cannot
be dropped. `ObjectsDistinct` (`PacketStreamProofs`) says that encryptors and
decryptors are different objects and variables, as their C++ types make them.
`Packet` names both of them after the call, so its proofs do not use that module;
they are about calls that own their object alone.

The `ASSUME`s are: known platforms, commands and formats; positive chunk size,
key size, units and attempts; bounds that are natural numbers; option values, texts
and files that are sequences of characters; random bytes that are bytes; and that
the markers for "none" are none of the values they stand beside (an OpenSSL
context, a tag, a byte, a result). TLC evaluates each of them in its runs.

### The inductive invariants

Hardly any property in the table is inductive by itself. What makes it so:

* **`PathFile`**, two layers. `Base`: what a call knows at each step
  (`CallKnown`); counters that match the step (`Progress`); units move from
  buffer to kernel to disk (`Layered`), all of them on disk from `close` on
  (`Flushed`); the temporary name is the call's own until it is given back, and
  then names nothing (`TempsOwned`, which needs `FreshDraw` and the exclusive
  open); which platform has which step (`PlatformSteps`). `Publication`,
  preserved given `Base`: no error is in flight outside the handler (`InFlight`);
  a published file is durable and of a call past its commit (`Published`); the
  disk's directory is the kernel's or lacks an entry, never another one
  (`DiskBehind`, which carries `Published` over a power loss); between link and
  directory sync the output is the call's, and after success it is on disk
  (`Acknowledged`). `TempsLeft` and `Contest` are further layers on `Base` for
  `TempAccounted` (why a file is still there) and `SomeoneWins` (who stands at a
  path that turned a call away).
* **Refinement of `AtomicPublish`**, `StepRefines`, takes the actions one by one.
  `VisibleIsDir` shows that with an exclusive commit the mapping hides nothing, as no file at an output is
  short; `link` and `MoveFileExW` then publish, the end of a call acknowledges or
  refuses, a power loss removes what was not acknowledged, the rest stutters. The
  lemma of the same name in `CliOutputProofs` does this for the command line, from
  `CliInv` alone.
* **Sealing**, `SealInv`: two files never share a salt (`Headers`); between two
  chunks the position is where the index says and no earlier chunk was final
  (`AtChunk`); every encryption made is that of a chunk its file has come past
  (`Encrypted`). The increment of the index wraps; `AtChunk` and `Encrypted`
  together show that a call has returned before a wrapped index would repeat a
  nonce. `Layout` adds that a complete container consists of its records, in
  order, up to the final one, and that a tag is in it only with its record.
* **Opening**, `FileInv`: nobody makes up a tag (`KnownAtoms`); between two
  records the container has been one sealed file up to the cursor, and the output
  is the beginning of its plaintext (`AtRecord`); on return the
  output is a beginning, and all of a plaintext only from its own container
  (`Released`). The step is `RecordTells` and its companions: an authentic record
  at index k under this key is record k of that file. `Intact` and `WithinText`
  turn this round for containers that nobody touched.
* **`PacketStream`**, `PacketInv`: what a context has processed is what the
  caller gave and got (`EncSound`, `DecSound`), unless an update threw; a
  variable owns an object that was made, alone (`Owners`).
* **`Packet`**, `CallsInv`: at each step of a call what its object has processed
  follows from the input (`EncAt`, `DecAt`); a packet in a caller's hands has only
  nonces, bytes of ciphertext and tags that calls produced (`KnownPacket`); a
  nonce belongs to one call (`Nonces`). That two packets joined anywhere open only
  as one of them rests on the lemmas about their layout.
* **`CliOutput`**, `CliInv`: what a command knows (`CmdKnown`), counters
  (`CmdProgress`), whose a temporary file is (`CmdTemps`, with the exception for
  `write_new_output_file` out of names), what stands at an output (`CmdOutputs`).
* **`CliCommand`**, `LineInv`: the options set are those of the pairs looked at,
  each with what was made of the one value given for it (`Settled`); a parser
  that refused had a reason (`Refusable`). Under it lie the lemmas on the values:
  `ConvertAccepts` shows of each reader, `hex_decode`, `key_from_hex` and the
  trimming of key files among them, that it accepts what `Good` says without it,
  for texts of any length.
* **`CliCommand`**, `CallInv`, is a second invariant, about the commands without a
  parser: a call that has ended answered what its function makes of the text
  (`Computed`); while a token is made, its buffer has the size that was parsed, and
  the bytes before `filled` are drawn (`Drawn`), a piece being at least one byte and
  never more than is missing.
* **`CodecsProofs`** has no state. Everything comes down to one position of a group
  of 24 bits: `SextetBits` (a digit's bits are six of the bits of its three bytes)
  and `OctetsRead` for the way back. Encoding: `EncodedDenotes` for the bits,
  `UnpaddedIs` and `PaddedIs` for the padding. Decoding: `RejectsOthers` and
  `CanonicalIsShaped` show that the checks of characters and padding leave texts of
  the right shape; `EncodesAgain` and `CanonicalHasUnusedZero` that a shaped text
  encodes to itself again exactly when its unused bits are zero, which is what the
  test at the end of `base64_decode` is for. Base64URL is carried over character by
  character (`PaddedShape`, `SameMeaning`). `BytesFromBits` gives the round trips.

### Only model-checked

* `Terminates`: liveness is out of the prover's reach. It is the only property of a
  passing run without a theorem.

What the definitions of `Codecs` themselves say about the loops of the C++ code, that
the position-wise form is what the loop produces, is a reading of the source and not
a theorem.

## 5. Not modelled

Hashing, HMAC and HKDF (wrappers, injective in `FileCrypto`); constant-time
comparison and wiping (timing and memory contents are not state of the API);
errors and version (the error codes appear as results); usage texts; build,
packaging, tests and fuzzing. `generate_key` is one call of OpenSSL and appears
only as a step of `keygen` that may fail. Failing memory allocation is a fault in
`CliCommand` only. Symbolic links, permissions and several mounts are not part of
the modelled file system. A decoder's input is bounded in length by what memory
holds, so the overflow checks for sizes near `SIZE_MAX` are not modelled.

## 6. Plan

1. Done: PathFile with its abstraction and proofs, the sealed container, packet
   streams and the one-shot calls made of them, the command line's options and
   output, codecs and random bytes.
2. Done: proofs of every invariant and action property of the runs, of both
   refinements of `AtomicPublish`, and of the codecs for all lengths.
3. Possible next: the keys and nonces of `generate_key` as part of `Packet`'s calls;
   a specification of the container's reader and writer that leaves out records.

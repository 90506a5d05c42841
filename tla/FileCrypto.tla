----------------------------- MODULE FileCrypto -----------------------------
(***************************************************************************)
(* The SKF1/SKP1 container as src/src/file_crypto.cpp builds and parses it *)
(* and the AES-256-GCM it is built on.                                     *)
(*                                                                         *)
(* A container is a sequence of atoms: a file header, and per record a     *)
(* record header, one atom per byte of ciphertext and a tag.  A byte       *)
(* string that is none of these is the atom Junk.  OpenSSL is external and *)
(* ideal: decryption succeeds exactly on what was encrypted under the same *)
(* key, nonce and associated data, and distinct inputs give distinct keys. *)
(***************************************************************************)
EXTENDS Naturals, Sequences

CONSTANTS
    kChunkSize,     \* bytes per chunk (scaled down)
    MaxIndex,       \* largest chunk index, 2^32 - 1 in the code (scaled down)
    Format,         \* container formats in use
    Secret,         \* raw keys and non-empty passwords
    CallerAad,      \* associated data callers may pass
    Salt,           \* random salts
    NoncePrefix     \* random nonce prefixes

ASSUME FormatAssumption == Format \subseteq {"SKF1", "SKP1"} /\ Format # {}
ASSUME ChunkAssumption == kChunkSize \in Nat \ {0}
ASSUME IndexAssumption == MaxIndex \in Nat

VARIABLE
    encs            \* the encryptions performed so far: [id, key, nonce, aad, pt]

kNotFinal == 0
kFinal == 1

-----------------------------------------------------------------------------
(* Headers.  "fixed" stands for version, cipher, KDF, flags, chunk size and   *)
(* scrypt parameters: the code writes and accepts one combination of them.    *)

MakeHeader(format, salt, prefix) ==
    [format |-> format, fixed |-> TRUE, salt |-> salt, prefix |-> prefix]

\* The values a header may have.
FileHeaders ==
    [format : {"SKF1", "SKP1"}, fixed : BOOLEAN, salt : Salt, prefix : NoncePrefix]

ParsesAs(header, format) == header.format = format /\ header.fixed

\* HKDF-SHA256 of a raw key, scrypt of a password; both salted.
DeriveKey(secret, header) == <<header.format, secret, header.salt>>

-----------------------------------------------------------------------------
(* Records. *)

MakeNonce(prefix, index) == <<prefix, index>>

\* ++chunk_index and ++expected_index on a uint32_t.
\* Mutant of NextIndex: a wider integer.
NextIndexWide(index) == index + 1
NextIndex(index) == (index + 1) % (MaxIndex + 1)

MakeRecordHeader(index, size, flag) == [index |-> index, size |-> size, flag |-> flag]

RecordHeaderValid(record) == record.flag \in {kNotFinal, kFinal} /\ record.size <= kChunkSize

\* Mutant of MakeChunkAad: the caller's data is not bound.
ChunkAadWithoutCaller(header, record, aad) == <<header, record>>
MakeChunkAad(header, record, aad) == <<header, record, aad>>

-----------------------------------------------------------------------------
(* Atoms of a container. *)

HeaderAtom(header) == [k |-> "header", header |-> header]
RecordAtom(record) == [k |-> "record", record |-> record]
CipherAtom(id, i) == [k |-> "cipher", id |-> id, i |-> i]
TagAtom(id) == [k |-> "tag", id |-> id]
Junk == [k |-> "junk"]

\* encrypt_chunk: the ciphertext has the length of the plaintext.
Ciphertext(id, n) == [i \in 1..n |-> CipherAtom(id, i)]

\* decrypt_chunk: the encryption that a ciphertext and tag verify as, if any.
Verifies(ciphertext, tag, key, nonce, aad) ==
    {e \in encs : /\ e.key = key /\ e.nonce = nonce /\ e.aad = aad
                  /\ tag = TagAtom(e.id)
                  /\ ciphertext = Ciphertext(e.id, Len(e.pt))}
=============================================================================

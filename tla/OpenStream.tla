----------------------------- MODULE OpenStream -----------------------------
(***************************************************************************)
(* open_file and open_file_with_password over streams (src/src/file.cpp):  *)
(* parse the header, derive the key, then check, authenticate and write    *)
(* one record after another until the final one.  The container is what    *)
(* the caller supplies and may be anything.                                *)
(***************************************************************************)
EXTENDS FileCrypto

CONSTANTS
    MaxOpenFaults,  \* bound: failing reads, writes and OpenSSL calls
    NoOutcome       \* the call has not returned

ASSUME OpenFaultsAssumption == MaxOpenFaults \in Nat
ASSUME NoOutcomeAssumption == NoOutcome # "ok"

VARIABLES
    openPc,         \* "idle", "header", "record", "done"
    asked,          \* what the caller passed: format (which API), secret, aad
    container,      \* the input
    cursor,         \* atoms of the input read
    expectedIndex,  \* expected_index
    opened,         \* plaintext accepted by the output stream
    openResult,
    openFaults

openVars == <<openPc, asked, container, cursor, expectedIndex, opened, openResult, openFaults>>

OpenInit ==
    /\ openPc = "idle"
    /\ asked = [format |-> NoOutcome, secret |-> NoOutcome, aad |-> NoOutcome]
    /\ container = << >>
    /\ cursor = 0
    /\ expectedIndex = 0
    /\ opened = << >>
    /\ openResult = NoOutcome
    /\ openFaults = 0

OpenFault == openFaults < MaxOpenFaults /\ openFaults' = openFaults + 1
OpenReturn(r) == openPc' = "done" /\ openResult' = r

\* read_exact: n atoms are left.
Available(n) == cursor + n <= Len(container)
Ahead(i) == container[cursor + i]

-----------------------------------------------------------------------------

\* A caller opens a container c.
OpenBegin(c) ==
    /\ openPc = "idle"
    /\ \E m \in Format, s \in Secret, a \in CallerAad :
          asked' = [format |-> m, secret |-> s, aad |-> a]
    /\ container' = c
    /\ openPc' = "header"
    /\ UNCHANGED <<encs, cursor, expectedIndex, opened, openResult, openFaults>>

\* require_non_empty_password rejects an empty password before reading.
OpenWithEmptyPassword ==
    /\ openPc = "idle"
    /\ OpenReturn("invalid_input")
    /\ UNCHANGED <<encs, asked, container, cursor, expectedIndex, opened, openFaults>>

HeaderAccepted ==
    /\ Available(1)
    /\ Ahead(1).k = "header"
    /\ ParsesAs(Ahead(1).header, asked.format)

\* read_exact of the header, parse_header or parse_password_header, key derivation.
OpenHeader ==
    /\ openPc = "header"
    /\ \/ /\ HeaderAccepted
          /\ cursor' = cursor + 1
          /\ openPc' = "record"
          /\ UNCHANGED <<openResult, openFaults>>
       \/ /\ ~HeaderAccepted
          /\ OpenReturn("invalid_packet")
          /\ UNCHANGED <<cursor, openFaults>>
       \/ OpenFault /\ OpenReturn("backend_failure") /\ UNCHANGED cursor
    /\ UNCHANGED <<encs, asked, container, expectedIndex, opened>>

-----------------------------------------------------------------------------
(* One record. *)

Record == Ahead(1).record
RecordCiphertext == [i \in 1..Record.size |-> Ahead(1 + i)]
RecordTag == Ahead(2 + Record.size)
RecordLength == 2 + Record.size

\* Mutant of InSequence: the index of a record is not compared.
InAnyOrder == TRUE
InSequence == Record.index = expectedIndex

\* reject_trailing_data, asked before a final chunk is decrypted.
\* Mutant of NothingTrails: the final record ends the file, whatever follows.
AnythingTrails == TRUE
NothingTrails == Record.flag = kFinal => cursor + RecordLength = Len(container)

\* saw_final.
\* Mutant of SawFinal: the end of the input ends the file as well.
FinalOrEof == Record.flag = kFinal \/ cursor + RecordLength = Len(container)
SawFinal == Record.flag = kFinal

\* Everything that is checked before decryption.
WellFormed ==
    /\ Available(1)
    /\ Ahead(1).k = "record"
    /\ RecordHeaderValid(Record)
    /\ InSequence
    /\ Record.flag = kNotFinal => Record.size = kChunkSize
    /\ Available(RecordLength)
    /\ NothingTrails

FileHeader == container[1].header

\* The plaintexts the record authenticates as: none or one.
Authentic ==
    {e.pt : e \in Verifies(RecordCiphertext, RecordTag,
                           DeriveKey(asked.secret, FileHeader),
                           MakeNonce(FileHeader.prefix, Record.index),
                           MakeChunkAad(container[1], Record, asked.aad))}

\* The last index must be final.
\* Mutant of OpenTooLong: it may not be used at all.
OpenOneTooFew == expectedIndex = MaxIndex
OpenTooLong == expectedIndex = MaxIndex /\ Record.flag # kFinal

\* A record that is authentic is written; the loop ends after the final one.
OpenRecord ==
    /\ openPc = "record" /\ WellFormed
    /\ \E pt \in Authentic : opened' = opened \o pt
    /\ cursor' = cursor + RecordLength
    /\ expectedIndex' = IF OpenTooLong THEN expectedIndex
                        ELSE NextIndex(expectedIndex)
    /\ IF OpenTooLong THEN OpenReturn("invalid_packet")
       ELSE IF SawFinal THEN OpenReturn("ok")
       ELSE UNCHANGED <<openPc, openResult>>
    /\ UNCHANGED <<encs, asked, container, openFaults>>

\* A malformed record ends the call before anything is decrypted, a forged one
\* before anything is written.
OpenRejects ==
    /\ openPc = "record"
    /\ \/ ~WellFormed /\ OpenReturn("invalid_packet")
       \/ WellFormed /\ Authentic = {} /\ OpenReturn("authentication_failed")
    /\ UNCHANGED <<encs, asked, container, cursor, expectedIndex, opened, openFaults>>

\* A read or OpenSSL fails before the write.
OpenFails ==
    /\ openPc = "record"
    /\ OpenFault
    /\ OpenReturn("backend_failure")
    /\ UNCHANGED <<encs, asked, container, cursor, expectedIndex, opened>>

\* The stream takes only part of the chunk.
OpenWriteFails ==
    /\ openPc = "record" /\ WellFormed
    /\ OpenFault
    /\ \E pt \in Authentic : \E n \in 0..Len(pt) : opened' = opened \o SubSeq(pt, 1, n)
    /\ OpenReturn("backend_failure")
    /\ UNCHANGED <<encs, asked, container, cursor, expectedIndex>>

OpenStep == OpenHeader \/ OpenRecord \/ OpenRejects \/ OpenFails \/ OpenWriteFails
=============================================================================

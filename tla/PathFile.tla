------------------------------ MODULE PathFile ------------------------------
(***************************************************************************)
(* The path overloads of seal_file, open_file, seal_file_with_password and *)
(* open_file_with_password (src/src/file.cpp) over the file output layer   *)
(* (src/src/file_io.cpp): the refusal to overwrite, the exclusively        *)
(* created temporary file, the flush, the commit and the clean-up.         *)
(*                                                                         *)
(* Several calls run concurrently, each in its own thread or process.      *)
(* Every system call may fail, any caller may be killed between two steps, *)
(* another program may create the output, and the power may be lost.  What *)
(* is sealed or opened is abstracted to a number of units of output; the   *)
(* module SealedFile models the payload itself.                            *)
(***************************************************************************)
EXTENDS Naturals

CONSTANTS
    Op,             \* calls of a path API; a call also names the inode of the file it creates
    Output,         \* output paths
    Token,          \* values of the random token in a temporary name
    Foreign,        \* the inode of a file some other program creates
    NoFile,         \* no directory entry
    None,           \* a field not yet set
    kMaxAttempts,   \* attempts of open_unique_temp_output
    Units,          \* units of output a complete payload writes
    Platform,       \* which branch of commit_temp_file was compiled
    MaxFaults,      \* bound: failing calls, bad inputs, kills and foreign files
    MaxLosses       \* bound: power losses

ASSUME PlatformAssumption == Platform \in {"posix", "windows", "other"}
ASSUME AttemptsAssumption == kMaxAttempts \in Nat \ {0}
ASSUME UnitsAssumption == Units \in Nat \ {0}
ASSUME BoundsAssumption == MaxFaults \in Nat /\ MaxLosses \in Nat
ASSUME InodeAssumption == /\ Foreign \notin Op /\ NoFile \notin Op /\ Foreign # NoFile
                          /\ None \notin Output /\ None \notin Token

VARIABLES
    pc,         \* the step each call is about to make
    kind,       \* "seal" or "open"
    target,     \* the output path of the call
    token,      \* the token of the temporary file the call created
    attempt,    \* names found taken in open_unique_temp_output
    written,    \* units handed to fwrite
    size,       \* units of the call's inode the kernel holds
    durable,    \* units of the call's inode the disk holds
    result,     \* the outcome returned, or the error in flight
    leak,       \* ghost: why the call may leave its temporary name behind
    dir,        \* the inode each output path names
    tmp,        \* the inode each temporary path names
    diskDir,    \* dir as the disk has it
    diskTmp,    \* tmp as the disk has it
    faults,     \* adverse events so far
    losses      \* power losses so far

callVars == <<kind, target, token, attempt, written, result, leak>>
inodeVars == <<size, durable>>
dirVars == <<dir, tmp, diskDir, diskTmp>>
envVars == <<faults, losses>>
vars == <<pc, callVars, inodeVars, dirVars, envVars>>

Inode == Op \cup {Foreign, NoFile}
Error == {"invalid_input", "invalid_packet", "authentication_failed", "backend_failure"}
ASSUME NoneAssumption == None \notin Error \cup {"ok", "remove", "fdopen"}

Step == {"ensure", "prepare", "temp", "input", "header", "payload", "flush", "close",
         "commit", "unlink", "syncdir", "rename", "cleanup"}
Running(p) == pc[p] \in Step

TypeOK ==
    /\ pc \in [Op -> Step \cup {"idle", "done", "crashed"}]
    /\ kind \in [Op -> {"seal", "open"}]
    /\ target \in [Op -> Output \cup {None}]
    /\ token \in [Op -> Token \cup {None}]
    /\ attempt \in [Op -> 0..kMaxAttempts]
    /\ written \in [Op -> 0..Units]
    /\ size \in [Op -> 0..Units]
    /\ durable \in [Op -> 0..Units]
    /\ result \in [Op -> Error \cup {None, "ok"}]
    /\ leak \in [Op -> {None, "remove", "fdopen"}]
    /\ dir \in [Output -> Inode]
    /\ tmp \in [Output \X Token -> Inode]
    /\ diskDir \in [Output -> Inode]
    /\ diskTmp \in [Output \X Token -> Inode]
    /\ faults \in 0..MaxFaults
    /\ losses \in 0..MaxLosses

Init ==
    /\ pc = [p \in Op |-> "idle"]
    /\ kind = [p \in Op |-> "seal"]
    /\ target = [p \in Op |-> None]
    /\ token = [p \in Op |-> None]
    /\ attempt = [p \in Op |-> 0]
    /\ written = [p \in Op |-> 0]
    /\ size = [p \in Op |-> 0]
    /\ durable = [p \in Op |-> 0]
    /\ result = [p \in Op |-> None]
    /\ leak = [p \in Op |-> None]
    /\ dir = [o \in Output |-> NoFile]
    /\ tmp = [n \in Output \X Token |-> NoFile]
    /\ diskDir = dir
    /\ diskTmp = tmp
    /\ faults = 0
    /\ losses = 0

-----------------------------------------------------------------------------
(* Control: a call moves on, returns, throws to its caller, or throws inside *)
(* the try block whose handler discards and removes the temporary file.      *)

Goto(p, step) == pc' = [pc EXCEPT ![p] = step]
Return(p, r) == Goto(p, "done") /\ result' = [result EXCEPT ![p] = r]

\* Mutants of ThrowInTry: the handler is missing; the failed step is tried again.
ThrowWithoutHandler(p, e) == Return(p, e)
TryAgain(p, e) == UNCHANGED <<pc, result>>
ThrowInTry(p, e) == Goto(p, "cleanup") /\ result' = [result EXCEPT ![p] = e]

\* Something adverse happens; the bound keeps the instance finite.
Fault == faults < MaxFaults /\ faults' = faults + 1

Temp(p) == <<target[p], token[p]>>

-----------------------------------------------------------------------------
(* The entry points up to the temporary file. *)

\* A caller invokes one of the path APIs.
Call(p) ==
    /\ pc[p] = "idle"
    /\ \E k \in {"seal", "open"}, o \in Output :
          /\ kind' = [kind EXCEPT ![p] = k]
          /\ target' = [target EXCEPT ![p] = o]
    /\ Goto(p, "ensure")
    /\ UNCHANGED <<token, attempt, written, result, leak, inodeVars, dirVars, envVars>>

\* require_non_empty_password throws before anything is touched.
CallWithEmptyPassword(p) ==
    /\ pc[p] = "idle"
    /\ Fault
    /\ Return(p, "invalid_input")
    /\ UNCHANGED <<kind, target, token, attempt, written, leak, inodeVars, dirVars, losses>>

\* ensure_output_does_not_exist; sealing then makes its header and key.
EnsureOutputDoesNotExist(p) ==
    /\ pc[p] = "ensure"
    /\ \/ /\ dir[target[p]] # NoFile
          /\ Return(p, "invalid_input")
          /\ UNCHANGED faults
       \/ /\ dir[target[p]] = NoFile
          /\ Goto(p, IF kind[p] = "seal" THEN "prepare" ELSE "temp")
          /\ UNCHANGED <<result, faults>>
       \/ Fault /\ Return(p, "backend_failure")
    /\ UNCHANGED <<kind, target, token, attempt, written, leak, inodeVars, dirVars, losses>>

\* make_header or make_password_header, then the key derivation.
MakeHeaderAndKey(p) ==
    /\ pc[p] = "prepare"
    /\ \/ Goto(p, "temp") /\ UNCHANGED <<result, faults>>
       \/ Fault /\ Return(p, "backend_failure")
    /\ UNCHANGED <<kind, target, token, attempt, written, leak, inodeVars, dirVars, losses>>

\* The random token of make_unique_temp_path may hit an existing name, which
\* O_EXCL detects; it is taken never to hit a name that a call still running
\* has given back, because nothing in the code would detect that.
FreshDraw(p, t) ==
    \A q \in Op : Running(q) /\ Temp(q) = <<target[p], t>> => tmp[Temp(q)] = q

\* O_EXCL: the open creates the file or fails because the name exists.
\* Mutant of NameIsFree: O_TRUNC instead of O_EXCL.
NameIsTruncated(p, t) == TRUE
NameIsFree(p, t) == tmp[<<target[p], t>>] = NoFile

\* The loop header of open_unique_temp_output.
\* Mutant of MayRetry: one attempt too many.
RetryOnceMore(p) == attempt[p] < kMaxAttempts
MayRetry(p) == attempt[p] + 1 < kMaxAttempts
CountAttempt(p) == attempt' = [attempt EXCEPT ![p] = @ + 1]

\* The name is ours: a stream is put on the descriptor, or fdopen fails, and then the
\* descriptor is closed but the name stays.
CreateTemp(p, t) ==
    /\ tmp' = [tmp EXCEPT ![<<target[p], t>>] = p]
    /\ token' = [token EXCEPT ![p] = t]
    /\ \/ Goto(p, "input") /\ UNCHANGED <<result, leak, faults>>
       \/ Fault /\ Return(p, "backend_failure") /\ leak' = [leak EXCEPT ![p] = "fdopen"]
    /\ UNCHANGED attempt

\* The name is taken: draw again, up to kMaxAttempts names.
TryAnotherName(p) ==
    /\ CountAttempt(p)
    /\ IF MayRetry(p) THEN UNCHANGED <<pc, result>> ELSE Return(p, "backend_failure")
    /\ UNCHANGED <<tmp, token, leak, faults>>

\* One attempt of open_unique_temp_output: draw a name, open it O_CREAT|O_EXCL.
OpenUniqueTempOutput(p) ==
    /\ pc[p] = "temp"
    /\ \/ \E t \in Token : FreshDraw(p, t) /\ NameIsFree(p, t) /\ CreateTemp(p, t)
       \/ \E t \in Token : FreshDraw(p, t) /\ ~NameIsFree(p, t) /\ TryAnotherName(p)
       \/ Fault /\ Return(p, "backend_failure") /\ UNCHANGED <<tmp, token, attempt, leak>>
    /\ UNCHANGED <<kind, target, written, inodeVars, dir, diskDir, diskTmp, losses>>

-----------------------------------------------------------------------------
(* The try block: input, payload, flush and close. *)

OpenInput(p) ==
    /\ pc[p] = "input"
    /\ \/ Goto(p, IF kind[p] = "seal" THEN "payload" ELSE "header") /\ UNCHANGED <<result, faults>>
       \/ Fault /\ ThrowInTry(p, "backend_failure")
    /\ UNCHANGED <<kind, target, token, attempt, written, leak, inodeVars, dirVars, losses>>

\* Opening reads and parses the header, then derives the key.
ReadHeader(p) ==
    /\ pc[p] = "header"
    /\ \/ Goto(p, "payload") /\ UNCHANGED <<result, faults>>
       \/ Fault /\ \E e \in {"invalid_packet", "backend_failure"} : ThrowInTry(p, e)
    /\ UNCHANGED <<kind, target, token, attempt, written, leak, inodeVars, dirVars, losses>>

\* What seal_stream_payload and open_file_payload may throw.
PayloadError(p) ==
    {"invalid_input", "backend_failure"}
        \cup IF kind[p] = "seal" THEN {} ELSE {"invalid_packet", "authentication_failed"}

\* One unit of the payload: fwrite buffers it and passes on any part of what it holds.
WritePayload(p) ==
    /\ pc[p] = "payload"
    /\ \/ /\ written' = [written EXCEPT ![p] = @ + 1]
          /\ \E n \in size[p]..(written[p] + 1) : size' = [size EXCEPT ![p] = n]
          /\ IF written[p] + 1 = Units THEN Goto(p, "flush") ELSE UNCHANGED pc
          /\ UNCHANGED <<result, faults>>
       \/ /\ Fault
          /\ \E e \in PayloadError(p) : ThrowInTry(p, e)
          /\ UNCHANGED <<written, size>>
    /\ UNCHANGED <<kind, target, token, attempt, leak, durable, dirVars, losses>>

\* fsync or FlushFileBuffers: all of the inode is on the disk; elsewhere nothing is done.
\* Mutant of SyncFile: the call is missing.
LeaveUnsynced(p) == UNCHANGED durable
SyncFile(p) ==
    durable' = IF Platform = "other" THEN durable ELSE [durable EXCEPT ![p] = written[p]]

\* OutputFile::flush: fflush, then fsync where the platform has it.
Flush(p) ==
    /\ pc[p] = "flush"
    /\ \/ /\ size' = [size EXCEPT ![p] = written[p]]
          /\ SyncFile(p)
          /\ Goto(p, "close")
          /\ UNCHANGED <<result, faults>>
       \/ /\ Fault
          /\ \E n \in size[p]..written[p] : size' = [size EXCEPT ![p] = n]
          /\ ThrowInTry(p, "backend_failure")
          /\ UNCHANGED durable
    /\ UNCHANGED <<kind, target, token, attempt, written, leak, dirVars, losses>>

\* OutputFile::close.
Close(p) ==
    /\ pc[p] = "close"
    /\ \/ Goto(p, "commit") /\ UNCHANGED <<result, faults>>
       \/ Fault /\ ThrowInTry(p, "backend_failure")
    /\ UNCHANGED <<kind, target, token, attempt, written, leak, inodeVars, dirVars, losses>>

-----------------------------------------------------------------------------
(* commit_temp_file, one branch per platform, and the catch handler.  The     *)
(* commit acts on names: it publishes whatever the temporary path names then. *)

\* link() and MoveFileExW without MOVEFILE_REPLACE_EXISTING succeed only on an absent output.
\* Mutant of OutputIsFree: a call that replaces, like rename().
OutputIsReplaced(p) == TRUE
OutputIsFree(p) == dir[target[p]] = NoFile

\* What follows a link() that returned 0.
\* Mutants of AfterLink: errno is looked at first and still says EEXIST; the test is inverted.
AfterLinkStaleErrno(p) == ThrowInTry(p, "invalid_input")
AfterLinkInverted(p) == ThrowInTry(p, "backend_failure")
AfterLink(p) == Goto(p, "unlink") /\ UNCHANGED result

\* link() succeeded or not; an existing output is never replaced.
Link(p) ==
    /\ pc[p] = "commit" /\ Platform = "posix"
    /\ \/ /\ OutputIsFree(p) /\ tmp[Temp(p)] # NoFile
          /\ dir' = [dir EXCEPT ![target[p]] = tmp[Temp(p)]]
          /\ AfterLink(p)
          /\ UNCHANGED faults
       \/ /\ ~OutputIsFree(p)
          /\ ThrowInTry(p, "invalid_input")
          /\ UNCHANGED <<dir, faults>>
       \/ /\ Fault
          /\ ThrowInTry(p, "backend_failure")
          /\ UNCHANGED dir
    /\ UNCHANGED <<kind, target, token, attempt, written, leak, inodeVars, tmp, diskDir, diskTmp, losses>>

\* remove_quietly(temp_path): the name goes, whatever it names, or the failure is ignored.
RemoveQuietly(p) ==
    \/ /\ tmp' = [tmp EXCEPT ![Temp(p)] = NoFile]
       /\ UNCHANGED <<leak, faults>>
    \/ /\ tmp[Temp(p)] # NoFile
       /\ Fault
       /\ leak' = [leak EXCEPT ![p] = "remove"]
       /\ UNCHANGED tmp

UnlinkTemp(p) ==
    /\ pc[p] = "unlink"
    /\ RemoveQuietly(p)
    /\ Goto(p, "syncdir")
    /\ UNCHANGED <<kind, target, token, attempt, written, result, inodeVars, dir, diskDir, diskTmp, losses>>

\* The entries of one output path and its temporary names reach the disk.
\* Mutant of SyncEntries: nothing is synced.
SyncNothing(o, d, t) == UNCHANGED <<diskDir, diskTmp>>
SyncEntries(o, d, t) ==
    /\ diskDir' = [diskDir EXCEPT ![o] = d[o]]
    /\ diskTmp' = [n \in Output \X Token |-> IF n[1] = o THEN t[n] ELSE diskTmp[n]]

\* flush_parent_directory; closing the directory may fail after the fsync worked.
FlushParentDirectory(p) ==
    /\ pc[p] = "syncdir"
    /\ \/ /\ SyncEntries(target[p], dir, tmp)
          /\ Return(p, "ok")
          /\ UNCHANGED faults
       \/ /\ Fault
          /\ \/ UNCHANGED <<diskDir, diskTmp>>
             \/ SyncEntries(target[p], dir, tmp)
          /\ ThrowInTry(p, "backend_failure")
    /\ UNCHANGED <<kind, target, token, attempt, written, leak, inodeVars, dir, tmp, losses>>

\* MoveFileExW with MOVEFILE_WRITE_THROUGH and without MOVEFILE_REPLACE_EXISTING.
MoveFileNoReplace(p) ==
    /\ pc[p] = "commit" /\ Platform = "windows"
    /\ \/ /\ OutputIsFree(p) /\ tmp[Temp(p)] # NoFile
          /\ dir' = [dir EXCEPT ![target[p]] = tmp[Temp(p)]]
          /\ tmp' = [tmp EXCEPT ![Temp(p)] = NoFile]
          /\ SyncEntries(target[p], dir', tmp')
          /\ Return(p, "ok")
          /\ UNCHANGED faults
       \/ /\ ~OutputIsFree(p)
          /\ ThrowInTry(p, "invalid_input")
          /\ UNCHANGED <<dirVars, faults>>
       \/ /\ Fault
          /\ ThrowInTry(p, "backend_failure")
          /\ UNCHANGED dirVars
    /\ UNCHANGED <<kind, target, token, attempt, written, leak, inodeVars, losses>>

\* Without either system the code looks first and renames afterwards.
CheckBeforeRename(p) ==
    /\ pc[p] = "commit" /\ Platform = "other"
    /\ \/ /\ dir[target[p]] = NoFile
          /\ Goto(p, "rename")
          /\ UNCHANGED <<result, faults>>
       \/ /\ dir[target[p]] # NoFile
          /\ ThrowInTry(p, "invalid_input")
          /\ UNCHANGED faults
       \/ Fault /\ ThrowInTry(p, "backend_failure")
    /\ UNCHANGED <<kind, target, token, attempt, written, leak, inodeVars, dirVars, losses>>

\* std::filesystem::rename replaces an existing output.
Rename(p) ==
    /\ pc[p] = "rename"
    /\ \/ /\ tmp[Temp(p)] # NoFile
          /\ dir' = [dir EXCEPT ![target[p]] = tmp[Temp(p)]]
          /\ tmp' = [tmp EXCEPT ![Temp(p)] = NoFile]
          /\ Return(p, "ok")
          /\ UNCHANGED faults
       \/ /\ Fault
          /\ ThrowInTry(p, "backend_failure")
          /\ UNCHANGED <<dir, tmp>>
    /\ UNCHANGED <<kind, target, token, attempt, written, leak, inodeVars, diskDir, diskTmp, losses>>

\* catch (...): discard() closes the file, which may pass on buffered units; then
\* the temporary name is removed and the error rethrown.
Cleanup(p) ==
    /\ pc[p] = "cleanup"
    /\ \E n \in size[p]..written[p] : size' = [size EXCEPT ![p] = n]
    /\ RemoveQuietly(p)
    /\ Goto(p, "done")
    /\ UNCHANGED <<kind, target, token, attempt, written, result, durable, dir, diskDir, diskTmp, losses>>

-----------------------------------------------------------------------------
(* The environment. *)

\* Another program creates the output path.
ForeignCreate(o) ==
    /\ dir[o] = NoFile
    /\ Fault
    /\ dir' = [dir EXCEPT ![o] = Foreign]
    /\ UNCHANGED <<pc, callVars, inodeVars, tmp, diskDir, diskTmp, losses>>

\* The caller's process is killed: its stdio buffer is lost, the file system stays.
Kill(p) ==
    /\ Running(p)
    /\ Fault
    /\ Goto(p, "crashed")
    /\ UNCHANGED <<callVars, inodeVars, dirVars, losses>>

\* The kernel writes back data or a directory entry of its own accord.
WriteBackData(p) ==
    /\ losses < MaxLosses
    /\ durable' = [durable EXCEPT ![p] = size[p]]
    /\ UNCHANGED <<pc, callVars, size, dirVars, envVars>>

WriteBackOutput(o) ==
    /\ losses < MaxLosses
    /\ diskDir' = [diskDir EXCEPT ![o] = dir[o]]
    /\ UNCHANGED <<pc, callVars, inodeVars, dir, tmp, diskTmp, envVars>>

WriteBackTemp(n) ==
    /\ losses < MaxLosses
    /\ diskTmp' = [diskTmp EXCEPT ![n] = tmp[n]]
    /\ UNCHANGED <<pc, callVars, inodeVars, dir, tmp, diskDir, envVars>>

\* The machine stops; after the restart only what the disk held is there.
PowerLoss ==
    /\ losses < MaxLosses
    /\ losses' = losses + 1
    /\ pc' = [p \in Op |-> IF Running(p) THEN "crashed" ELSE pc[p]]
    /\ dir' = diskDir
    /\ tmp' = diskTmp
    /\ size' = durable
    /\ UNCHANGED <<callVars, durable, diskDir, diskTmp, faults>>

-----------------------------------------------------------------------------

CallStep(p) ==
    \/ EnsureOutputDoesNotExist(p) \/ MakeHeaderAndKey(p) \/ OpenUniqueTempOutput(p)
    \/ OpenInput(p) \/ ReadHeader(p) \/ WritePayload(p) \/ Flush(p) \/ Close(p)
    \/ Link(p) \/ UnlinkTemp(p) \/ FlushParentDirectory(p)
    \/ MoveFileNoReplace(p) \/ CheckBeforeRename(p) \/ Rename(p) \/ Cleanup(p)

Next ==
    \/ \E p \in Op : Call(p) \/ CallWithEmptyPassword(p) \/ CallStep(p)
    \/ \E p \in Op : Kill(p) \/ WriteBackData(p)
    \/ \E o \in Output : ForeignCreate(o) \/ WriteBackOutput(o)
    \/ \E n \in Output \X Token : WriteBackTemp(n)
    \/ PowerLoss

Spec == Init /\ [][Next]_vars

\* A call that has begun runs on: every call into the system returns.
FairSpec == Spec /\ \A p \in Op : WF_vars(CallStep(p))
-----------------------------------------------------------------------------
(* Properties. *)

\* A file that stands at an output path is never replaced: no step of any call
\* changes what an occupied path names (ensure_output_does_not_exist and the
\* commit's own check race with everybody else; only a power loss is excused).
NeverOverwritten ==
    [][\A o \in Output : dir[o] # NoFile /\ losses' = losses => dir'[o] = dir[o]]_vars

\* Whatever a reader finds at an output path, at any instant and after any crash
\* or power loss, is a complete payload of the call that was asked to write there:
\* the flush precedes the commit and the commit publishes the caller's own file.
OutputComplete ==
    \A o \in Output, p \in Op : dir[o] = p => target[p] = o /\ size[p] = Units

\* A call that returned normally has its output in place and keeps it across power
\* losses (fsync, link, fsync of the directory); so two calls never both succeed
\* for one path.
SuccessKept ==
    \A p \in Op : pc[p] = "done" /\ result[p] = "ok" => dir[target[p]] = p

\* A call that was refused or whose input failed to authenticate never left its
\* file at the output path; backend_failure may, after the commit.
RejectedLeavesNoOutput ==
    \A p \in Op, o \in Output :
        result[p] \in Error \ {"backend_failure"} => dir[o] # p

\* Until it commits, the temporary path of a running call names the call's own file:
\* nobody else's clean-up, commit or exclusive open touches it.
TempStaysOwn ==
    \A p \in Op :
        pc[p] \in {"input", "header", "payload", "flush", "close", "commit", "rename", "unlink"}
            => tmp[Temp(p)] = p

\* A call that has ended leaves no temporary file, unless removing it failed or
\* fdopen did (power losses, which resurrect names, aside).
TempAccounted ==
    \A p \in Op : pc[p] = "done" /\ losses = 0 /\ leak[p] = None
                     => \A n \in Output \X Token : tmp[n] # p

\* README.md: calls "remove SecureKit-owned temporary output after failures"; a
\* failing removal itself is excused.
TempRemovedAfterFailure ==
    \A p \in Op : pc[p] = "done" /\ result[p] \in Error /\ losses = 0 /\ leak[p] # "remove"
                     => \A n \in Output \X Token : tmp[n] # p

\* Calls that compete for a path do not all defeat each other: once all calls for it
\* have ended and nothing adverse happened, one of them has published and succeeded.
SomeoneWins ==
    \A o \in Output :
        /\ faults = 0 /\ losses = 0
        /\ \E p \in Op : target[p] = o
        /\ \A p \in Op : target[p] = o => pc[p] = "done" /\ attempt[p] = 0
        => \E p \in Op : target[p] = o /\ result[p] = "ok"

\* Every call that has begun ends: the retries of open_unique_temp_output are bounded
\* and every error path reaches the caller.
Terminates == \A p \in Op : Running(p) ~> ~Running(p)

\* The path APIs implement AtomicPublish.  A path that names an unfinished file
\* would be a visible value the abstract specification does not have.
VisibleFile == [o \in Output |-> IF dir[o] \in Op /\ size[dir[o]] # Units THEN None ELSE dir[o]]
Reported == [p \in Op |-> IF pc[p] = "done" THEN result[p] ELSE None]
Abstract == INSTANCE AtomicPublish WITH visible <- VisibleFile, outcome <- Reported

\* Publication is atomic, exclusive and, once acknowledged, permanent: PathFile
\* refines the abstract specification under the mapping above.
PublishesAtomically == Abstract!Spec
=============================================================================

------------------------------ MODULE CliOutput ------------------------------
(***************************************************************************)
(* The command line tool's own output (src/src/cli/commands.cpp): commands *)
(* that print text, commands that write a new file, the streaming file     *)
(* commands to a path or to standard output, and the verifying commands.   *)
(* File commands from path to path call the library (module PathFile).     *)
(*                                                                         *)
(* Several processes run one command each.  Any call may fail, an input    *)
(* may prove unauthentic at any chunk, a process may be killed, and        *)
(* another program may create the output.  What a command produces is a    *)
(* number of units.                                                        *)
(***************************************************************************)
EXTENDS Naturals

CONSTANTS
    Proc,           \* processes; a process also names the inode of the file it creates
    Output,         \* output paths
    Token,          \* values of the random token in a temporary name
    Command,        \* the commands in use
    Foreign,        \* the inode of a file some other program creates
    NoFile,         \* no directory entry
    None,           \* a field not yet set
    kMaxAttempts,   \* attempts of open_cli_output_file
    Units,          \* units of output a complete result has
    MaxFaults       \* bound: failing calls, bad inputs, kills and foreign files

ASSUME CliCommandAssumption == Command \subseteq {"print", "newfile", "tofile", "tostdout", "verify"}
ASSUME CliBoundsAssumption ==
    kMaxAttempts \in Nat \ {0} /\ Units \in Nat \ {0} /\ MaxFaults \in Nat
ASSUME CliInodeAssumption == /\ Foreign \notin Proc /\ NoFile \notin Proc /\ Foreign # NoFile
                             /\ None \notin Output \cup Token \cup Command /\ None \notin {0, 1}
                             /\ None \notin Proc \cup {Foreign, NoFile, "ok", "invalid_input"}

VARIABLES
    pc,         \* the step each process is about to make
    cmd,        \* its command
    target,     \* its output path
    token,      \* the token in temp_path
    attempt,    \* names given up in open_cli_output_file
    usesTemp,   \* uses_temp_output
    made,       \* units handed to the output stream
    size,       \* units of the process's inode the kernel holds
    printed,    \* units that have reached standard output
    exit,       \* the exit code
    leak,       \* ghost: removing the temporary name failed
    dir,        \* the inode each output path names
    tmp,        \* the inode each temporary path names
    faults      \* adverse events so far

procVars == <<cmd, target, token, attempt, usesTemp, made, leak>>
vars == <<pc, procVars, size, printed, exit, dir, tmp, faults>>

Steps == {"print", "input", "ensure", "temp", "work", "finish", "commit", "unlink", "handler"}
Running(p) == pc[p] \in Steps
Inodes == Proc \cup {Foreign, NoFile}

TypeOK ==
    /\ pc \in [Proc -> Steps \cup {"idle", "done", "crashed"}]
    /\ cmd \in [Proc -> Command \cup {None}]
    /\ target \in [Proc -> Output \cup {None}]
    /\ token \in [Proc -> Token \cup {None}]
    /\ attempt \in [Proc -> 0..kMaxAttempts]
    /\ usesTemp \in [Proc -> BOOLEAN]
    /\ made \in [Proc -> 0..Units]
    /\ size \in [Proc -> 0..Units]
    /\ printed \in [Proc -> 0..Units]
    /\ exit \in [Proc -> {None, 0, 1}]
    /\ leak \in [Proc -> BOOLEAN]
    /\ dir \in [Output -> Inodes]
    /\ tmp \in [Output \X Token -> Inodes]
    /\ faults \in 0..MaxFaults

Init ==
    /\ pc = [p \in Proc |-> "idle"]
    /\ cmd = [p \in Proc |-> None]
    /\ target = [p \in Proc |-> None]
    /\ token = [p \in Proc |-> None]
    /\ attempt = [p \in Proc |-> 0]
    /\ usesTemp = [p \in Proc |-> FALSE]
    /\ made = [p \in Proc |-> 0]
    /\ size = [p \in Proc |-> 0]
    /\ printed = [p \in Proc |-> 0]
    /\ exit = [p \in Proc |-> None]
    /\ leak = [p \in Proc |-> FALSE]
    /\ dir = [o \in Output |-> NoFile]
    /\ tmp = [n \in Output \X Token |-> NoFile]
    /\ faults = 0

-----------------------------------------------------------------------------

Fault == faults < MaxFaults /\ faults' = faults + 1
Goto(p, step) == pc' = [pc EXCEPT ![p] = step]

\* Return from run(); what std::cout still holds is flushed when the process ends,
\* as far as standard output takes it.
Exit(p, code) == Goto(p, "done") /\ exit' = [exit EXCEPT ![p] = code]

Throw(p) == Goto(p, "handler") /\ UNCHANGED exit

Temp(p) == <<target[p], token[p]>>

-----------------------------------------------------------------------------
(* run(): dispatch, and the commands that print their result. *)

FirstStep(c) ==
    CASE c = "print" -> "print"
      [] c = "newfile" -> "ensure"
      [] c \in {"tofile", "tostdout", "verify"} -> "input"

\* The options are parsed, and a command that is not a file command computes its result.
Start(p) ==
    /\ pc[p] = "idle"
    /\ \E c \in Command, o \in Output :
          /\ cmd' = [cmd EXCEPT ![p] = c]
          /\ target' = [target EXCEPT ![p] = o]
          /\ Goto(p, FirstStep(c))
    /\ UNCHANGED <<token, attempt, usesTemp, made, leak, size, printed, exit, dir, tmp, faults>>

\* Usage, decoding, key or authentication errors: fail() before anything is written.
StartFails(p) ==
    /\ pc[p] = "idle"
    /\ Fault
    /\ Exit(p, 1)
    /\ UNCHANGED <<procVars, size, printed, dir, tmp>>

\* std::cout << result << '\n'; return 0.  The state of the stream is not looked at.
PrintResult(p) ==
    /\ pc[p] = "print"
    /\ made' = [made EXCEPT ![p] = Units]
    /\ \/ printed' = [printed EXCEPT ![p] = Units] /\ UNCHANGED faults
       \/ Fault /\ \E n \in 0..(Units - 1) : printed' = [printed EXCEPT ![p] = n]
    /\ Exit(p, 0)
    /\ UNCHANGED <<cmd, target, token, attempt, usesTemp, leak, size, dir, tmp>>

-----------------------------------------------------------------------------
(* Opening the input and the temporary output. *)

OpenCliInputFile(p) ==
    /\ pc[p] = "input"
    /\ \/ /\ Goto(p, IF cmd[p] = "tofile" THEN "ensure" ELSE "work")
          /\ UNCHANGED <<exit, faults>>
       \/ Fault /\ Throw(p)
    /\ UNCHANGED <<procVars, size, printed, dir, tmp>>

\* ensure_output_file_does_not_exist: std::filesystem::exists may throw itself.
EnsureOutputFileDoesNotExist(p) ==
    /\ pc[p] = "ensure"
    /\ \/ dir[target[p]] = NoFile /\ Goto(p, "temp") /\ UNCHANGED <<exit, faults>>
       \/ dir[target[p]] # NoFile /\ Throw(p) /\ UNCHANGED faults
       \/ Fault /\ Throw(p)
    /\ UNCHANGED <<procVars, size, printed, dir, tmp>>

\* exists() and the open are two calls and the open truncates: the random token is taken
\* never to hit a name that a running process uses and that does not exist (yet, or any
\* more); a name that exists may be drawn, and is noticed.
FreshDraw(p, t) ==
    \A q \in Proc \ {p} :
        Running(q) /\ token[q] # None /\ Temp(q) = <<target[p], t>> => tmp[Temp(q)] # NoFile

NameIsFree(p, t) == tmp[<<target[p], t>>] = NoFile

\* The loop header of open_cli_output_file.
\* Mutant of MayRetry: one attempt too many.
RetryOnceMore(p) == attempt[p] < kMaxAttempts
MayRetry(p) == attempt[p] + 1 < kMaxAttempts
CountAttempt(p) == attempt' = [attempt EXCEPT ![p] = @ + 1]

\* uses_temp_output is set once the file is open, by the streaming commands only.
\* Mutant of MarkTemp: it is not set.
NoMark(p) == UNCHANGED usesTemp
MarkTemp(p) == usesTemp' = [usesTemp EXCEPT ![p] = cmd[p] = "tofile"]

\* One attempt of open_cli_output_file; temp_path is assigned before anything is known
\* about the name, and every failure but the last leads to another attempt.
\* A failing random generator ends the loop with the name of the attempt before.
OpenCliOutputFile(p) ==
    /\ pc[p] = "temp"
    /\ \/ Fault /\ Throw(p) /\ UNCHANGED <<token, attempt, usesTemp, tmp>>
       \/ \E t \in Token :
             /\ FreshDraw(p, t)
             /\ token' = [token EXCEPT ![p] = t]
             /\ \/ /\ NameIsFree(p, t)
                   /\ tmp' = [tmp EXCEPT ![<<target[p], t>>] = p]
                   /\ MarkTemp(p)
                   /\ Goto(p, "work")
                   /\ UNCHANGED <<attempt, exit, faults>>
                \/ /\ (~NameIsFree(p, t) /\ UNCHANGED faults) \/ Fault
                   /\ CountAttempt(p)
                   /\ IF MayRetry(p) THEN UNCHANGED <<pc, exit>> ELSE Throw(p)
                   /\ UNCHANGED <<tmp, usesTemp>>
    /\ UNCHANGED <<cmd, target, made, leak, size, printed, dir>>

-----------------------------------------------------------------------------
(* Producing the output. *)

\* The stream passes on any part of what it holds: to a file, to standard output, or to
\* the buffer that discards everything.
PassOn(p, upto) ==
    /\ \E n \in size[p]..upto :
          size' = IF cmd[p] \in {"newfile", "tofile"} THEN [size EXCEPT ![p] = n] ELSE size
    /\ \E n \in printed[p]..upto :
          printed' = IF cmd[p] = "tostdout" THEN [printed EXCEPT ![p] = n] ELSE printed

\* A chunk of the operation, or part of what the writer writes; reading, authenticating or
\* writing may fail.
Work(p) ==
    /\ pc[p] = "work"
    /\ \/ /\ made' = [made EXCEPT ![p] = @ + 1]
          /\ PassOn(p, made[p] + 1)
          /\ IF made[p] + 1 = Units THEN Goto(p, "finish") ELSE UNCHANGED pc
          /\ UNCHANGED <<exit, faults>>
       \/ Fault /\ Throw(p) /\ UNCHANGED <<made, size, printed>>
    /\ UNCHANGED <<cmd, target, token, attempt, usesTemp, leak, dir, tmp>>

\* Closing the file, or flushing standard output, empties the buffer.
\* Mutant of Drain: it is left to the end of the process.
LeaveBuffered(p) == UNCHANGED <<size, printed>>
Drain(p) ==
    /\ size' = IF cmd[p] \in {"newfile", "tofile"} THEN [size EXCEPT ![p] = made[p]] ELSE size
    /\ printed' = IF cmd[p] = "tostdout" THEN [printed EXCEPT ![p] = made[p]] ELSE printed

Finish(p) ==
    /\ pc[p] = "finish"
    /\ \/ /\ Drain(p)
          /\ IF cmd[p] \in {"newfile", "tofile"} THEN Goto(p, "commit") /\ UNCHANGED exit
             ELSE Exit(p, 0)
          /\ UNCHANGED faults
       \/ cmd[p] # "verify" /\ Fault /\ Throw(p) /\ PassOn(p, made[p])
    /\ UNCHANGED <<procVars, dir, tmp>>

-----------------------------------------------------------------------------
(* commit_output_file and the handlers. *)

\* create_hard_link never replaces.
\* Mutant of OutputIsFree: a call that replaces, like rename().
OutputIsReplaced(p) == TRUE
OutputIsFree(p) == dir[target[p]] = NoFile

\* What follows a hard link that was made.
\* Mutant of AfterLink: the error code is tested the wrong way round.
AfterLinkInverted(p) == Throw(p)
AfterLink(p) == Goto(p, "unlink") /\ UNCHANGED exit

CreateHardLink(p) ==
    /\ pc[p] = "commit"
    /\ \/ /\ OutputIsFree(p) /\ tmp[Temp(p)] # NoFile
          /\ dir' = [dir EXCEPT ![target[p]] = tmp[Temp(p)]]
          /\ AfterLink(p)
          /\ UNCHANGED faults
       \/ /\ ~OutputIsFree(p) \/ tmp[Temp(p)] = NoFile
          /\ Throw(p)
          /\ UNCHANGED <<dir, faults>>
       \/ Fault /\ Throw(p) /\ UNCHANGED dir
    /\ UNCHANGED <<procVars, size, printed, tmp>>

\* remove_file_quietly(temp_path): the name goes, whatever it names, or the failure is ignored.
RemoveFileQuietly(p) ==
    \/ tmp' = [tmp EXCEPT ![Temp(p)] = NoFile] /\ UNCHANGED <<leak, faults>>
    \/ tmp[Temp(p)] # NoFile /\ Fault /\ leak' = [leak EXCEPT ![p] = TRUE] /\ UNCHANGED tmp

UnlinkTemp(p) ==
    /\ pc[p] = "unlink"
    /\ RemoveFileQuietly(p)
    /\ usesTemp' = [usesTemp EXCEPT ![p] = FALSE]
    /\ Exit(p, 0)
    /\ UNCHANGED <<cmd, target, token, attempt, made, size, printed, dir>>

\* write_new_output_file removes whatever temp_path was assigned last; the streaming
\* commands only what they opened.
\* Mutant of MustRemove: the streaming commands do as write_new_output_file does.
AnyNameDrawn(p) == token[p] # None
MustRemove(p) == IF cmd[p] = "newfile" THEN token[p] # None ELSE usesTemp[p]

\* catch (...), then fail() in run().
Handler(p) ==
    /\ pc[p] = "handler"
    /\ PassOn(p, made[p])
    /\ IF MustRemove(p) THEN RemoveFileQuietly(p) ELSE UNCHANGED <<tmp, leak, faults>>
    /\ Exit(p, 1)
    /\ UNCHANGED <<cmd, target, token, attempt, usesTemp, made, dir>>

-----------------------------------------------------------------------------
(* The environment. *)

\* Another program, or a library call, creates the output path.
ForeignCreate(o) ==
    /\ dir[o] = NoFile
    /\ Fault
    /\ dir' = [dir EXCEPT ![o] = Foreign]
    /\ UNCHANGED <<pc, procVars, size, printed, exit, tmp>>

Kill(p) ==
    /\ Running(p)
    /\ Fault
    /\ Goto(p, "crashed")
    /\ UNCHANGED <<procVars, size, printed, exit, dir, tmp>>

ProcStep(p) ==
    \/ PrintResult(p) \/ OpenCliInputFile(p) \/ EnsureOutputFileDoesNotExist(p)
    \/ OpenCliOutputFile(p) \/ Work(p) \/ Finish(p) \/ CreateHardLink(p) \/ UnlinkTemp(p)
    \/ Handler(p)

Next ==
    \/ \E p \in Proc : Start(p) \/ StartFails(p) \/ ProcStep(p) \/ Kill(p)
    \/ \E o \in Output : ForeignCreate(o)

Spec == Init /\ [][Next]_vars

-----------------------------------------------------------------------------
(* Properties. *)

\* "Output paths are never overwritten" (docs/CLI.md): commands that raced past
\* ensure_output_file_does_not_exist are stopped by the hard link.
NeverReplaced == [][\A o \in Output : dir[o] # NoFile => dir'[o] = dir[o]]_vars

\* A reader of an output path finds the whole result of the command asked to write it,
\* though the bytes went through a stream buffer: the close comes before the link.
WholeResult == \A o \in Output, p \in Proc : dir[o] = p => target[p] = o /\ size[p] = Units

\* The exit code of a file command tells the truth, both ways: 0 means that its result is
\* in place (or that all of it was verified), 1 that it has published nothing.
ExitCodeTells ==
    \A p \in Proc : pc[p] = "done" =>
        /\ exit[p] = 0 /\ cmd[p] \in {"newfile", "tofile"} => dir[target[p]] = p
        /\ exit[p] = 0 /\ cmd[p] = "tostdout" => printed[p] = Units
        /\ exit[p] = 0 /\ cmd[p] = "verify" => made[p] = Units
        /\ exit[p] = 1 => \A o \in Output : dir[o] # p

\* The temporary path of a command at work names its own file until the commit: no
\* streaming command's clean-up takes it away, not even that of one that ran out of names.
\* Only write_new_output_file may, when it fails after drawing that very name.
OwnTempStays ==
    \A p \in Proc :
        pc[p] \in {"work", "finish", "commit", "unlink"} /\ cmd[p] \in {"newfile", "tofile"}
            => \/ tmp[Temp(p)] = p
               \/ \E q \in Proc \ {p} :
                     /\ cmd[q] = "newfile" /\ exit[q] = 1
                     /\ Temp(q) = Temp(p) /\ tmp[Temp(p)] = NoFile

\* A command that has ended leaves no temporary file, unless removing it failed.
NoTempLeft ==
    \A p \in Proc : pc[p] = "done" /\ ~leak[p] => \A n \in Output \X Token : tmp[n] # p

\* docs/CLI.md: "Successful text-output CLI commands write the result plus one trailing
\* newline to stdout."
SuccessIsPrinted ==
    \A p \in Proc : pc[p] = "done" /\ exit[p] = 0 /\ cmd[p] = "print" => printed[p] = Units

\* What a reader finds at an output path, and what a command that writes one has reported;
\* an exit code that is not 0 is a failure that must not leave an output.
VisibleFile == [o \in Output |-> IF dir[o] \in Proc /\ size[dir[o]] # Units THEN None ELSE dir[o]]
Reported ==
    [p \in Proc |-> IF pc[p] = "done" /\ cmd[p] \in {"newfile", "tofile"}
                    THEN IF exit[p] = 0 THEN "ok" ELSE "invalid_input" ELSE None]
Abstract == INSTANCE AtomicPublish WITH Op <- Proc, visible <- VisibleFile, outcome <- Reported

\* The tool's own output code keeps the promise of the library's path APIs, through a
\* commit of its own, and reports each outcome once: CliOutput refines AtomicPublish.
PublishesAtomically == Abstract!Spec
=============================================================================

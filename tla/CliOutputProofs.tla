--------------------------- MODULE CliOutputProofs ---------------------------
(***************************************************************************)
(* Proofs about CliOutput, for any number of processes, output paths,      *)
(* tokens, units and faults, and any set of commands.                      *)
(***************************************************************************)
EXTENDS CliOutput, TLAPS

USE CliCommandAssumption, CliBoundsAssumption, CliInodeAssumption

FileCommand == {"newfile", "tofile"}

\* Steps before a temporary file is open, and steps of a file command that has one.
Opening == {"idle", "print", "input", "ensure", "temp"}
Holding == {"work", "finish", "commit", "unlink"}

\* Each step belongs to the commands that reach it, and a running process knows its output;
\* uses_temp_output is set exactly by the streaming commands that opened their file.
CmdKnown ==
    \A p \in Proc :
        /\ Running(p) => target[p] \in Output /\ cmd[p] \in Command /\ exit[p] = None
        /\ pc[p] = "idle" => token[p] = None /\ exit[p] = None
        /\ pc[p] = "print" => cmd[p] = "print"
        /\ pc[p] = "input" => cmd[p] \in {"tofile", "tostdout", "verify"}
        /\ pc[p] \in {"ensure", "temp", "commit", "unlink"} => cmd[p] \in FileCommand
        /\ pc[p] \in {"work", "finish", "handler"} => cmd[p] # "print"
        /\ pc[p] \in Holding /\ cmd[p] \in FileCommand => token[p] \in Token
        /\ pc[p] \in Opening => ~usesTemp[p]
        /\ pc[p] \in Holding /\ cmd[p] = "tofile" => usesTemp[p]
        /\ usesTemp[p] => cmd[p] = "tofile" /\ token[p] \in Token

\* The counters of a process match the step it has reached, and bytes move from the stream
\* to the kernel or to standard output; the commit finds all of them in the kernel.
CmdProgress ==
    \A p \in Proc :
        /\ pc[p] \in Opening => made[p] = 0 /\ attempt[p] < kMaxAttempts
        /\ pc[p] = "work" => made[p] < Units
        /\ pc[p] \in {"finish", "commit", "unlink"} => made[p] = Units
        /\ size[p] <= made[p] /\ printed[p] <= made[p]
        /\ pc[p] \in {"commit", "unlink"} => size[p] = Units

\* The name of an opened temporary file names that file or nothing; a file stands only at
\* its own process's name, and outlives the process only when removing it failed.
CmdTemps ==
    /\ \A p \in Proc :
          \/ pc[p] \in Holding /\ cmd[p] \in FileCommand
          \/ pc[p] = "handler" /\ usesTemp[p]
          => tmp[Temp(p)] \in {p, NoFile}
    /\ \A p \in Proc, n \in Output \X Token :
          tmp[n] = p =>
              /\ n = Temp(p)
              /\ cmd[p] \in FileCommand
              /\ \/ pc[p] \in Holding \cup {"crashed"}
                 \/ pc[p] = "handler" /\ (cmd[p] = "tofile" => usesTemp[p])
                 \/ pc[p] = "done" /\ leak[p]

\* What stands at an output path is whole and its process did not fail; exit code 0 comes
\* after the output is in place.
CmdOutputs ==
    /\ \A o \in Output, p \in Proc :
          dir[o] = p => /\ target[p] = o
                        /\ size[p] = Units
                        /\ \/ pc[p] \in {"unlink", "crashed"}
                           \/ pc[p] = "done" /\ exit[p] = 0
    /\ \A p \in Proc :
          /\ pc[p] = "unlink" => dir[target[p]] = p
          /\ pc[p] = "done" /\ exit[p] = 0 =>
                /\ cmd[p] \in FileCommand => target[p] \in Output /\ dir[target[p]] = p
                /\ cmd[p] = "tostdout" => printed[p] = Units
                /\ cmd[p] = "verify" => made[p] = Units

CliInv == TypeOK /\ CmdKnown /\ CmdProgress /\ CmdTemps /\ CmdOutputs /\ OwnTempStays

\* CliInv holds before any process starts.
LEMMA InitCli == Init => CliInv
  BY DEF Init, CliInv, TypeOK, CmdKnown, CmdProgress, CmdTemps, CmdOutputs, OwnTempStays,
         Running, Steps, Opening, Holding, FileCommand, Inodes

\* Every step of every process, and of the environment, preserves CliInv.
LEMMA NextCli == CliInv /\ [Next]_vars => CliInv'
<1> SUFFICES ASSUME CliInv, [Next]_vars PROVE CliInv'
  OBVIOUS
<1> USE DEF CliInv, procVars, Goto, Exit, Throw, Fault
<1>1. ASSUME NEW p \in Proc, Start(p) PROVE CliInv'
  <2> USE <1>1 DEF Start, FirstStep
  <2>1. TypeOK'
    BY DEF TypeOK, CmdKnown, CmdProgress, Steps, Running, Opening, Holding, FileCommand, Inodes, Temp
  <2>2. CmdKnown'
    BY DEF CmdKnown, TypeOK, Steps, Running, Opening, Holding, FileCommand
  <2>3. CmdProgress'
    BY DEF CmdProgress, CmdKnown, TypeOK, Opening, FileCommand, Running, Steps
  <2>4. CmdTemps'
    BY DEF CmdTemps, CmdKnown, TypeOK, Opening, Holding, FileCommand, Running, Steps, Temp, Inodes
  <2>5. CmdOutputs'
    BY DEF CmdOutputs, CmdTemps, CmdKnown, CmdProgress, TypeOK, Opening, Holding,
           FileCommand, Running, Steps, Temp, Inodes
  <2>6. OwnTempStays'
    <3>1. \A q \in Proc \ {p} : /\ pc'[q] = pc[q] /\ cmd'[q] = cmd[q]
                                /\ exit'[q] = exit[q] /\ Temp(q)' = Temp(q)
      BY DEF TypeOK, Temp
    <3>2. pc'[p] \notin Holding /\ exit[p] # 1 /\ UNCHANGED <<exit, tmp>>
      BY DEF CmdKnown, TypeOK, Holding
    <3> QED
      BY <3>1, <3>2 DEF OwnTempStays, Holding
  <2> QED
    BY <2>1, <2>2, <2>3, <2>4, <2>5, <2>6
<1>2. ASSUME NEW p \in Proc, StartFails(p) PROVE CliInv'
  <2> USE <1>2 DEF StartFails
  <2>1. TypeOK'
    BY DEF TypeOK, CmdKnown, CmdProgress, Steps, Running, Opening, Holding, FileCommand, Inodes, Temp
  <2>2. CmdKnown'
    BY DEF CmdKnown, TypeOK, Steps, Running, Opening, Holding, FileCommand
  <2>3. CmdProgress'
    BY DEF CmdProgress, CmdKnown, TypeOK, Opening, FileCommand, Running, Steps
  <2>4. CmdTemps'
    BY DEF CmdTemps, CmdKnown, TypeOK, Opening, Holding, FileCommand, Running, Steps, Temp, Inodes
  <2>5. CmdOutputs'
    BY DEF CmdOutputs, CmdTemps, CmdKnown, CmdProgress, TypeOK, Opening, Holding,
           FileCommand, Running, Steps, Temp, Inodes
  <2>6. OwnTempStays'
    BY DEF OwnTempStays, CmdTemps, CmdKnown, TypeOK, Opening, Holding, FileCommand, Running, Steps, Temp
  <2> QED
    BY <2>1, <2>2, <2>3, <2>4, <2>5, <2>6
<1>3. ASSUME NEW p \in Proc, PrintResult(p) PROVE CliInv'
  <2> USE <1>3 DEF PrintResult
  <2>1. TypeOK'
    BY DEF TypeOK, CmdKnown, CmdProgress, Steps, Running, Opening, Holding, FileCommand, Inodes, Temp
  <2>2. CmdKnown'
    BY DEF CmdKnown, TypeOK, Steps, Running, Opening, Holding, FileCommand
  <2>3. CmdProgress'
    BY DEF CmdProgress, CmdKnown, TypeOK, Opening, FileCommand, Running, Steps
  <2>4. CmdTemps'
    BY DEF CmdTemps, CmdKnown, TypeOK, Opening, Holding, FileCommand, Running, Steps, Temp, Inodes
  <2>5. CmdOutputs'
    BY DEF CmdOutputs, CmdTemps, CmdKnown, CmdProgress, TypeOK, Opening, Holding,
           FileCommand, Running, Steps, Temp, Inodes
  <2>6. OwnTempStays'
    BY DEF OwnTempStays, CmdTemps, CmdKnown, TypeOK, Opening, Holding, FileCommand, Running, Steps, Temp
  <2> QED
    BY <2>1, <2>2, <2>3, <2>4, <2>5, <2>6
<1>4. ASSUME NEW p \in Proc, OpenCliInputFile(p) PROVE CliInv'
  <2> USE <1>4 DEF OpenCliInputFile
  <2>1. TypeOK'
    BY DEF TypeOK, CmdKnown, CmdProgress, Steps, Running, Opening, Holding, FileCommand, Inodes, Temp
  <2>2. CmdKnown'
    BY DEF CmdKnown, TypeOK, Steps, Running, Opening, Holding, FileCommand
  <2>3. CmdProgress'
    BY DEF CmdProgress, CmdKnown, TypeOK, Opening, FileCommand, Running, Steps
  <2>4. CmdTemps'
    BY DEF CmdTemps, CmdKnown, TypeOK, Opening, Holding, FileCommand, Running, Steps, Temp, Inodes
  <2>5. CmdOutputs'
    BY DEF CmdOutputs, CmdTemps, CmdKnown, CmdProgress, TypeOK, Opening, Holding,
           FileCommand, Running, Steps, Temp, Inodes
  <2>6. OwnTempStays'
    BY DEF OwnTempStays, CmdTemps, CmdKnown, TypeOK, Opening, Holding, FileCommand, Running, Steps, Temp
  <2> QED
    BY <2>1, <2>2, <2>3, <2>4, <2>5, <2>6
<1>5. ASSUME NEW p \in Proc, EnsureOutputFileDoesNotExist(p) PROVE CliInv'
  <2> USE <1>5 DEF EnsureOutputFileDoesNotExist
  <2>1. TypeOK'
    BY DEF TypeOK, CmdKnown, CmdProgress, Steps, Running, Opening, Holding, FileCommand, Inodes, Temp
  <2>2. CmdKnown'
    BY DEF CmdKnown, TypeOK, Steps, Running, Opening, Holding, FileCommand
  <2>3. CmdProgress'
    BY DEF CmdProgress, CmdKnown, TypeOK, Opening, FileCommand, Running, Steps
  <2>4. CmdTemps'
    BY DEF CmdTemps, CmdKnown, TypeOK, Opening, Holding, FileCommand, Running, Steps, Temp, Inodes
  <2>5. CmdOutputs'
    BY DEF CmdOutputs, CmdTemps, CmdKnown, CmdProgress, TypeOK, Opening, Holding,
           FileCommand, Running, Steps, Temp, Inodes
  <2>6. OwnTempStays'
    BY DEF OwnTempStays, CmdTemps, CmdKnown, TypeOK, Opening, Holding, FileCommand, Running, Steps, Temp
  <2> QED
    BY <2>1, <2>2, <2>3, <2>4, <2>5, <2>6
<1>6. ASSUME NEW p \in Proc, OpenCliOutputFile(p) PROVE CliInv'
  <2>1. pc[p] = "temp" /\ UNCHANGED <<cmd, target, made, leak, size, printed, dir>>
    BY <1>6 DEF OpenCliOutputFile
  <2>2. /\ target[p] \in Output /\ cmd[p] \in FileCommand /\ cmd[p] \in Command
        /\ exit[p] = None /\ ~usesTemp[p]
        /\ made[p] = 0 /\ size[p] <= made[p] /\ printed[p] <= made[p]
        /\ attempt[p] \in Nat /\ attempt[p] + 1 <= kMaxAttempts
    BY <2>1 DEF CmdKnown, CmdProgress, TypeOK, Running, Steps, Opening
  <2>3. (\A n \in Output \X Token : tmp[n] # p) /\ (\A o \in Output : dir[o] # p)
    BY <2>1 DEF CmdTemps, CmdOutputs, Holding
  \* The random generator failed, or the last attempt did: no name is held.
  <2>4. ASSUME Throw(p), UNCHANGED <<usesTemp, tmp>>, faults' \in 0..MaxFaults,
               attempt' \in [Proc -> 0..kMaxAttempts], token' \in [Proc -> Token \cup {None}],
               \A q \in Proc \ {p} : token'[q] = token[q] /\ attempt'[q] = attempt[q]
        PROVE  CliInv'
    <3> USE <2>1, <2>2, <2>3, <2>4
    <3>1. TypeOK'
      BY DEF TypeOK, Steps
    <3>2. CmdKnown' /\ CmdProgress'
      BY DEF CmdKnown, CmdProgress, TypeOK, Running, Steps, Opening, Holding, FileCommand
    <3>3. CmdTemps' /\ CmdOutputs' /\ OwnTempStays'
      BY DEF CmdTemps, CmdOutputs, OwnTempStays, TypeOK, Holding, Temp
    <3> QED
      BY <3>1, <3>2, <3>3
  \* A name was taken or the open failed, and another one is drawn.
  <2>5. ASSUME UNCHANGED <<pc, exit, usesTemp, tmp>>, faults' \in 0..MaxFaults,
               attempt' = [attempt EXCEPT ![p] = @ + 1], attempt[p] + 1 < kMaxAttempts,
               token' \in [Proc -> Token \cup {None}],
               \A q \in Proc \ {p} : token'[q] = token[q]
        PROVE  CliInv'
    <3> USE <2>1, <2>2, <2>3, <2>5
    <3>1. TypeOK'
      <4>1. attempt' \in [Proc -> 0..kMaxAttempts]
        BY DEF TypeOK
      <4> QED
        BY <4>1 DEF TypeOK
    <3>2. CmdKnown' /\ CmdProgress'
      BY DEF CmdKnown, CmdProgress, TypeOK, Running, Steps, Opening, Holding, FileCommand
    <3>3. CmdTemps'
      BY DEF CmdTemps, TypeOK, Holding, Temp
    <3>4. CmdOutputs'
      BY DEF CmdOutputs, TypeOK, Holding, Temp
    <3>5. OwnTempStays'
      BY DEF OwnTempStays, TypeOK, Holding, Temp
    <3> QED
      BY <3>1, <3>2, <3>3, <3>4, <3>5
  \* The file is open; nobody at work used the name.
  <2>6. ASSUME NEW t \in Token, FreshDraw(p, t), NameIsFree(p, t), MarkTemp(p), Goto(p, "work"),
               token' = [token EXCEPT ![p] = t],
               tmp' = [tmp EXCEPT ![<<target[p], t>>] = p], UNCHANGED <<attempt, exit, faults>>
        PROVE  CliInv'
    <3> USE <2>1, <2>2, <2>3, <2>6 DEF NameIsFree, MarkTemp
    <3>1. <<target[p], t>> \in Output \X Token
      OBVIOUS
    <3>2. TypeOK'
      <4>1. tmp' \in [Output \X Token -> Inodes] /\ token' \in [Proc -> Token \cup {None}]
        BY <3>1 DEF TypeOK, Inodes
      <4>2. pc' \in [Proc -> Steps \cup {"idle", "done", "crashed"}]
        BY DEF TypeOK, Steps
      <4>3. usesTemp' \in [Proc -> BOOLEAN]
        BY DEF TypeOK
      <4> QED
        BY <4>1, <4>2, <4>3 DEF TypeOK
    <3>3. CmdKnown' /\ CmdProgress'
      <4>1. \A q \in Proc \ {p} : /\ pc'[q] = pc[q] /\ token'[q] = token[q]
                                  /\ usesTemp'[q] = usesTemp[q]
        BY DEF TypeOK
      <4>2. pc'[p] = "work" /\ token'[p] = t /\ (usesTemp'[p] <=> cmd[p] = "tofile")
        BY DEF TypeOK
      <4>3. CmdKnown'
        BY <4>1, <4>2, <2>1, <2>2 DEF CmdKnown, Running, Steps, Opening, Holding, FileCommand
      <4>4. CmdProgress'
        BY <4>1, <4>2, <2>1, <2>2 DEF CmdProgress, Opening
      <4> QED
        BY <4>3, <4>4
    <3>4. \A q \in Proc \ {p} : pc'[q] = pc[q] /\ usesTemp'[q] = usesTemp[q] /\ Temp(q)' = Temp(q)
      BY DEF TypeOK, Temp
    <3>5. ASSUME NEW q \in Proc \ {p}, token[q] \in Token, Running(q)
          PROVE  Temp(q) # <<target[p], t>> /\ tmp'[Temp(q)] = tmp[Temp(q)]
      <4>1. Temp(q) # <<target[p], t>>
        BY <3>5 DEF FreshDraw
      <4>2. Temp(q) \in Output \X Token
        BY <3>5 DEF CmdKnown, Temp
      <4> QED
        BY <4>1, <4>2 DEF TypeOK
    <3>6. /\ Temp(p)' = <<target[p], t>> /\ tmp'[<<target[p], t>>] = p
          /\ pc'[p] = "work"
          /\ \A n \in Output \X Token : n # <<target[p], t>> => tmp'[n] = tmp[n]
      BY <3>1 DEF TypeOK, Temp
    <3>7. CmdTemps'
      <4>1. \A q \in Proc \ {p} :
               \/ pc[q] \in Holding /\ cmd[q] \in FileCommand
               \/ pc[q] = "handler" /\ usesTemp[q]
               => token[q] \in Token /\ Running(q)
        BY DEF CmdKnown, Running, Steps, Holding
      <4> QED
        BY <3>4, <3>5, <3>6, <4>1 DEF CmdTemps, Holding
    <3>8. CmdOutputs'
      BY <3>4, <3>6 DEF CmdOutputs
    <3>9. OwnTempStays'
      <4>1. \A q \in Proc \ {p} : pc[q] \in Holding /\ cmd[q] \in FileCommand
                                   => token[q] \in Token /\ Running(q)
        BY DEF CmdKnown, Running, Steps, Holding
      <4> QED
        BY <3>4, <3>5, <3>6, <4>1 DEF OwnTempStays, Holding, FileCommand
    <3> QED
      BY <3>2, <3>3, <3>7, <3>8, <3>9
  <2>7. CASE Fault /\ Throw(p) /\ UNCHANGED <<token, attempt, usesTemp, tmp>>
    BY <2>4, <2>7 DEF TypeOK
  <2>8. ASSUME NEW t \in Token, token' = [token EXCEPT ![p] = t],
               UNCHANGED faults \/ Fault, CountAttempt(p), UNCHANGED <<tmp, usesTemp>>,
               IF MayRetry(p) THEN UNCHANGED <<pc, exit>> ELSE Throw(p)
        PROVE  CliInv'
    <3>1. /\ token' \in [Proc -> Token \cup {None}] /\ attempt' \in [Proc -> 0..kMaxAttempts]
          /\ \A q \in Proc \ {p} : token'[q] = token[q] /\ attempt'[q] = attempt[q]
      BY <2>2, <2>8 DEF CountAttempt, TypeOK
    <3>2. faults' \in 0..MaxFaults
      BY <2>8 DEF TypeOK
    <3> QED
      BY <2>4, <2>5, <2>8, <3>1, <3>2 DEF CountAttempt, MayRetry
  <2> QED
    BY <1>6, <2>6, <2>7, <2>8 DEF OpenCliOutputFile
<1>7. ASSUME NEW p \in Proc, Work(p) PROVE CliInv'
  <2> USE <1>7 DEF Work, PassOn
  <2>1. TypeOK'
    BY DEF TypeOK, CmdKnown, CmdProgress, Steps, Running, Opening, Holding, FileCommand, Inodes, Temp
  <2>2. CmdKnown'
    BY DEF CmdKnown, TypeOK, Steps, Running, Opening, Holding, FileCommand
  <2>3. CmdProgress'
    BY DEF CmdProgress, CmdKnown, TypeOK, Opening, FileCommand, Running, Steps
  <2>4. CmdTemps'
    BY DEF CmdTemps, CmdKnown, TypeOK, Opening, Holding, FileCommand, Running, Steps, Temp, Inodes
  <2>5. CmdOutputs'
    BY DEF CmdOutputs, CmdTemps, CmdKnown, CmdProgress, TypeOK, Opening, Holding,
           FileCommand, Running, Steps, Temp, Inodes
  <2>6. OwnTempStays'
    BY DEF OwnTempStays, CmdTemps, CmdKnown, TypeOK, Opening, Holding, FileCommand, Running, Steps, Temp
  <2> QED
    BY <2>1, <2>2, <2>3, <2>4, <2>5, <2>6
<1>8. ASSUME NEW p \in Proc, Finish(p) PROVE CliInv'
  <2> USE <1>8 DEF Finish, Drain, PassOn
  <2>1. TypeOK'
    BY DEF TypeOK, CmdKnown, CmdProgress, Steps, Running, Opening, Holding, FileCommand, Inodes, Temp
  <2>2. CmdKnown'
    BY DEF CmdKnown, TypeOK, Steps, Running, Opening, Holding, FileCommand
  <2>3. CmdProgress'
    BY DEF CmdProgress, CmdKnown, TypeOK, Opening, FileCommand, Running, Steps
  <2>4. CmdTemps'
    BY DEF CmdTemps, CmdKnown, TypeOK, Opening, Holding, FileCommand, Running, Steps, Temp, Inodes
  <2>5. CmdOutputs'
    BY DEF CmdOutputs, CmdTemps, CmdKnown, CmdProgress, TypeOK, Opening, Holding,
           FileCommand, Running, Steps, Temp, Inodes
  <2>6. OwnTempStays'
    BY DEF OwnTempStays, CmdTemps, CmdKnown, TypeOK, Opening, Holding, FileCommand, Running, Steps, Temp
  <2> QED
    BY <2>1, <2>2, <2>3, <2>4, <2>5, <2>6
<1>9. ASSUME NEW p \in Proc, CreateHardLink(p) PROVE CliInv'
  <2> USE <1>9 DEF CreateHardLink, OutputIsFree, AfterLink
  <2>1. TypeOK'
    <3>1. target[p] \in Output /\ tmp[Temp(p)] \in Inodes
      BY DEF TypeOK, CmdKnown, Running, Steps, Holding, FileCommand, Temp
    <3>2. dir' \in [Output -> Inodes]
      BY <3>1 DEF TypeOK
    <3>3. /\ pc' \in [Proc -> Steps \cup {"idle", "done", "crashed"}]
          /\ exit' \in [Proc -> {None, 0, 1}]
      BY DEF TypeOK, Steps
    <3>4. faults' \in 0..MaxFaults
      BY DEF TypeOK
    <3> QED
      BY <3>2, <3>3, <3>4 DEF TypeOK
  <2>2. CmdKnown'
    BY DEF CmdKnown, TypeOK, Steps, Running, Opening, Holding, FileCommand
  <2>3. CmdProgress'
    BY DEF CmdProgress, CmdKnown, TypeOK, Opening, FileCommand, Running, Steps
  <2>4. CmdTemps'
    BY DEF CmdTemps, CmdKnown, TypeOK, Opening, Holding, FileCommand, Running, Steps, Temp, Inodes
  <2>5. CmdOutputs'
    <3>0. pc[p] = "commit" /\ target[p] \in Output /\ cmd[p] \in FileCommand
      BY DEF CmdKnown, Running, Steps
    <3>1. /\ pc[p] = "commit" /\ target[p] \in Output /\ size[p] = Units
          /\ dir \in [Output -> Inodes] /\ pc \in [Proc -> Steps \cup {"idle", "done", "crashed"}]
          /\ \A o \in Output : dir[o] # p
      BY ONLY CliInv, <3>0, p \in Proc DEF CliInv, CmdOutputs, CmdProgress, TypeOK
    <3>5. tmp[Temp(p)] \in {p, NoFile}
      BY ONLY CliInv, <3>0, p \in Proc DEF CliInv, CmdTemps, Holding
    <3>2. UNCHANGED <<cmd, target, size, printed, made, exit>>
      OBVIOUS
    <3>3. CASE dir[target[p]] = NoFile /\ dir' = [dir EXCEPT ![target[p]] = p]
               /\ pc' = [pc EXCEPT ![p] = "unlink"]
      BY ONLY CmdOutputs, CliInodeAssumption, <3>1, <3>2, <3>3 DEF CmdOutputs, Inodes
    <3>4. CASE UNCHANGED dir /\ pc' = [pc EXCEPT ![p] = "handler"]
      BY ONLY CmdOutputs, <3>1, <3>2, <3>4 DEF CmdOutputs
    <3> QED
      BY <3>3, <3>4, <3>5
  <2>6. OwnTempStays'
    BY DEF OwnTempStays, CmdTemps, CmdKnown, TypeOK, Opening, Holding, FileCommand, Running, Steps, Temp
  <2> QED
    BY <2>1, <2>2, <2>3, <2>4, <2>5, <2>6
<1>10. ASSUME NEW p \in Proc, UnlinkTemp(p) PROVE CliInv'
  <2> USE <1>10 DEF UnlinkTemp, RemoveFileQuietly
  <2>a. /\ pc[p] = "unlink" /\ cmd[p] \in FileCommand /\ exit[p] = None
        /\ Temp(p) \in Output \X Token /\ tmp[Temp(p)] \in {p, NoFile}
    BY DEF CmdKnown, CmdTemps, Holding, Running, Steps, Temp
  <2>b. \A q \in Proc \ {p} : /\ pc'[q] = pc[q] /\ cmd'[q] = cmd[q] /\ usesTemp'[q] = usesTemp[q]
                              /\ exit'[q] = exit[q] /\ Temp(q)' = Temp(q)
    BY DEF TypeOK, Temp
  <2>c. \A q \in Proc \ {p} : leak'[q] = leak[q]
    BY DEF TypeOK
  <2>d. pc'[p] = "done" /\ cmd'[p] = cmd[p] /\ Temp(p)' = Temp(p)
    BY DEF TypeOK, Temp
  <2>e. \A n \in Output \X Token : tmp'[n] = tmp[n] \/ (n = Temp(p) /\ tmp'[n] = NoFile)
    BY DEF TypeOK
  <2>f. \A n \in Output \X Token : tmp'[n] = p => leak'[p]
    <3>1. \A n \in Output \X Token : tmp[n] = p => n = Temp(p)
      BY DEF CmdTemps
    <3> QED
      BY <2>a, <3>1 DEF TypeOK
  <2>g. \A q \in Proc : /\ pc[q] \in Holding /\ cmd[q] \in FileCommand => Temp(q) \in Output \X Token
                        /\ pc[q] = "handler" /\ usesTemp[q] => Temp(q) \in Output \X Token
    BY DEF CmdKnown, Holding, Running, Steps, Temp
  <2>1. TypeOK'
    <3>1. tmp' \in [Output \X Token -> Inodes] /\ leak' \in [Proc -> BOOLEAN]
      BY DEF TypeOK, Inodes
    <3>2. usesTemp' \in [Proc -> BOOLEAN]
      BY DEF TypeOK
    <3>3. /\ pc' \in [Proc -> Steps \cup {"idle", "done", "crashed"}]
          /\ exit' \in [Proc -> {None, 0, 1}]
      BY DEF TypeOK, Steps
    <3>4. faults' \in 0..MaxFaults
      BY DEF TypeOK
    <3> QED
      BY <3>1, <3>2, <3>3, <3>4 DEF TypeOK
  <2>2. CmdKnown'
    BY DEF CmdKnown, TypeOK, Steps, Running, Opening, Holding, FileCommand
  <2>3. CmdProgress'
    BY DEF CmdProgress, CmdKnown, TypeOK, Opening, FileCommand, Running, Steps
  <2>4. CmdTemps'
    BY <2>a, <2>b, <2>c, <2>d, <2>e, <2>f, <2>g DEF CmdTemps, Holding
  <2>5. CmdOutputs'
    BY DEF CmdOutputs, CmdTemps, CmdKnown, CmdProgress, TypeOK, Opening, Holding,
           FileCommand, Running, Steps, Temp, Inodes
  <2>6. OwnTempStays'
    <3>1. ASSUME NEW q \in Proc \ {p}, pc[q] \in Holding, cmd[q] \in FileCommand,
                 tmp[Temp(q)] = q
          PROVE  tmp'[Temp(q)] = q
      BY <2>a, <2>e, <2>g, <3>1
    <3> QED
      BY <2>a, <2>b, <2>d, <2>e, <2>g, <3>1 DEF OwnTempStays, Holding, FileCommand
  <2> QED
    BY <2>1, <2>2, <2>3, <2>4, <2>5, <2>6
<1>11. ASSUME NEW p \in Proc, Handler(p) PROVE CliInv'
  <2> USE <1>11 DEF Handler, PassOn, RemoveFileQuietly, MustRemove
  <2>a. pc[p] = "handler" /\ exit[p] = None /\ target[p] \in Output
    BY DEF CmdKnown, Running, Steps
  <2>b. \A q \in Proc \ {p} : /\ pc'[q] = pc[q] /\ cmd'[q] = cmd[q] /\ usesTemp'[q] = usesTemp[q]
                              /\ exit'[q] = exit[q] /\ Temp(q)' = Temp(q)
    BY DEF TypeOK, Temp
  <2>c. \A q \in Proc \ {p} : leak'[q] = leak[q]
    BY DEF TypeOK
  <2>d. pc'[p] = "done" /\ exit'[p] = 1 /\ cmd'[p] = cmd[p] /\ Temp(p)' = Temp(p)
    BY DEF TypeOK, Temp
  <2>e. \A n \in Output \X Token : tmp'[n] = tmp[n] \/ (n = Temp(p) /\ tmp'[n] = NoFile)
    BY DEF TypeOK
  <2>f. \A n \in Output \X Token : tmp'[n] = p => leak'[p]
    <3>1. ASSUME NEW n \in Output \X Token, tmp[n] = p
          PROVE  n = Temp(p) /\ MustRemove(p)
      BY <2>a, <3>1 DEF CmdTemps, FileCommand, Holding, Temp
    <3> QED
      BY <3>1 DEF TypeOK, Inodes
  <2>g. \A q \in Proc : /\ pc[q] \in Holding /\ cmd[q] \in FileCommand => Temp(q) \in Output \X Token
                        /\ pc[q] = "handler" /\ usesTemp[q] => Temp(q) \in Output \X Token
    BY DEF CmdKnown, Holding, Running, Steps, Temp
  \* What the handler takes away is its own file, or the process ran write_new_output_file.
  <2>h. \/ UNCHANGED tmp
        \/ tmp[Temp(p)] \in {p, NoFile}
        \/ cmd[p] = "newfile"
    BY <2>a DEF CmdTemps
  <2>1. TypeOK'
    <3>1. tmp' \in [Output \X Token -> Inodes] /\ leak' \in [Proc -> BOOLEAN]
      BY DEF TypeOK, Inodes
    <3>2. size' \in [Proc -> 0..Units] /\ printed' \in [Proc -> 0..Units]
      BY DEF TypeOK
    <3>3. /\ pc' \in [Proc -> Steps \cup {"idle", "done", "crashed"}]
          /\ exit' \in [Proc -> {None, 0, 1}]
      BY DEF TypeOK, Steps
    <3>4. faults' \in 0..MaxFaults
      BY DEF TypeOK
    <3> QED
      BY <3>1, <3>2, <3>3, <3>4 DEF TypeOK
  <2>2. CmdKnown'
    BY DEF CmdKnown, TypeOK, Steps, Running, Opening, Holding, FileCommand
  <2>3. CmdProgress'
    BY DEF CmdProgress, CmdKnown, TypeOK, Opening, FileCommand, Running, Steps
  <2>4. CmdTemps'
    BY <2>a, <2>b, <2>c, <2>d, <2>e, <2>f, <2>g DEF CmdTemps, Holding
  <2>5. CmdOutputs'
    BY DEF CmdOutputs, CmdTemps, CmdKnown, CmdProgress, TypeOK, Opening, Holding,
           FileCommand, Running, Steps, Temp, Inodes
  <2>6. OwnTempStays'
    <3>1. ASSUME NEW q \in Proc \ {p}, pc[q] \in Holding, cmd[q] \in FileCommand,
                 tmp[Temp(q)] = q
          PROVE  \/ tmp'[Temp(q)] = q
                 \/ cmd[p] = "newfile" /\ Temp(p) = Temp(q) /\ tmp'[Temp(q)] = NoFile
      BY <2>a, <2>e, <2>g, <2>h, <3>1
    <3> QED
      BY <2>a, <2>b, <2>d, <2>e, <2>g, <3>1 DEF OwnTempStays, Holding, FileCommand
  <2> QED
    BY <2>1, <2>2, <2>3, <2>4, <2>5, <2>6
<1>12. ASSUME NEW p \in Proc, Kill(p) PROVE CliInv'
  <2> USE <1>12 DEF Kill
  <2>1. TypeOK'
    BY DEF TypeOK, CmdKnown, CmdProgress, Steps, Running, Opening, Holding, FileCommand, Inodes, Temp
  <2>2. CmdKnown'
    BY DEF CmdKnown, TypeOK, Steps, Running, Opening, Holding, FileCommand
  <2>3. CmdProgress'
    BY DEF CmdProgress, CmdKnown, TypeOK, Opening, FileCommand, Running, Steps
  <2>4. CmdTemps'
    BY DEF CmdTemps, CmdKnown, TypeOK, Opening, Holding, FileCommand, Running, Steps, Temp, Inodes
  <2>5. CmdOutputs'
    BY DEF CmdOutputs, CmdTemps, CmdKnown, CmdProgress, TypeOK, Opening, Holding,
           FileCommand, Running, Steps, Temp, Inodes
  <2>6. OwnTempStays'
    BY DEF OwnTempStays, CmdTemps, CmdKnown, TypeOK, Opening, Holding, FileCommand, Running, Steps, Temp
  <2> QED
    BY <2>1, <2>2, <2>3, <2>4, <2>5, <2>6
<1>13. ASSUME NEW o \in Output, ForeignCreate(o) PROVE CliInv'
  BY <1>13 DEF ForeignCreate, TypeOK, CmdKnown, CmdProgress, CmdTemps, CmdOutputs, OwnTempStays,
               Running, Temp, Inodes
<1>14. ASSUME UNCHANGED vars PROVE CliInv'
  BY <1>14 DEF vars, TypeOK, CmdKnown, CmdProgress, CmdTemps, CmdOutputs, OwnTempStays, Running, Temp
<1> QED
  BY <1>1, <1>2, <1>3, <1>4, <1>5, <1>6, <1>7, <1>8, <1>9, <1>10, <1>11, <1>12, <1>13, <1>14
     DEF Next, ProcStep

\* CliInv is an invariant of the specification.
LEMMA CliInvariant == Spec => []CliInv
  BY InitCli, NextCli, PTL DEF Spec

-----------------------------------------------------------------------------
(* The properties. *)

\* Every variable keeps its type; no process draws more than kMaxAttempts names or writes
\* more than the result has.
THEOREM CliTypeCorrect == Spec => []TypeOK
  BY CliInvariant, PTL DEF CliInv

\* What stands at an output path is the whole result of the command asked to write it: the
\* stream is closed before the hard link is made.
THEOREM WholeResultCorrect == Spec => []WholeResult
<1>1. CliInv => WholeResult
  BY DEF CliInv, CmdOutputs, WholeResult
<1> QED
  BY <1>1, CliInvariant, PTL

\* Exit code 0 means the result is in place, printed or verified; 1 that nothing was published.
THEOREM ExitCodeTellsCorrect == Spec => []ExitCodeTells
<1>1. CliInv => ExitCodeTells
  BY DEF CliInv, CmdOutputs, ExitCodeTells, FileCommand
<1> QED
  BY <1>1, CliInvariant, PTL

\* A command that has ended leaves no temporary file unless removing it failed: whatever a
\* handler must remove, usesTemp and temp_path tell it.
THEOREM NoTempLeftCorrect == Spec => []NoTempLeft
<1>1. CliInv => NoTempLeft
  BY DEF CliInv, CmdTemps, NoTempLeft, Holding
<1> QED
  BY <1>1, CliInvariant, PTL

\* Nobody takes a working command's temporary file away but a write_new_output_file that
\* fails after drawing the same name.
THEOREM OwnTempStaysCorrect == Spec => []OwnTempStays
  BY CliInvariant, PTL DEF CliInv

\* An output path is never overwritten, whatever commands race for it.
THEOREM NeverReplacedCorrect == Spec => NeverReplaced
<1> DEFINE Kept == \A o \in Output : dir[o] # NoFile => dir'[o] = dir[o]
<1>1. CliInv /\ [Next]_vars => [Kept]_vars
  <2> SUFFICES ASSUME CliInv, [Next]_vars PROVE Kept \/ UNCHANGED vars
    OBVIOUS
  <2> USE DEF procVars, CliInv
  <2>1. ASSUME NEW p \in Proc, CreateHardLink(p) PROVE Kept
    BY <2>1 DEF CreateHardLink, OutputIsFree, TypeOK
  <2>2. ASSUME NEW o \in Output, ForeignCreate(o) PROVE Kept
    BY <2>2 DEF ForeignCreate, TypeOK
  <2>3. ASSUME NEW p \in Proc, \/ Start(p) \/ StartFails(p) \/ Kill(p) \/ PrintResult(p)
                               \/ OpenCliInputFile(p) \/ EnsureOutputFileDoesNotExist(p)
                               \/ OpenCliOutputFile(p) \/ Work(p) \/ Finish(p)
                               \/ UnlinkTemp(p) \/ Handler(p)
        PROVE  Kept
    BY <2>3 DEF Start, StartFails, Kill, PrintResult, OpenCliInputFile,
                EnsureOutputFileDoesNotExist, OpenCliOutputFile, Work, Finish, UnlinkTemp, Handler
  <2> QED
    BY <2>1, <2>2, <2>3 DEF Next, ProcStep
<1> QED
  BY <1>1, CliInvariant, PTL DEF Spec, NeverReplaced

-----------------------------------------------------------------------------
(* CliOutput implements AtomicPublish.                                       *)

\* What stands at an output is never short, so a reader sees the directory.
LEMMA VisibleIsDir == CliInv => VisibleFile = dir
  BY DEF CliInv, CmdOutputs, TypeOK, VisibleFile

\* The same after a step.
LEMMA VisibleIsDirNext == CliInv' => (VisibleFile = dir)'
  BY VisibleIsDir, PTL

\* A step of p that does not end a file command reports nothing.
LEMMA SilentStep ==
    ASSUME CliInv, CliInv', NEW p \in Proc, NEW s, pc' = [pc EXCEPT ![p] = s], UNCHANGED dir,
           pc[p] # "done" /\ (s = "done" => cmd'[p] \notin FileCommand),
           \A q \in Proc \ {p} : cmd'[q] = cmd[q] /\ exit'[q] = exit[q]
    PROVE  UNCHANGED <<VisibleFile, Reported>>
<1>1. Reported' = Reported
  BY DEF CliInv, TypeOK, Reported, FileCommand
<1> QED
  BY <1>1, VisibleIsDir, VisibleIsDirNext

\* A step of p that ends a file command reports its exit code.
LEMMA ReportStep ==
    ASSUME CliInv, NEW p \in Proc, NEW code \in {0, 1}, cmd[p] \in FileCommand, Exit(p, code),
           UNCHANGED cmd
    PROVE  Reported' = [Reported EXCEPT ![p] = IF code = 0 THEN "ok" ELSE "invalid_input"]
  BY DEF CliInv, TypeOK, Reported, FileCommand, Exit, Goto

\* Every step publishes as AtomicPublish does, or changes nothing that it sees.
LEMMA StepRefines ==
    ASSUME CliInv, CliInv', [Next]_vars
    PROVE  [Abstract!Next]_<<VisibleFile, Reported>>
<1> USE DEF procVars, Goto, Exit, Throw, Fault
<1> DEFINE Mapped == [Abstract!Next]_<<VisibleFile, Reported>>
           Silent == UNCHANGED <<VisibleFile, Reported>>
<1>v. VisibleFile = dir /\ VisibleFile' = dir'
  BY VisibleIsDir, VisibleIsDirNext
<1>t. TypeOK /\ TypeOK' /\ CmdKnown
  BY DEF CliInv
<1>1. ASSUME NEW p \in Proc, Start(p) PROVE Silent
  <2>1. /\ pc[p] = "idle" /\ UNCHANGED dir
        /\ \A q \in Proc \ {p} : cmd'[q] = cmd[q] /\ exit'[q] = exit[q]
    BY <1>1, <1>t DEF Start, TypeOK
  <2>2. PICK c \in Command : pc' = [pc EXCEPT ![p] = FirstStep(c)]
    BY <1>1 DEF Start
  <2>3. FirstStep(c) # "done"
    BY DEF FirstStep
  <2> QED
    BY <2>1, <2>2, <2>3, SilentStep
<1>2. ASSUME NEW p \in Proc, PrintResult(p) PROVE Silent
  <2>1. /\ pc[p] = "print" /\ pc' = [pc EXCEPT ![p] = "done"] /\ UNCHANGED <<dir, cmd>>
        /\ \A q \in Proc \ {p} : exit'[q] = exit[q]
    BY <1>2, <1>t DEF PrintResult, TypeOK
  <2>2. cmd[p] \notin FileCommand
    BY <1>t, <2>1 DEF CmdKnown, FileCommand
  <2> QED
    BY <2>1, <2>2, SilentStep
<1>3. ASSUME NEW p \in Proc, \/ OpenCliInputFile(p) \/ EnsureOutputFileDoesNotExist(p)
                             \/ OpenCliOutputFile(p) \/ Work(p) \/ Kill(p)
      PROVE  Silent
  <2>1. UNCHANGED <<dir, cmd, exit>> /\ pc[p] # "done"
    BY <1>3 DEF OpenCliInputFile, EnsureOutputFileDoesNotExist, OpenCliOutputFile, Work, Kill,
                Running, Steps
  <2>2. pc' = pc \/ \E s \in Steps \cup {"crashed"} : pc' = [pc EXCEPT ![p] = s]
    BY <1>3 DEF OpenCliInputFile, EnsureOutputFileDoesNotExist, OpenCliOutputFile, Work, Kill, Steps
  <2>3. CASE pc' = pc
    BY <1>v, <2>1, <2>3 DEF Reported
  <2> QED
    BY <2>1, <2>2, <2>3, SilentStep DEF Steps
\* A file command only closes its file here; the others end.
<1>4. ASSUME NEW p \in Proc, Finish(p) PROVE Silent
  <2>1. /\ UNCHANGED <<dir, cmd>> /\ pc[p] = "finish"
        /\ \A q \in Proc \ {p} : exit'[q] = exit[q]
    BY <1>4, <1>t DEF Finish, TypeOK
  <2>2. \E s \in {"commit", "handler", "done"} :
           pc' = [pc EXCEPT ![p] = s] /\ (s = "done" => cmd[p] \notin FileCommand)
    BY <1>4 DEF Finish, FileCommand
  <2> QED
    BY <2>1, <2>2, SilentStep
\* The hard link publishes; what stands in its way leads to the handler.
<1>5. ASSUME NEW p \in Proc, CreateHardLink(p) PROVE Mapped
  <2>1. /\ pc[p] = "commit" /\ target[p] \in Output /\ cmd[p] \in FileCommand
        /\ tmp[Temp(p)] \in {p, NoFile} /\ UNCHANGED <<cmd, exit>>
    BY <1>5, <1>t DEF CreateHardLink, AfterLink, CliInv, CmdKnown, CmdTemps, Running, Steps, Holding
  <2>2. \E s \in {"unlink", "handler"} : pc' = [pc EXCEPT ![p] = s]
    BY <1>5 DEF CreateHardLink, AfterLink
  <2>3. CASE UNCHANGED dir
    <3>1. Silent
      BY <2>1, <2>2, <2>3, SilentStep
    <3> QED
      BY <3>1
  <2>4. CASE dir[target[p]] = NoFile /\ dir' = [dir EXCEPT ![target[p]] = p]
    <3>1. Reported' = Reported /\ Reported[p] = None
      BY <1>t, <2>1, <2>2 DEF Reported, TypeOK
    <3>2. \A o \in Output : dir[o] # p
      BY <2>1 DEF CliInv, CmdOutputs
    <3>3. Abstract!Publish(p, target[p])
      BY <1>v, <2>4, <3>1, <3>2 DEF Abstract!Publish, Abstract!Published
    <3> QED
      BY <2>1, <3>3 DEF Abstract!Next
  <2> QED
    BY <1>5, <2>1, <2>3, <2>4 DEF CreateHardLink, OutputIsFree
\* Exit code 0 acknowledges what was linked.
<1>6. ASSUME NEW p \in Proc, UnlinkTemp(p) PROVE Mapped
  <2>1. pc[p] = "unlink" /\ Exit(p, 0) /\ UNCHANGED <<cmd, dir>>
    BY <1>6 DEF UnlinkTemp
  <2>2. target[p] \in Output /\ cmd[p] \in FileCommand /\ dir[target[p]] = p
    BY <1>t, <2>1 DEF CliInv, CmdKnown, CmdOutputs, Running, Steps
  <2>3. Reported' = [Reported EXCEPT ![p] = "ok"] /\ Reported[p] = None
    <3>1. Reported' = [Reported EXCEPT ![p] = IF 0 = 0 THEN "ok" ELSE "invalid_input"]
      BY <2>1, <2>2, ReportStep
    <3> QED
      BY <2>1, <3>1 DEF Reported
  <2>4. Abstract!Acknowledge(p)
    BY <1>v, <2>1, <2>2, <2>3 DEF Abstract!Acknowledge, Abstract!Published
  <2> QED
    BY <2>4 DEF Abstract!Next
\* Exit code 1 refuses; nothing of it is published.
<1>7. ASSUME NEW p \in Proc, Handler(p) \/ StartFails(p) PROVE Mapped
  <2>1. pc[p] \in {"handler", "idle"} /\ Exit(p, 1) /\ UNCHANGED <<cmd, dir>>
    BY <1>7 DEF Handler, StartFails
  <2>2. CASE cmd[p] \in FileCommand
    <3>1. Reported' = [Reported EXCEPT ![p] = "invalid_input"] /\ Reported[p] = None
      <4>1. Reported' = [Reported EXCEPT ![p] = IF 1 = 0 THEN "ok" ELSE "invalid_input"]
        BY <2>1, <2>2, ReportStep
      <4> QED
        BY <2>1, <4>1 DEF Reported
    <3>2. \A o \in Output : dir[o] # p
      BY <2>1 DEF CliInv, CmdOutputs
    <3>3. Abstract!Refuse(p)
      BY <1>v, <2>1, <3>1, <3>2 DEF Abstract!Refuse, Abstract!Published, Abstract!Errors
    <3> QED
      BY <3>3 DEF Abstract!Next
  <2>3. CASE cmd[p] \notin FileCommand
    <3>1. \A q \in Proc \ {p} : exit'[q] = exit[q]
      BY <1>t, <2>1 DEF TypeOK
    <3>2. Silent
      BY <2>1, <2>3, <3>1, SilentStep
    <3> QED
      BY <3>2
  <2> QED
    BY <2>2, <2>3
<1>8. ASSUME NEW o \in Output, ForeignCreate(o) PROVE Mapped
  <2>1. Abstract!ForeignCreate(o)
    BY <1>v, <1>8 DEF ForeignCreate, Reported, Abstract!ForeignCreate
  <2> QED
    BY <2>1 DEF Abstract!Next
<1>9. ASSUME UNCHANGED vars PROVE Silent
  BY <1>v, <1>9 DEF vars, Reported
<1> QED
  BY <1>1, <1>2, <1>3, <1>4, <1>5, <1>6, <1>7, <1>8, <1>9 DEF Next, ProcStep

\* The command line tool implements AtomicPublish with its own temporary files and hard links:
\* an output goes from absent to one whole result in a single step, is never replaced, and a
\* command that reports failure has published nothing.
THEOREM CliPublishesAtomically == Spec => PublishesAtomically
<1>1. Init => Abstract!Init
  BY DEF Init, VisibleFile, Reported, Abstract!Init
<1>2. [Next]_vars /\ CliInv /\ CliInv' => [Abstract!Next]_<<VisibleFile, Reported>>
  BY StepRefines
<1> QED
  BY <1>1, <1>2, CliInvariant, PTL DEF Spec, PublishesAtomically, Abstract!Spec
=============================================================================

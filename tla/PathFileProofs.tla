--------------------------- MODULE PathFileProofs ---------------------------
(***************************************************************************)
(* Proofs about PathFile, for any number of calls, output paths, tokens,   *)
(* units, faults and power losses.                                         *)
(***************************************************************************)
EXTENDS PathFile, TLAPS

\* Steps before the payload and steps on which the temporary name is held.
Early == {"ensure", "prepare", "temp", "input", "header"}
Holding == {"input", "header", "payload", "flush", "close", "commit", "rename", "unlink"}

\* A call that has begun knows its output; past the exclusive open, its token.
CallKnown ==
    \A p \in Op :
        /\ Running(p) => target[p] \in Output
        /\ pc[p] \in Holding \cup {"syncdir", "cleanup"} => token[p] \in Token

\* The counters of a call match the step it has reached.
Progress ==
    \A p \in Op :
        /\ pc[p] = "idle" => attempt[p] = 0
        /\ pc[p] \in Early => attempt[p] < kMaxAttempts
        /\ pc[p] \in Early \cup {"idle"} => written[p] = 0
        /\ pc[p] = "payload" => written[p] < Units
        /\ pc[p] = "flush" => written[p] = Units

\* Bytes move from the buffer to the kernel to the disk.
Layered == \A p \in Op : durable[p] <= size[p] /\ size[p] <= written[p]

\* The commit finds everything in the kernel, and on the disk where there is a sync.
Flushed ==
    \A p \in Op :
        pc[p] \in {"close", "commit", "rename", "unlink", "syncdir"} =>
            size[p] = Units /\ (Platform # "other" => durable[p] = Units)

\* The temporary name of a running call names its own file, or nothing once it was
\* given back.
TempsOwned ==
    /\ \A p \in Op : pc[p] \in Holding => tmp[Temp(p)] = p
    /\ \A p \in Op : pc[p] \in {"syncdir", "cleanup"} => tmp[Temp(p)] \in {p, NoFile}

\* rename is a step of the third platform only, unlink and syncdir of the first.
PlatformSteps ==
    \A p \in Op : /\ pc[p] = "rename" => Platform = "other"
                  /\ pc[p] \in {"unlink", "syncdir"} => Platform = "posix"

Base == TypeOK /\ CallKnown /\ Progress /\ Layered /\ Flushed /\ TempsOwned /\ PlatformSteps

USE PlatformAssumption, AttemptsAssumption, UnitsAssumption, BoundsAssumption, InodeAssumption

\* Base holds before any call is made.
LEMMA InitBase == Init => Base
  BY DEF Init, Base, TypeOK, CallKnown, Progress, Layered, Flushed, TempsOwned, PlatformSteps,
         Running, Step, Early, Holding, Inode, Error

\* Every step of every call, and of the environment, preserves Base.
LEMMA NextBase == Base /\ [Next]_vars => Base'
<1> SUFFICES ASSUME Base, [Next]_vars PROVE Base'
  OBVIOUS
<1> USE DEF Base, callVars, inodeVars, dirVars, envVars, Goto, Return, ThrowInTry, Fault
<1>1. ASSUME NEW p \in Op, Call(p) PROVE Base'
  <2> USE <1>1 DEF Call
  <2>1. TypeOK'
    BY DEF TypeOK, Progress, Layered, CallKnown, Running, Step, Early, Holding, Inode, Error, Temp
  <2>2. Progress' /\ Layered' /\ Flushed'
    BY DEF Progress, Layered, Flushed, TypeOK, Early, Running, Step
  <2>3. CallKnown' /\ TempsOwned' /\ PlatformSteps'
    BY DEF CallKnown, TempsOwned, PlatformSteps, TypeOK, Running, Step, Holding, Temp
  <2> QED
    BY <2>1, <2>2, <2>3
<1>2. ASSUME NEW p \in Op, CallWithEmptyPassword(p) PROVE Base'
  <2> USE <1>2 DEF CallWithEmptyPassword
  <2>1. TypeOK'
    BY DEF TypeOK, Progress, Layered, CallKnown, Running, Step, Early, Holding, Inode, Error, Temp
  <2>2. Progress' /\ Layered' /\ Flushed'
    BY DEF Progress, Layered, Flushed, TypeOK, Early, Running, Step
  <2>3. CallKnown' /\ TempsOwned' /\ PlatformSteps'
    BY DEF CallKnown, TempsOwned, PlatformSteps, TypeOK, Running, Step, Holding, Temp
  <2> QED
    BY <2>1, <2>2, <2>3
<1>3. ASSUME NEW p \in Op, EnsureOutputDoesNotExist(p) PROVE Base'
  <2> USE <1>3 DEF EnsureOutputDoesNotExist
  <2>1. TypeOK'
    <3>1. /\ pc' \in [Op -> Step \cup {"idle", "done", "crashed"}]
          /\ result' \in [Op -> Error \cup {None, "ok"}]
      BY DEF TypeOK, Error, Step
    <3>2. faults' \in 0..MaxFaults
      BY DEF TypeOK
    <3> QED
      BY <3>1, <3>2 DEF TypeOK
  <2>2. Progress' /\ Layered' /\ Flushed'
    BY DEF Progress, Layered, Flushed, TypeOK, Early, Running, Step
  <2>3. CallKnown' /\ TempsOwned' /\ PlatformSteps'
    BY DEF CallKnown, TempsOwned, PlatformSteps, TypeOK, Running, Step, Holding, Temp
  <2> QED
    BY <2>1, <2>2, <2>3
<1>4. ASSUME NEW p \in Op, MakeHeaderAndKey(p) PROVE Base'
  <2> USE <1>4 DEF MakeHeaderAndKey
  <2>1. TypeOK'
    <3>1. /\ pc' \in [Op -> Step \cup {"idle", "done", "crashed"}]
          /\ result' \in [Op -> Error \cup {None, "ok"}]
      BY DEF TypeOK, Error, Step
    <3>2. faults' \in 0..MaxFaults
      BY DEF TypeOK
    <3> QED
      BY <3>1, <3>2 DEF TypeOK
  <2>2. Progress' /\ Layered' /\ Flushed'
    BY DEF Progress, Layered, Flushed, TypeOK, Early, Running, Step
  <2>3. CallKnown' /\ TempsOwned' /\ PlatformSteps'
    BY DEF CallKnown, TempsOwned, PlatformSteps, TypeOK, Running, Step, Holding, Temp
  <2> QED
    BY <2>1, <2>2, <2>3
<1>5. ASSUME NEW p \in Op, OpenUniqueTempOutput(p) PROVE Base'
  <2> USE <1>5 DEF OpenUniqueTempOutput
  <2>1. CASE \E t \in Token : FreshDraw(p, t) /\ NameIsFree(p, t) /\ CreateTemp(p, t)
    <3>1. PICK t \in Token : FreshDraw(p, t) /\ NameIsFree(p, t) /\ CreateTemp(p, t)
      BY <2>1
    <3> USE <3>1 DEF NameIsFree, CreateTemp
    <3>2. <<target[p], t>> \in Output \X Token
      BY DEF CallKnown, Running, Step
    <3>3. TypeOK'
      <4>1. tmp' \in [Output \X Token -> Inode] /\ token' \in [Op -> Token \cup {None}]
        BY <3>2 DEF TypeOK, Inode
      <4>2. /\ pc' \in [Op -> Step \cup {"idle", "done", "crashed"}]
            /\ result' \in [Op -> Error \cup {None, "ok"}]
        BY DEF TypeOK, Error, Step
      <4>3. leak' \in [Op -> {None, "remove", "fdopen"}] /\ faults' \in 0..MaxFaults
        BY DEF TypeOK
      <4> QED
        BY <4>1, <4>2, <4>3 DEF TypeOK
    <3>4. Progress' /\ Layered' /\ Flushed'
      BY DEF Progress, Layered, Flushed, TypeOK, Early
    <3>5. CallKnown' /\ PlatformSteps'
      BY DEF CallKnown, PlatformSteps, TypeOK, Running, Step, Holding
    <3>6. ASSUME NEW q \in Op, q # p, pc[q] \in Holding \cup {"syncdir", "cleanup"}
          PROVE  tmp'[Temp(q)] = tmp[Temp(q)]
      BY <3>2, <3>6 DEF FreshDraw, TempsOwned, CallKnown, TypeOK, Running, Step, Holding, Temp
    <3>7. tmp'[<<target[p], t>>] = p
      BY <3>2 DEF TypeOK
    <3>8. TempsOwned'
      BY <3>6, <3>7 DEF TempsOwned, TypeOK, Holding, Temp
    <3> QED
      BY <3>3, <3>4, <3>5, <3>8
  <2>2. CASE \/ TryAnotherName(p)
             \/ Fault /\ Return(p, "backend_failure") /\ UNCHANGED <<tmp, token, attempt, leak>>
    <3> USE <2>2 DEF TryAnotherName, CountAttempt, MayRetry
    <3>1. TypeOK'
      <4>1. attempt[p] + 1 \in 0..kMaxAttempts
        BY DEF TypeOK, Progress, Early
      <4>2. attempt' \in [Op -> 0..kMaxAttempts]
        BY <4>1 DEF TypeOK
      <4>3. /\ pc' \in [Op -> Step \cup {"idle", "done", "crashed"}]
            /\ result' \in [Op -> Error \cup {None, "ok"}]
        BY DEF TypeOK, Error, Step
      <4>4. faults' \in 0..MaxFaults
        BY DEF TypeOK
      <4> QED
        BY <4>2, <4>3, <4>4 DEF TypeOK
    <3>2. Progress' /\ Layered' /\ Flushed'
      BY DEF Progress, Layered, Flushed, TypeOK, Early
    <3>3. CallKnown' /\ TempsOwned' /\ PlatformSteps'
      BY DEF CallKnown, TempsOwned, PlatformSteps, TypeOK, Running, Step, Holding, Temp
    <3> QED
      BY <3>1, <3>2, <3>3
  <2> QED
    BY <2>1, <2>2
<1>6. ASSUME NEW p \in Op, OpenInput(p) PROVE Base'
  <2> USE <1>6 DEF OpenInput
  <2>1. TypeOK'
    <3>1. /\ pc' \in [Op -> Step \cup {"idle", "done", "crashed"}]
          /\ result' \in [Op -> Error \cup {None, "ok"}]
      BY DEF TypeOK, Error, Step
    <3>2. faults' \in 0..MaxFaults
      BY DEF TypeOK
    <3> QED
      BY <3>1, <3>2 DEF TypeOK
  <2>2. Progress' /\ Layered' /\ Flushed'
    BY DEF Progress, Layered, Flushed, TypeOK, Early, Running, Step
  <2>3. CallKnown' /\ TempsOwned' /\ PlatformSteps'
    BY DEF CallKnown, TempsOwned, PlatformSteps, TypeOK, Running, Step, Holding, Temp
  <2> QED
    BY <2>1, <2>2, <2>3
<1>7. ASSUME NEW p \in Op, ReadHeader(p) PROVE Base'
  <2> USE <1>7 DEF ReadHeader
  <2>1. TypeOK'
    <3>1. /\ pc' \in [Op -> Step \cup {"idle", "done", "crashed"}]
          /\ result' \in [Op -> Error \cup {None, "ok"}]
      BY DEF TypeOK, Error, Step
    <3>2. faults' \in 0..MaxFaults
      BY DEF TypeOK
    <3> QED
      BY <3>1, <3>2 DEF TypeOK
  <2>2. Progress' /\ Layered' /\ Flushed'
    BY DEF Progress, Layered, Flushed, TypeOK, Early, Running, Step
  <2>3. CallKnown' /\ TempsOwned' /\ PlatformSteps'
    BY DEF CallKnown, TempsOwned, PlatformSteps, TypeOK, Running, Step, Holding, Temp
  <2> QED
    BY <2>1, <2>2, <2>3
<1>8. ASSUME NEW p \in Op, WritePayload(p) PROVE Base'
  <2> USE <1>8 DEF WritePayload, PayloadError
  <2>1. TypeOK'
    <3>0. written[p] \in 0..Units /\ written[p] + 1 \in 0..Units /\ size[p] \in 0..Units
      BY DEF TypeOK, Progress
    <3>1. written' \in [Op -> 0..Units]
      BY <3>0 DEF TypeOK
    <3>2. size' \in [Op -> 0..Units]
      BY <3>0 DEF TypeOK
    <3>3. /\ pc' \in [Op -> Step \cup {"idle", "done", "crashed"}]
          /\ result' \in [Op -> Error \cup {None, "ok"}]
      BY DEF TypeOK, Error, Step
    <3>4. faults' \in 0..MaxFaults
      BY DEF TypeOK
    <3> QED
      BY <3>1, <3>2, <3>3, <3>4 DEF TypeOK
  <2>2. Progress' /\ Layered' /\ Flushed'
    BY DEF Progress, Layered, Flushed, TypeOK, Early
  <2>3. CallKnown' /\ TempsOwned' /\ PlatformSteps'
    BY DEF CallKnown, TempsOwned, PlatformSteps, TypeOK, Running, Step, Holding, Temp
  <2> QED
    BY <2>1, <2>2, <2>3
<1>9. ASSUME NEW p \in Op, Flush(p) PROVE Base'
  <2> USE <1>9 DEF Flush, SyncFile
  <2>1. TypeOK'
    <3>1. size' \in [Op -> 0..Units] /\ durable' \in [Op -> 0..Units]
      BY DEF TypeOK
    <3>2. /\ pc' \in [Op -> Step \cup {"idle", "done", "crashed"}]
          /\ result' \in [Op -> Error \cup {None, "ok"}]
      BY DEF TypeOK, Error, Step
    <3>3. faults' \in 0..MaxFaults
      BY DEF TypeOK
    <3> QED
      BY <3>1, <3>2, <3>3 DEF TypeOK
  <2>2. Progress' /\ Layered' /\ Flushed'
    BY DEF Progress, Layered, Flushed, TypeOK, Early, Running, Step
  <2>3. CallKnown' /\ TempsOwned' /\ PlatformSteps'
    BY DEF CallKnown, TempsOwned, PlatformSteps, TypeOK, Running, Step, Holding, Temp
  <2> QED
    BY <2>1, <2>2, <2>3
<1>10. ASSUME NEW p \in Op, Close(p) PROVE Base'
  <2> USE <1>10 DEF Close
  <2>1. TypeOK'
    <3>1. /\ pc' \in [Op -> Step \cup {"idle", "done", "crashed"}]
          /\ result' \in [Op -> Error \cup {None, "ok"}]
      BY DEF TypeOK, Error, Step
    <3>2. faults' \in 0..MaxFaults
      BY DEF TypeOK
    <3> QED
      BY <3>1, <3>2 DEF TypeOK
  <2>2. Progress' /\ Layered' /\ Flushed'
    BY DEF Progress, Layered, Flushed, TypeOK, Early, Running, Step
  <2>3. CallKnown' /\ TempsOwned' /\ PlatformSteps'
    BY DEF CallKnown, TempsOwned, PlatformSteps, TypeOK, Running, Step, Holding, Temp
  <2> QED
    BY <2>1, <2>2, <2>3
<1>11. ASSUME NEW p \in Op, Link(p) PROVE Base'
  <2> USE <1>11 DEF Link, OutputIsFree, AfterLink
  <2>0. target[p] \in Output /\ tmp[Temp(p)] \in Inode
    BY DEF TypeOK, CallKnown, Running, Step, Holding, Temp
  <2>1. TypeOK'
    <3>1. dir' \in [Output -> Inode]
      BY <2>0 DEF TypeOK
    <3>2. /\ pc' \in [Op -> Step \cup {"idle", "done", "crashed"}]
          /\ result' \in [Op -> Error \cup {None, "ok"}]
      BY DEF TypeOK, Error, Step
    <3>3. faults' \in 0..MaxFaults
      BY DEF TypeOK
    <3> QED
      BY <3>1, <3>2, <3>3 DEF TypeOK
  <2>2. Progress' /\ Layered' /\ Flushed'
    BY DEF Progress, Layered, Flushed, TypeOK, Early, Running, Step
  <2>3. CallKnown' /\ TempsOwned' /\ PlatformSteps'
    BY DEF CallKnown, TempsOwned, PlatformSteps, TypeOK, Running, Step, Holding, Temp
  <2> QED
    BY <2>1, <2>2, <2>3
<1>12. ASSUME NEW p \in Op, UnlinkTemp(p) PROVE Base'
  <2> USE <1>12 DEF UnlinkTemp, RemoveQuietly
  <2>0. Temp(p) \in Output \X Token /\ tmp[Temp(p)] \in Inode
    BY DEF TypeOK, CallKnown, Running, Step, Holding, Temp
  <2>1. TypeOK'
    <3>1. dir' \in [Output -> Inode] /\ diskDir' \in [Output -> Inode]
      BY <2>0 DEF TypeOK, CallKnown, Running, Step, Inode
    <3>2. tmp' \in [Output \X Token -> Inode]
      BY <2>0 DEF TypeOK, Inode
    <3>3. diskTmp' \in [Output \X Token -> Inode]
      BY <3>2 DEF TypeOK
    <3>4. size' \in [Op -> 0..Units]
      BY DEF TypeOK, Layered
    <3>5. /\ pc' \in [Op -> Step \cup {"idle", "done", "crashed"}]
          /\ result' \in [Op -> Error \cup {None, "ok"}]
      BY DEF TypeOK, Error, Step
    <3>6. leak' \in [Op -> {None, "remove", "fdopen"}] /\ faults' \in 0..MaxFaults
      BY DEF TypeOK
    <3> QED
      BY <3>1, <3>2, <3>3, <3>4, <3>5, <3>6 DEF TypeOK
  <2>2. Progress' /\ Layered' /\ Flushed'
    BY DEF Progress, Layered, Flushed, TypeOK, Early
  <2>3. CallKnown' /\ PlatformSteps'
    BY DEF CallKnown, PlatformSteps, TypeOK, Running, Step, Holding
  <2>4. ASSUME NEW q \in Op, q # p, pc[q] \in Holding \cup {"syncdir", "cleanup"}
        PROVE  /\ tmp'[Temp(q)] \in {tmp[Temp(q)], NoFile}
               /\ tmp[Temp(q)] = q => tmp'[Temp(q)] = q
    <3>1. Temp(q) \in Output \X Token
      BY <2>4 DEF CallKnown, Running, Step, Holding, Temp
    <3>2. tmp[Temp(p)] \in {p, NoFile}
      BY DEF TempsOwned, Holding
    <3> QED
      BY <2>0, <2>4, <3>1, <3>2 DEF TypeOK
  <2>5. pc'[p] \notin Holding /\ tmp'[Temp(p)] \in {p, NoFile}
    BY <2>0 DEF TempsOwned, TypeOK, Holding
  <2>6. ASSUME NEW q \in Op PROVE Temp(q)' = Temp(q) /\ (q # p => pc'[q] = pc[q])
    BY DEF Temp, TypeOK
  <2>7. TempsOwned'
    BY <2>4, <2>5, <2>6 DEF TempsOwned
  <2> QED
    BY <2>1, <2>2, <2>3, <2>7
<1>13. ASSUME NEW p \in Op, FlushParentDirectory(p) PROVE Base'
  <2> USE <1>13 DEF FlushParentDirectory, SyncEntries
  <2>0. Temp(p) \in Output \X Token /\ tmp[Temp(p)] \in Inode
    BY DEF TypeOK, CallKnown, Running, Step, Holding, Temp
  <2>1. TypeOK'
    <3>1. dir' \in [Output -> Inode] /\ diskDir' \in [Output -> Inode]
      BY <2>0 DEF TypeOK, CallKnown, Running, Step, Inode
    <3>2. tmp' \in [Output \X Token -> Inode]
      BY <2>0 DEF TypeOK, Inode
    <3>3. diskTmp' \in [Output \X Token -> Inode]
      BY <3>2 DEF TypeOK
    <3>4. size' \in [Op -> 0..Units]
      BY DEF TypeOK, Layered
    <3>5. /\ pc' \in [Op -> Step \cup {"idle", "done", "crashed"}]
          /\ result' \in [Op -> Error \cup {None, "ok"}]
      BY DEF TypeOK, Error, Step
    <3>6. leak' \in [Op -> {None, "remove", "fdopen"}] /\ faults' \in 0..MaxFaults
      BY DEF TypeOK
    <3> QED
      BY <3>1, <3>2, <3>3, <3>4, <3>5, <3>6 DEF TypeOK
  <2>2. Progress' /\ Layered' /\ Flushed'
    BY DEF Progress, Layered, Flushed, TypeOK, Early
  <2>3. CallKnown' /\ PlatformSteps'
    BY DEF CallKnown, PlatformSteps, TypeOK, Running, Step, Holding
  <2>4. ASSUME NEW q \in Op, q # p, pc[q] \in Holding \cup {"syncdir", "cleanup"}
        PROVE  /\ tmp'[Temp(q)] \in {tmp[Temp(q)], NoFile}
               /\ tmp[Temp(q)] = q => tmp'[Temp(q)] = q
    <3>1. Temp(q) \in Output \X Token
      BY <2>4 DEF CallKnown, Running, Step, Holding, Temp
    <3>2. tmp[Temp(p)] \in {p, NoFile}
      BY DEF TempsOwned, Holding
    <3> QED
      BY <2>0, <2>4, <3>1, <3>2 DEF TypeOK
  <2>5. pc'[p] \notin Holding /\ tmp'[Temp(p)] \in {p, NoFile}
    BY <2>0 DEF TempsOwned, TypeOK, Holding
  <2>6. ASSUME NEW q \in Op PROVE Temp(q)' = Temp(q) /\ (q # p => pc'[q] = pc[q])
    BY DEF Temp, TypeOK
  <2>7. TempsOwned'
    BY <2>4, <2>5, <2>6 DEF TempsOwned
  <2> QED
    BY <2>1, <2>2, <2>3, <2>7
<1>14. ASSUME NEW p \in Op, MoveFileNoReplace(p) PROVE Base'
  <2> USE <1>14 DEF MoveFileNoReplace, OutputIsFree, SyncEntries
  <2>0. Temp(p) \in Output \X Token /\ tmp[Temp(p)] \in Inode
    BY DEF TypeOK, CallKnown, Running, Step, Holding, Temp
  <2>1. TypeOK'
    <3>1. dir' \in [Output -> Inode] /\ diskDir' \in [Output -> Inode]
      BY <2>0 DEF TypeOK, CallKnown, Running, Step, Inode
    <3>2. tmp' \in [Output \X Token -> Inode]
      BY <2>0 DEF TypeOK, Inode
    <3>3. diskTmp' \in [Output \X Token -> Inode]
      BY <3>2 DEF TypeOK
    <3>4. size' \in [Op -> 0..Units]
      BY DEF TypeOK, Layered
    <3>5. /\ pc' \in [Op -> Step \cup {"idle", "done", "crashed"}]
          /\ result' \in [Op -> Error \cup {None, "ok"}]
      BY DEF TypeOK, Error, Step
    <3>6. leak' \in [Op -> {None, "remove", "fdopen"}] /\ faults' \in 0..MaxFaults
      BY DEF TypeOK
    <3> QED
      BY <3>1, <3>2, <3>3, <3>4, <3>5, <3>6 DEF TypeOK
  <2>2. Progress' /\ Layered' /\ Flushed'
    BY DEF Progress, Layered, Flushed, TypeOK, Early
  <2>3. CallKnown' /\ PlatformSteps'
    BY DEF CallKnown, PlatformSteps, TypeOK, Running, Step, Holding
  <2>4. ASSUME NEW q \in Op, q # p, pc[q] \in Holding \cup {"syncdir", "cleanup"}
        PROVE  /\ tmp'[Temp(q)] \in {tmp[Temp(q)], NoFile}
               /\ tmp[Temp(q)] = q => tmp'[Temp(q)] = q
    <3>1. Temp(q) \in Output \X Token
      BY <2>4 DEF CallKnown, Running, Step, Holding, Temp
    <3>2. tmp[Temp(p)] \in {p, NoFile}
      BY DEF TempsOwned, Holding
    <3> QED
      BY <2>0, <2>4, <3>1, <3>2 DEF TypeOK
  <2>5. pc'[p] \notin Holding /\ tmp'[Temp(p)] \in {p, NoFile}
    BY <2>0 DEF TempsOwned, TypeOK, Holding
  <2>6. ASSUME NEW q \in Op PROVE Temp(q)' = Temp(q) /\ (q # p => pc'[q] = pc[q])
    BY DEF Temp, TypeOK
  <2>7. TempsOwned'
    BY <2>4, <2>5, <2>6 DEF TempsOwned
  <2> QED
    BY <2>1, <2>2, <2>3, <2>7
<1>15. ASSUME NEW p \in Op, CheckBeforeRename(p) PROVE Base'
  <2> USE <1>15 DEF CheckBeforeRename
  <2>1. TypeOK'
    <3>1. /\ pc' \in [Op -> Step \cup {"idle", "done", "crashed"}]
          /\ result' \in [Op -> Error \cup {None, "ok"}]
      BY DEF TypeOK, Error, Step
    <3>2. faults' \in 0..MaxFaults
      BY DEF TypeOK
    <3> QED
      BY <3>1, <3>2 DEF TypeOK
  <2>2. Progress' /\ Layered' /\ Flushed'
    BY DEF Progress, Layered, Flushed, TypeOK, Early, Running, Step
  <2>3. CallKnown' /\ TempsOwned' /\ PlatformSteps'
    BY DEF CallKnown, TempsOwned, PlatformSteps, TypeOK, Running, Step, Holding, Temp
  <2> QED
    BY <2>1, <2>2, <2>3
<1>16. ASSUME NEW p \in Op, Rename(p) PROVE Base'
  <2> USE <1>16 DEF Rename
  <2>0. Temp(p) \in Output \X Token /\ tmp[Temp(p)] \in Inode
    BY DEF TypeOK, CallKnown, Running, Step, Holding, Temp
  <2>1. TypeOK'
    <3>1. dir' \in [Output -> Inode] /\ diskDir' \in [Output -> Inode]
      BY <2>0 DEF TypeOK, CallKnown, Running, Step, Inode
    <3>2. tmp' \in [Output \X Token -> Inode]
      BY <2>0 DEF TypeOK, Inode
    <3>3. diskTmp' \in [Output \X Token -> Inode]
      BY <3>2 DEF TypeOK
    <3>4. size' \in [Op -> 0..Units]
      BY DEF TypeOK, Layered
    <3>5. /\ pc' \in [Op -> Step \cup {"idle", "done", "crashed"}]
          /\ result' \in [Op -> Error \cup {None, "ok"}]
      BY DEF TypeOK, Error, Step
    <3>6. leak' \in [Op -> {None, "remove", "fdopen"}] /\ faults' \in 0..MaxFaults
      BY DEF TypeOK
    <3> QED
      BY <3>1, <3>2, <3>3, <3>4, <3>5, <3>6 DEF TypeOK
  <2>2. Progress' /\ Layered' /\ Flushed'
    BY DEF Progress, Layered, Flushed, TypeOK, Early
  <2>3. CallKnown' /\ PlatformSteps'
    BY DEF CallKnown, PlatformSteps, TypeOK, Running, Step, Holding
  <2>4. ASSUME NEW q \in Op, q # p, pc[q] \in Holding \cup {"syncdir", "cleanup"}
        PROVE  /\ tmp'[Temp(q)] \in {tmp[Temp(q)], NoFile}
               /\ tmp[Temp(q)] = q => tmp'[Temp(q)] = q
    <3>1. Temp(q) \in Output \X Token
      BY <2>4 DEF CallKnown, Running, Step, Holding, Temp
    <3>2. tmp[Temp(p)] \in {p, NoFile}
      BY DEF TempsOwned, Holding
    <3> QED
      BY <2>0, <2>4, <3>1, <3>2 DEF TypeOK
  <2>5. pc'[p] \notin Holding /\ tmp'[Temp(p)] \in {p, NoFile}
    BY <2>0 DEF TempsOwned, TypeOK, Holding
  <2>6. ASSUME NEW q \in Op PROVE Temp(q)' = Temp(q) /\ (q # p => pc'[q] = pc[q])
    BY DEF Temp, TypeOK
  <2>7. TempsOwned'
    BY <2>4, <2>5, <2>6 DEF TempsOwned
  <2> QED
    BY <2>1, <2>2, <2>3, <2>7
<1>17. ASSUME NEW p \in Op, Cleanup(p) PROVE Base'
  <2> USE <1>17 DEF Cleanup, RemoveQuietly
  <2>0. Temp(p) \in Output \X Token /\ tmp[Temp(p)] \in Inode
    BY DEF TypeOK, CallKnown, Running, Step, Holding, Temp
  <2>1. TypeOK'
    <3>1. dir' \in [Output -> Inode] /\ diskDir' \in [Output -> Inode]
      BY <2>0 DEF TypeOK, CallKnown, Running, Step, Inode
    <3>2. tmp' \in [Output \X Token -> Inode]
      BY <2>0 DEF TypeOK, Inode
    <3>3. diskTmp' \in [Output \X Token -> Inode]
      BY <3>2 DEF TypeOK
    <3>4. size' \in [Op -> 0..Units]
      BY DEF TypeOK, Layered
    <3>5. /\ pc' \in [Op -> Step \cup {"idle", "done", "crashed"}]
          /\ result' \in [Op -> Error \cup {None, "ok"}]
      BY DEF TypeOK, Error, Step
    <3>6. leak' \in [Op -> {None, "remove", "fdopen"}] /\ faults' \in 0..MaxFaults
      BY DEF TypeOK
    <3> QED
      BY <3>1, <3>2, <3>3, <3>4, <3>5, <3>6 DEF TypeOK
  <2>2. Progress' /\ Layered' /\ Flushed'
    BY DEF Progress, Layered, Flushed, TypeOK, Early
  <2>3. CallKnown' /\ PlatformSteps'
    BY DEF CallKnown, PlatformSteps, TypeOK, Running, Step, Holding
  <2>4. ASSUME NEW q \in Op, q # p, pc[q] \in Holding \cup {"syncdir", "cleanup"}
        PROVE  /\ tmp'[Temp(q)] \in {tmp[Temp(q)], NoFile}
               /\ tmp[Temp(q)] = q => tmp'[Temp(q)] = q
    <3>1. Temp(q) \in Output \X Token
      BY <2>4 DEF CallKnown, Running, Step, Holding, Temp
    <3>2. tmp[Temp(p)] \in {p, NoFile}
      BY DEF TempsOwned, Holding
    <3> QED
      BY <2>0, <2>4, <3>1, <3>2 DEF TypeOK
  <2>5. pc'[p] \notin Holding /\ tmp'[Temp(p)] \in {p, NoFile}
    BY <2>0 DEF TempsOwned, TypeOK, Holding
  <2>6. ASSUME NEW q \in Op PROVE Temp(q)' = Temp(q) /\ (q # p => pc'[q] = pc[q])
    BY DEF Temp, TypeOK
  <2>7. TempsOwned'
    BY <2>4, <2>5, <2>6 DEF TempsOwned
  <2> QED
    BY <2>1, <2>2, <2>3, <2>7
<1>18. ASSUME NEW p \in Op, Kill(p) PROVE Base'
  <2> USE <1>18 DEF Kill
  <2>1. TypeOK'
    BY DEF TypeOK, Progress, Layered, CallKnown, Running, Step, Early, Holding, Inode, Error, Temp
  <2>2. Progress' /\ Layered' /\ Flushed'
    BY DEF Progress, Layered, Flushed, TypeOK, Early, Running, Step
  <2>3. CallKnown' /\ TempsOwned' /\ PlatformSteps'
    BY DEF CallKnown, TempsOwned, PlatformSteps, TypeOK, Running, Step, Holding, Temp
  <2> QED
    BY <2>1, <2>2, <2>3
<1>19. ASSUME NEW p \in Op, WriteBackData(p) PROVE Base'
  <2> USE <1>19 DEF WriteBackData
  <2>1. TypeOK'
    BY DEF TypeOK, Progress, Layered, CallKnown, Running, Step, Early, Holding, Inode, Error, Temp
  <2>2. Progress' /\ Layered' /\ Flushed'
    BY DEF Progress, Layered, Flushed, TypeOK, Early, Running, Step
  <2>3. CallKnown' /\ TempsOwned' /\ PlatformSteps'
    BY DEF CallKnown, TempsOwned, PlatformSteps, TypeOK, Running, Step, Holding, Temp
  <2> QED
    BY <2>1, <2>2, <2>3
<1>20. ASSUME NEW o \in Output, ForeignCreate(o) PROVE Base'
  <2> USE <1>20 DEF ForeignCreate
  <2>1. TypeOK'
    BY DEF TypeOK, Progress, Layered, CallKnown, Running, Step, Early, Holding, Inode, Error, Temp
  <2>2. Progress' /\ Layered' /\ Flushed'
    BY DEF Progress, Layered, Flushed, TypeOK, Early, Running, Step
  <2>3. CallKnown' /\ TempsOwned' /\ PlatformSteps'
    BY DEF CallKnown, TempsOwned, PlatformSteps, TypeOK, Running, Step, Holding, Temp
  <2> QED
    BY <2>1, <2>2, <2>3
<1>21. ASSUME NEW o \in Output, WriteBackOutput(o) PROVE Base'
  <2> USE <1>21 DEF WriteBackOutput
  <2>1. TypeOK'
    BY DEF TypeOK, Progress, Layered, CallKnown, Running, Step, Early, Holding, Inode, Error, Temp
  <2>2. Progress' /\ Layered' /\ Flushed'
    BY DEF Progress, Layered, Flushed, TypeOK, Early, Running, Step
  <2>3. CallKnown' /\ TempsOwned' /\ PlatformSteps'
    BY DEF CallKnown, TempsOwned, PlatformSteps, TypeOK, Running, Step, Holding, Temp
  <2> QED
    BY <2>1, <2>2, <2>3
<1>22. ASSUME NEW n \in Output \X Token, WriteBackTemp(n) PROVE Base'
  <2> USE <1>22 DEF WriteBackTemp
  <2>1. TypeOK'
    BY DEF TypeOK, Progress, Layered, CallKnown, Running, Step, Early, Holding, Inode, Error, Temp
  <2>2. Progress' /\ Layered' /\ Flushed'
    BY DEF Progress, Layered, Flushed, TypeOK, Early, Running, Step
  <2>3. CallKnown' /\ TempsOwned' /\ PlatformSteps'
    BY DEF CallKnown, TempsOwned, PlatformSteps, TypeOK, Running, Step, Holding, Temp
  <2> QED
    BY <2>1, <2>2, <2>3
<1>23. ASSUME PowerLoss PROVE Base'
  <2> USE <1>23 DEF PowerLoss
  <2>1. TypeOK'
    BY DEF TypeOK, Progress, Layered, CallKnown, Running, Step, Early, Holding, Inode, Error, Temp
  <2>2. Progress' /\ Layered' /\ Flushed'
    BY DEF Progress, Layered, Flushed, TypeOK, Early, Running, Step
  <2>3. CallKnown' /\ TempsOwned' /\ PlatformSteps'
    BY DEF CallKnown, TempsOwned, PlatformSteps, TypeOK, Running, Step, Holding, Temp
  <2> QED
    BY <2>1, <2>2, <2>3
<1>24. ASSUME UNCHANGED vars PROVE Base'
  BY <1>24 DEF TypeOK, CallKnown, Progress, Layered, Flushed, TempsOwned, PlatformSteps,
             Running, Temp, vars
<1> QED
  BY <1>1, <1>2, <1>3, <1>4, <1>5, <1>6, <1>7, <1>8, <1>9, <1>10, <1>11, <1>12, <1>13, <1>14,
     <1>15, <1>16, <1>17, <1>18, <1>19, <1>20, <1>21, <1>22, <1>23, <1>24 DEF Next, CallStep

\* Base is an invariant: what open_unique_temp_output, OutputFile and commit_temp_file keep
\* about counters, buffers and temporary names.
LEMMA BaseInvariant == Spec => []Base
  BY InitBase, NextBase, PTL DEF Spec

\* Every variable keeps its type: the counters stay within their bounds, whatever the
\* calls, the faults and the losses are (open_unique_temp_output, OutputFile).
THEOREM TypeCorrect == Spec => []TypeOK
<1>1. Base => TypeOK
  BY DEF Base
<1> QED
  BY <1>1, BaseInvariant, PTL

\* The temporary path of a running call names the call's own file until the commit.
THEOREM TempStaysOwnCorrect == Spec => []TempStaysOwn
<1>1. Base => TempStaysOwn
  BY DEF Base, TempsOwned, Holding, TempStaysOwn
<1> QED
  BY <1>1, BaseInvariant, PTL

-----------------------------------------------------------------------------
(* What is published, on the platforms whose commit refuses an existing output. *)

\* No error is in flight before the handler, and only an error is in it.
InFlight ==
    \A p \in Op : /\ pc[p] \in (Step \ {"cleanup"}) \cup {"idle"} => result[p] = None
                  /\ pc[p] = "cleanup" => result[p] \in Error

\* A published file is complete on the disk, stands where it was asked for, and its
\* call is past the commit and was not refused.
Published ==
    \A o \in Output, p \in Op :
        dir[o] = p => /\ target[p] = o
                      /\ durable[p] = Units
                      /\ pc[p] \in {"unlink", "syncdir", "cleanup", "done", "crashed"}
                      /\ result[p] \in {None, "ok", "backend_failure"}

\* The disk may lack an output; it never has another one.
DiskBehind == \A o \in Output : diskDir[o] \in {NoFile, dir[o]}

\* Between link and directory sync the output is there; success means it is on the disk.
Acknowledged ==
    \A p \in Op :
        /\ pc[p] \in {"unlink", "syncdir"} => dir[target[p]] = p
        /\ pc[p] = "done" /\ result[p] = "ok" => target[p] \in Output /\ diskDir[target[p]] = p

Publication == InFlight /\ Published /\ DiskBehind /\ Acknowledged

\* Publication holds before any call is made.
LEMMA InitPublication == Init => Publication
  BY DEF Init, Publication, InFlight, Published, DiskBehind, Acknowledged, Step, Error

\* Every step preserves Publication where the commit is exclusive (link, MoveFileExW).
LEMMA NextPublication ==
    ASSUME Platform # "other" PROVE Base /\ Publication /\ [Next]_vars => Publication'
<1> SUFFICES ASSUME Base, Publication, [Next]_vars PROVE Publication'
  OBVIOUS
<1> USE DEF Base, Publication, callVars, inodeVars, dirVars, envVars,
            Goto, Return, ThrowInTry, Fault
<1>1. ASSUME NEW p \in Op, Call(p) PROVE Publication'
  <2> USE <1>1 DEF Call
  <2>1. InFlight'
    BY DEF InFlight, TypeOK, Step, Error
  <2>2. Published'
    BY DEF Published, TypeOK
  <2>3. DiskBehind'
    BY DEF DiskBehind, TypeOK
  <2>4. Acknowledged'
    BY DEF Acknowledged, InFlight, TypeOK, Step, Error
  <2> QED
    BY <2>1, <2>2, <2>3, <2>4
<1>2. ASSUME NEW p \in Op, CallWithEmptyPassword(p) PROVE Publication'
  <2> USE <1>2 DEF CallWithEmptyPassword
  <2>1. InFlight'
    BY DEF InFlight, TypeOK, Step, Error
  <2>2. Published'
    BY DEF Published, TypeOK
  <2>3. DiskBehind'
    BY DEF DiskBehind, TypeOK
  <2>4. Acknowledged'
    BY DEF Acknowledged, InFlight, TypeOK, Step, Error
  <2> QED
    BY <2>1, <2>2, <2>3, <2>4
<1>3. ASSUME NEW p \in Op, EnsureOutputDoesNotExist(p) PROVE Publication'
  <2> USE <1>3 DEF EnsureOutputDoesNotExist
  <2>1. InFlight'
    BY DEF InFlight, TypeOK, Step, Error
  <2>2. Published'
    BY DEF Published, TypeOK
  <2>3. DiskBehind'
    BY DEF DiskBehind, TypeOK
  <2>4. Acknowledged'
    BY DEF Acknowledged, InFlight, TypeOK, Step, Error
  <2> QED
    BY <2>1, <2>2, <2>3, <2>4
<1>4. ASSUME NEW p \in Op, MakeHeaderAndKey(p) PROVE Publication'
  <2> USE <1>4 DEF MakeHeaderAndKey
  <2>1. InFlight'
    BY DEF InFlight, TypeOK, Step, Error
  <2>2. Published'
    BY DEF Published, TypeOK
  <2>3. DiskBehind'
    BY DEF DiskBehind, TypeOK
  <2>4. Acknowledged'
    BY DEF Acknowledged, InFlight, TypeOK, Step, Error
  <2> QED
    BY <2>1, <2>2, <2>3, <2>4
<1>5. ASSUME NEW p \in Op, OpenUniqueTempOutput(p) PROVE Publication'
  <2>1. UNCHANGED <<target, durable, dir, diskDir>>
    BY <1>5 DEF OpenUniqueTempOutput
  <2>2. \A q \in Op \ {p} : pc'[q] = pc[q] /\ result'[q] = result[q]
    BY <1>5 DEF OpenUniqueTempOutput, CreateTemp, TryAnotherName, TypeOK
  <2>3. pc[p] = "temp" /\ result[p] = None
    BY <1>5 DEF OpenUniqueTempOutput, InFlight, Step
  <2>4. \/ pc'[p] \in {"temp", "input"} /\ result'[p] = None
        \/ pc'[p] = "done" /\ result'[p] = "backend_failure"
    BY <1>5, <2>3 DEF OpenUniqueTempOutput, CreateTemp, TryAnotherName, TypeOK
  <2>5. InFlight'
    BY <2>2, <2>4 DEF InFlight, Step, Error
  <2>6. Published' /\ DiskBehind' /\ Acknowledged'
    BY <2>1, <2>2, <2>3, <2>4 DEF Published, DiskBehind, Acknowledged
  <2> QED
    BY <2>5, <2>6
<1>6. ASSUME NEW p \in Op, OpenInput(p) PROVE Publication'
  <2> USE <1>6 DEF OpenInput
  <2>1. InFlight'
    BY DEF InFlight, TypeOK, Step, Error
  <2>2. Published'
    BY DEF Published, TypeOK
  <2>3. DiskBehind'
    BY DEF DiskBehind, TypeOK
  <2>4. Acknowledged'
    BY DEF Acknowledged, InFlight, TypeOK, Step, Error
  <2> QED
    BY <2>1, <2>2, <2>3, <2>4
<1>7. ASSUME NEW p \in Op, ReadHeader(p) PROVE Publication'
  <2> USE <1>7 DEF ReadHeader
  <2>1. InFlight'
    BY DEF InFlight, TypeOK, Step, Error
  <2>2. Published'
    BY DEF Published, TypeOK
  <2>3. DiskBehind'
    BY DEF DiskBehind, TypeOK
  <2>4. Acknowledged'
    BY DEF Acknowledged, InFlight, TypeOK, Step, Error
  <2> QED
    BY <2>1, <2>2, <2>3, <2>4
<1>8. ASSUME NEW p \in Op, WritePayload(p) PROVE Publication'
  <2> USE <1>8 DEF WritePayload, PayloadError
  <2>1. InFlight'
    BY DEF InFlight, TypeOK, Step, Error
  <2>2. Published'
    BY DEF Published, TypeOK
  <2>3. DiskBehind'
    BY DEF DiskBehind, TypeOK
  <2>4. Acknowledged'
    BY DEF Acknowledged, InFlight, TypeOK, Step, Error
  <2> QED
    BY <2>1, <2>2, <2>3, <2>4
<1>9. ASSUME NEW p \in Op, Flush(p) PROVE Publication'
  <2> USE <1>9 DEF Flush, SyncFile
  <2>1. InFlight'
    BY DEF InFlight, TypeOK, Step, Error
  <2>2. Published'
    BY DEF Published, TypeOK
  <2>3. DiskBehind'
    BY DEF DiskBehind, TypeOK
  <2>4. Acknowledged'
    BY DEF Acknowledged, InFlight, TypeOK, Step, Error
  <2> QED
    BY <2>1, <2>2, <2>3, <2>4
<1>10. ASSUME NEW p \in Op, Close(p) PROVE Publication'
  <2> USE <1>10 DEF Close
  <2>1. InFlight'
    BY DEF InFlight, TypeOK, Step, Error
  <2>2. Published'
    BY DEF Published, TypeOK
  <2>3. DiskBehind'
    BY DEF DiskBehind, TypeOK
  <2>4. Acknowledged'
    BY DEF Acknowledged, InFlight, TypeOK, Step, Error
  <2> QED
    BY <2>1, <2>2, <2>3, <2>4
<1>11. ASSUME NEW p \in Op, Link(p) PROVE Publication'
  <2> USE <1>11 DEF Link, OutputIsFree, AfterLink
  <2>1. InFlight'
    BY DEF InFlight, TypeOK, Step, Error
  <2>2. Published'
    BY DEF Published, InFlight, TypeOK, CallKnown, Flushed, TempsOwned, Running, Step, Holding, Inode
  <2>3. DiskBehind'
    BY DEF DiskBehind, TypeOK, CallKnown, Running, Step
  <2>4. Acknowledged'
    BY DEF Acknowledged, Published, InFlight, DiskBehind, TypeOK, CallKnown, TempsOwned, Running, Step, Holding, Error, Inode
  <2> QED
    BY <2>1, <2>2, <2>3, <2>4
<1>12. ASSUME NEW p \in Op, UnlinkTemp(p) PROVE Publication'
  <2> USE <1>12 DEF UnlinkTemp, RemoveQuietly
  <2>1. InFlight'
    BY DEF InFlight, TypeOK, Step, Error
  <2>2. Published'
    BY DEF Published, TypeOK
  <2>3. DiskBehind'
    BY DEF DiskBehind, TypeOK
  <2>4. Acknowledged'
    BY DEF Acknowledged, InFlight, TypeOK, Step, Error
  <2> QED
    BY <2>1, <2>2, <2>3, <2>4
<1>13. ASSUME NEW p \in Op, FlushParentDirectory(p) PROVE Publication'
  <2> USE <1>13 DEF FlushParentDirectory, SyncEntries
  <2>1. InFlight'
    BY DEF InFlight, TypeOK, Step, Error
  <2>2. Published'
    BY DEF Published, TypeOK
  <2>3. DiskBehind'
    BY DEF DiskBehind, TypeOK, CallKnown, Running, Step
  <2>4. Acknowledged'
    BY DEF Acknowledged, DiskBehind, InFlight, Inode, TypeOK, CallKnown, Running, Step, Error
  <2> QED
    BY <2>1, <2>2, <2>3, <2>4
<1>14. ASSUME NEW p \in Op, MoveFileNoReplace(p) PROVE Publication'
  <2> USE <1>14 DEF MoveFileNoReplace, OutputIsFree, SyncEntries
  <2>1. InFlight'
    BY DEF InFlight, TypeOK, Step, Error
  <2>2. Published'
    BY DEF Published, InFlight, TypeOK, CallKnown, Flushed, TempsOwned, Running, Step, Holding, Inode
  <2>3. DiskBehind'
    BY DEF DiskBehind, TypeOK, CallKnown, Running, Step
  <2>4. Acknowledged'
    BY DEF Acknowledged, Published, InFlight, DiskBehind, TypeOK, CallKnown, TempsOwned, Running, Step, Holding, Error, Inode
  <2> QED
    BY <2>1, <2>2, <2>3, <2>4
<1>15. ASSUME NEW p \in Op, CheckBeforeRename(p) PROVE Publication'
  BY <1>15 DEF CheckBeforeRename
<1>16. ASSUME NEW p \in Op, Rename(p) PROVE Publication'
  BY <1>16 DEF Rename, PlatformSteps
<1>17. ASSUME NEW p \in Op, Cleanup(p) PROVE Publication'
  <2> USE <1>17 DEF Cleanup, RemoveQuietly
  <2>1. InFlight'
    BY DEF InFlight, TypeOK, Step, Error
  <2>2. Published'
    BY DEF Published, TypeOK
  <2>3. DiskBehind'
    BY DEF DiskBehind, TypeOK
  <2>4. Acknowledged'
    BY DEF Acknowledged, InFlight, TypeOK, Step, Error
  <2> QED
    BY <2>1, <2>2, <2>3, <2>4
<1>18. ASSUME NEW p \in Op, Kill(p) PROVE Publication'
  <2> USE <1>18 DEF Kill
  <2>1. InFlight'
    BY DEF InFlight, TypeOK, Step, Error
  <2>2. Published'
    BY DEF Published, TypeOK
  <2>3. DiskBehind'
    BY DEF DiskBehind, TypeOK
  <2>4. Acknowledged'
    BY DEF Acknowledged, InFlight, TypeOK, Step, Error
  <2> QED
    BY <2>1, <2>2, <2>3, <2>4
<1>19. ASSUME NEW p \in Op, WriteBackData(p) PROVE Publication'
  <2> USE <1>19 DEF WriteBackData
  <2>1. InFlight'
    BY DEF InFlight, TypeOK, Step, Error
  <2>2. Published'
    BY DEF Published, Layered, TypeOK
  <2>3. DiskBehind'
    BY DEF DiskBehind, TypeOK
  <2>4. Acknowledged'
    BY DEF Acknowledged, InFlight, TypeOK, Step, Error
  <2> QED
    BY <2>1, <2>2, <2>3, <2>4
<1>20. ASSUME NEW o \in Output, ForeignCreate(o) PROVE Publication'
  <2> USE <1>20 DEF ForeignCreate
  <2>1. InFlight'
    BY DEF InFlight, TypeOK, Step, Error
  <2>2. Published'
    BY DEF Published, TypeOK
  <2>3. DiskBehind'
    BY DEF DiskBehind, TypeOK
  <2>4. Acknowledged'
    BY DEF Acknowledged, Published, InFlight, DiskBehind, TypeOK, CallKnown, TempsOwned, Running, Step, Holding, Error, Inode
  <2> QED
    BY <2>1, <2>2, <2>3, <2>4
<1>21. ASSUME NEW o \in Output, WriteBackOutput(o) PROVE Publication'
  <2> USE <1>21 DEF WriteBackOutput
  <2>1. InFlight'
    BY DEF InFlight, TypeOK, Step, Error
  <2>2. Published'
    BY DEF Published, TypeOK
  <2>3. DiskBehind'
    BY DEF DiskBehind, TypeOK
  <2>4. Acknowledged'
    BY DEF Acknowledged, DiskBehind, TypeOK, Inode
  <2> QED
    BY <2>1, <2>2, <2>3, <2>4
<1>22. ASSUME NEW n \in Output \X Token, WriteBackTemp(n) PROVE Publication'
  <2> USE <1>22 DEF WriteBackTemp
  <2>1. InFlight'
    BY DEF InFlight, TypeOK, Step, Error
  <2>2. Published'
    BY DEF Published, TypeOK
  <2>3. DiskBehind'
    BY DEF DiskBehind, TypeOK
  <2>4. Acknowledged'
    BY DEF Acknowledged, InFlight, TypeOK, Step, Error
  <2> QED
    BY <2>1, <2>2, <2>3, <2>4
<1>23. ASSUME PowerLoss PROVE Publication'
  <2> USE <1>23 DEF PowerLoss
  <2>1. InFlight'
    BY DEF InFlight, TypeOK, Step, Error
  <2>2. Published'
    BY DEF Published, DiskBehind, TypeOK, Inode, Running, Step
  <2>3. DiskBehind'
    BY DEF DiskBehind, TypeOK
  <2>4. Acknowledged'
    BY DEF Acknowledged, Published, InFlight, DiskBehind, TypeOK, CallKnown, TempsOwned, Running, Step, Holding, Error, Inode
  <2> QED
    BY <2>1, <2>2, <2>3, <2>4
<1>24. ASSUME UNCHANGED vars PROVE Publication'
  BY <1>24 DEF InFlight, Published, DiskBehind, Acknowledged, vars
<1> QED
  BY <1>1, <1>2, <1>3, <1>4, <1>5, <1>6, <1>7, <1>8, <1>9, <1>10, <1>11, <1>12, <1>13, <1>14, <1>15, <1>16, <1>17, <1>18, <1>19, <1>20, <1>21, <1>22, <1>23, <1>24 DEF Next, CallStep

\* Publication is an invariant of the specification, with Base.
LEMMA PublicationInvariant ==
    ASSUME Platform # "other" PROVE Spec => [](Base /\ Publication)
  BY InitBase, NextBase, InitPublication, NextPublication, PTL DEF Spec

\* Whatever stands at an output path is the complete payload of the call that was asked
\* to write it, at every instant and after every power loss (flush before commit).
THEOREM OutputCompleteCorrect ==
    ASSUME Platform # "other" PROVE Spec => []OutputComplete
<1>1. Base /\ Publication => OutputComplete
  BY DEF Base, Publication, Published, Layered, TypeOK, OutputComplete
<1> QED
  BY <1>1, PublicationInvariant, PTL

\* A call that returned normally keeps its output for ever.
THEOREM SuccessKeptCorrect ==
    ASSUME Platform # "other" PROVE Spec => []SuccessKept
<1>1. Base /\ Publication => SuccessKept
  BY DEF Base, Publication, Acknowledged, DiskBehind, TypeOK, SuccessKept
<1> QED
  BY <1>1, PublicationInvariant, PTL

\* A refused call, or one whose input failed to authenticate, left nothing at any
\* output path.
THEOREM RejectedLeavesNoOutputCorrect ==
    ASSUME Platform # "other" PROVE Spec => []RejectedLeavesNoOutput
<1>1. Base /\ Publication => RejectedLeavesNoOutput
  BY NoneAssumption DEF Publication, Published, Error, RejectedLeavesNoOutput
<1> QED
  BY <1>1, PublicationInvariant, PTL

\* No step of any call changes what an occupied output path names.
LEMMA StepNeverOverwrites ==
    ASSUME Platform # "other", Base, [Next]_vars
    PROVE  \A o \in Output : dir[o] # NoFile /\ losses' = losses => dir'[o] = dir[o]
<1> USE DEF callVars, inodeVars, dirVars, envVars
<1>1. ASSUME NEW p \in Op, Link(p) \/ MoveFileNoReplace(p)
      PROVE  \A o \in Output : dir[o] # NoFile => dir'[o] = dir[o]
  BY <1>1 DEF Link, MoveFileNoReplace, OutputIsFree, Base, TypeOK
<1>2. ASSUME NEW p \in Op, Rename(p) PROVE FALSE
  BY <1>2 DEF Rename, Base, PlatformSteps
<1>3. ASSUME NEW o \in Output, ForeignCreate(o)
      PROVE  \A q \in Output : dir[q] # NoFile => dir'[q] = dir[q]
  BY <1>3 DEF ForeignCreate, Base, TypeOK
<1>4. ASSUME PowerLoss PROVE losses' # losses
  BY <1>4 DEF PowerLoss, Base, TypeOK
<1>5. ASSUME NEW p \in Op, \/ Call(p) \/ CallWithEmptyPassword(p) \/ Kill(p) \/ WriteBackData(p)
                           \/ EnsureOutputDoesNotExist(p) \/ MakeHeaderAndKey(p)
                           \/ OpenUniqueTempOutput(p) \/ OpenInput(p) \/ ReadHeader(p)
                           \/ WritePayload(p) \/ Flush(p) \/ Close(p) \/ UnlinkTemp(p)
                           \/ FlushParentDirectory(p) \/ CheckBeforeRename(p) \/ Cleanup(p)
      PROVE  UNCHANGED dir
  BY <1>5 DEF Call, CallWithEmptyPassword, Kill, WriteBackData, EnsureOutputDoesNotExist,
              MakeHeaderAndKey, OpenUniqueTempOutput, OpenInput, ReadHeader, WritePayload,
              Flush, Close, UnlinkTemp, FlushParentDirectory, CheckBeforeRename, Cleanup
<1>6. ASSUME \/ \E o \in Output : WriteBackOutput(o)
             \/ \E n \in Output \X Token : WriteBackTemp(n)
             \/ UNCHANGED vars
      PROVE  UNCHANGED dir
  BY <1>6 DEF WriteBackOutput, WriteBackTemp, vars
<1> QED
  BY <1>1, <1>2, <1>3, <1>4, <1>5, <1>6 DEF Next, CallStep

\* An output path is never overwritten: not by a call, not by two calls that race.
THEOREM NeverOverwrittenCorrect ==
    ASSUME Platform # "other" PROVE Spec => NeverOverwritten
<1>1. Base /\ [Next]_vars =>
          [\A o \in Output : dir[o] # NoFile /\ losses' = losses => dir'[o] = dir[o]]_vars
  BY StepNeverOverwrites
<1> QED
  BY <1>1, BaseInvariant, PTL DEF Spec, NeverOverwritten

-----------------------------------------------------------------------------
(* Temporary files that are left behind, on every platform. *)

\* A temporary name stands for a call that created it, and outlives the call only when
\* giving it back failed.
TempsLeft ==
    losses = 0 =>
        \A p \in Op, n \in Output \X Token :
            tmp[n] = p => /\ n = Temp(p)
                          /\ pc[p] \notin {"idle", "ensure", "prepare", "temp"}
                          /\ pc[p] \in {"done", "syncdir"} => leak[p] # None

\* TempsLeft holds before any call is made.
LEMMA InitTempsLeft == Init => TempsLeft
  BY DEF Init, TempsLeft

\* Every step preserves TempsLeft; a power loss ends what it says.
LEMMA NextTempsLeft == Base /\ TempsLeft /\ [Next]_vars => TempsLeft'
<1> SUFFICES ASSUME Base, TempsLeft, [Next]_vars, losses' = 0 PROVE TempsLeft'
  BY DEF TempsLeft
<1> USE DEF callVars, inodeVars, dirVars, envVars, Goto, Return, ThrowInTry, Fault
<1>t. TypeOK
  BY DEF Base
<1>1. ASSUME NEW p \in Op, \/ Call(p) \/ CallWithEmptyPassword(p) \/ EnsureOutputDoesNotExist(p)
                           \/ MakeHeaderAndKey(p)
      PROVE  TempsLeft'
  BY <1>1, <1>t DEF TempsLeft, TypeOK, Temp, Call, CallWithEmptyPassword,
                    EnsureOutputDoesNotExist, MakeHeaderAndKey
<1>2. ASSUME NEW p \in Op, OpenUniqueTempOutput(p) PROVE TempsLeft'
  <2>1. pc[p] = "temp" /\ losses = 0 /\ UNCHANGED target
    BY <1>2 DEF OpenUniqueTempOutput
  <2>2. \A n \in Output \X Token : tmp[n] # p
    BY <2>1 DEF TempsLeft
  <2>3. ASSUME NEW t \in Token, CreateTemp(p, t) PROVE TempsLeft'
    <3>1. \A q \in Op \ {p} : pc'[q] = pc[q] /\ leak'[q] = leak[q] /\ Temp(q)' = Temp(q)
      BY <2>1, <2>3, <1>t DEF CreateTemp, TypeOK, Temp
    <3>2. /\ Temp(p)' = <<target[p], t>>
          /\ tmp' = [tmp EXCEPT ![<<target[p], t>>] = p]
          /\ \/ pc'[p] = "input"
             \/ pc'[p] = "done" /\ leak'[p] # None
      BY <2>1, <2>3, <1>t, NoneAssumption DEF CreateTemp, TypeOK, Temp
    <3> QED
      BY <2>1, <2>2, <3>1, <3>2, <1>t DEF TempsLeft, TypeOK
  <2>4. CASE UNCHANGED <<tmp, token, leak>> /\ (\A q \in Op \ {p} : pc'[q] = pc[q])
    BY <2>1, <2>2, <2>4 DEF TempsLeft, Temp
  <2>5. TryAnotherName(p) => UNCHANGED <<tmp, token, leak>> /\ (\A q \in Op \ {p} : pc'[q] = pc[q])
    BY <1>t DEF TryAnotherName, TypeOK
  <2>6. Return(p, "backend_failure") => (\A q \in Op \ {p} : pc'[q] = pc[q])
    BY <1>t DEF TypeOK
  <2> QED
    BY <1>2, <2>3, <2>4, <2>5, <2>6 DEF OpenUniqueTempOutput
<1>3. ASSUME NEW p \in Op, \/ OpenInput(p) \/ ReadHeader(p) \/ Flush(p) \/ Close(p)
                           \/ Link(p) \/ CheckBeforeRename(p) \/ FlushParentDirectory(p)
                           \/ WritePayload(p)
      PROVE  TempsLeft'
  <2>1. /\ UNCHANGED <<tmp, token, target, leak, losses>>
        /\ \A q \in Op \ {p} : pc'[q] = pc[q]
        /\ pc'[p] \notin {"idle", "ensure", "prepare", "temp", "syncdir"}
        /\ pc'[p] = "done" => pc[p] = "syncdir"
    BY <1>3, <1>t DEF OpenInput, ReadHeader, WritePayload, Flush, Close, Link, AfterLink,
                      CheckBeforeRename, FlushParentDirectory, TypeOK
  <2> QED
    BY <2>1 DEF TempsLeft, Temp
\* What gives a name back, or fails to.
<1>4. ASSUME NEW p \in Op, UnlinkTemp(p) \/ Cleanup(p) PROVE TempsLeft'
  <2>1. /\ UNCHANGED <<token, target, losses>>
        /\ \A q \in Op \ {p} : pc'[q] = pc[q] /\ leak'[q] = leak[q]
        /\ pc'[p] \in {"syncdir", "done"}
        /\ \/ tmp' = [tmp EXCEPT ![Temp(p)] = NoFile]
           \/ tmp' = tmp /\ leak'[p] = "remove"
    BY <1>4, <1>t DEF UnlinkTemp, Cleanup, RemoveQuietly, TypeOK
  <2>2. \A n \in Output \X Token : tmp'[n] = tmp[n] \/ tmp'[n] = NoFile
    BY <2>1, <1>t DEF TypeOK
  <2>3. Temp(p) \in Output \X Token
    BY <1>4 DEF UnlinkTemp, Cleanup, Base, CallKnown, Running, Step, Holding, Temp
  <2>4. tmp'[Temp(p)] = p => leak'[p] # None
    BY <2>1, <2>3, <1>t, NoneAssumption DEF TypeOK
  <2> QED
    BY <2>1, <2>2, <2>4 DEF TempsLeft, Temp
<1>5. ASSUME NEW p \in Op, MoveFileNoReplace(p) \/ Rename(p) PROVE TempsLeft'
  <2>1. /\ UNCHANGED <<token, target, leak, losses>>
        /\ \A q \in Op \ {p} : pc'[q] = pc[q]
        /\ \/ pc'[p] = "cleanup" /\ tmp' = tmp
           \/ pc'[p] = "done" /\ tmp' = [tmp EXCEPT ![Temp(p)] = NoFile]
    BY <1>5, <1>t DEF MoveFileNoReplace, Rename, TypeOK
  <2>2. \A n \in Output \X Token : tmp'[n] = tmp[n] \/ tmp'[n] = NoFile
    BY <2>1, <1>t DEF TypeOK
  <2>3. pc'[p] = "done" => \A n \in Output \X Token : tmp'[n] # p
    BY <2>1, <1>t DEF TempsLeft, TypeOK
  <2> QED
    BY <2>1, <2>2, <2>3 DEF TempsLeft, Temp
<1>6. ASSUME NEW p \in Op, Kill(p) PROVE TempsLeft'
  BY <1>6, <1>t DEF Kill, TempsLeft, Temp, TypeOK
<1>7. ASSUME \/ \E p \in Op : WriteBackData(p)
             \/ \E o \in Output : ForeignCreate(o) \/ WriteBackOutput(o)
             \/ \E n \in Output \X Token : WriteBackTemp(n)
             \/ UNCHANGED vars
      PROVE  TempsLeft'
  <2>1. UNCHANGED <<pc, tmp, token, target, leak, losses>>
    BY <1>7 DEF WriteBackData, ForeignCreate, WriteBackOutput, WriteBackTemp, vars
  <2> QED
    BY <2>1 DEF TempsLeft, Temp
<1>8. ASSUME PowerLoss PROVE FALSE
  BY <1>8, <1>t DEF PowerLoss, TypeOK
<1> QED
  BY <1>1, <1>2, <1>3, <1>4, <1>5, <1>6, <1>7, <1>8 DEF Next, CallStep

\* A call that has ended leaves no temporary file behind unless removing it failed or
\* fdopen did.
THEOREM TempAccountedCorrect == Spec => []TempAccounted
<1>1. TempsLeft => TempAccounted
  BY DEF TempsLeft, TempAccounted
<1> QED
  BY <1>1, InitBase, NextBase, InitTempsLeft, NextTempsLeft, PTL DEF Spec

-----------------------------------------------------------------------------
(* Calls that compete for a path, on every platform. *)

\* While nothing adverse happened, a call is turned away only by an output that is
\* there, and an output is there only by a call that succeeds.
Contest ==
    faults = 0 /\ losses = 0 =>
        /\ \A p \in Op : \/ pc[p] \in {"unlink", "syncdir", "cleanup"}
                         \/ pc[p] = "done" /\ attempt[p] = 0
                         => target[p] \in Output /\ dir[target[p]] # NoFile
        /\ \A o \in Output : dir[o] # NoFile =>
              \E q \in Op : /\ target[q] = o
                            /\ \/ pc[q] \in {"unlink", "syncdir"}
                               \/ pc[q] = "done" /\ result[q] = "ok"

\* Contest holds before any call is made.
LEMMA InitContest == Init => Contest
  BY DEF Init, Contest

\* Every step preserves Contest.
LEMMA NextContest == Base /\ Contest /\ [Next]_vars => Contest'
<1> SUFFICES ASSUME Base, Contest, [Next]_vars, faults' = 0, losses' = 0 PROVE Contest'
  BY DEF Contest
<1> USE DEF callVars, inodeVars, dirVars, envVars, Goto, Return, ThrowInTry, Fault
<1>t. TypeOK
  BY DEF Base
<1>f. ~Fault
  BY <1>t DEF TypeOK
<1>1. ASSUME NEW p \in Op, Call(p) PROVE Contest'
  BY <1>1, <1>t DEF Call, Contest, TypeOK
<1>2. ASSUME NEW p \in Op, CallWithEmptyPassword(p) \/ Kill(p) PROVE FALSE
  BY <1>2, <1>f DEF CallWithEmptyPassword, Kill
<1>3. ASSUME NEW p \in Op, EnsureOutputDoesNotExist(p) PROVE Contest'
  <2>1. target[p] \in Output
    BY <1>3 DEF EnsureOutputDoesNotExist, Base, CallKnown, Running, Step
  <2> QED
    BY <1>3, <1>f, <1>t, <2>1 DEF EnsureOutputDoesNotExist, Contest, TypeOK
\* Steps within a call that neither reach nor leave the outputs.
<1>4. ASSUME NEW p \in Op, \/ MakeHeaderAndKey(p) \/ OpenInput(p) \/ ReadHeader(p)
                           \/ WritePayload(p) \/ Flush(p) \/ Close(p)
      PROVE  Contest'
  <2>1. /\ UNCHANGED <<target, attempt, result, dir, losses, faults>>
        /\ \A q \in Op \ {p} : pc'[q] = pc[q]
        /\ pc[p] \notin {"unlink", "syncdir", "done"}
        /\ pc'[p] \notin {"unlink", "syncdir", "cleanup", "done"}
    BY <1>4, <1>f, <1>t DEF MakeHeaderAndKey, OpenInput, ReadHeader, WritePayload, Flush, Close,
                            TypeOK
  <2> QED
    BY <2>1 DEF Contest
<1>5. ASSUME NEW p \in Op, OpenUniqueTempOutput(p) PROVE Contest'
  <2>1. pc[p] = "temp" /\ UNCHANGED <<target, dir, losses, faults>>
    BY <1>5, <1>f DEF OpenUniqueTempOutput, CreateTemp, TryAnotherName
  <2>2. CASE UNCHANGED <<attempt, result>> /\ pc' = [pc EXCEPT ![p] = "input"]
    BY <2>1, <2>2, <1>t DEF Contest, TypeOK
  <2>3. CASE TryAnotherName(p)
    <3>1. /\ attempt'[p] # 0
          /\ pc'[p] \in {"temp", "done"}
          /\ \A q \in Op \ {p} : attempt'[q] = attempt[q]
      BY <2>1, <2>3, <1>t DEF TryAnotherName, CountAttempt, TypeOK
    <3>2. \A q \in Op \ {p} : pc'[q] = pc[q] /\ result'[q] = result[q]
      BY <2>3, <1>t DEF TryAnotherName, TypeOK
    <3> QED
      BY <2>1, <3>1, <3>2 DEF Contest
  <2> QED
    BY <1>5, <1>f, <2>2, <2>3 DEF OpenUniqueTempOutput, CreateTemp
\* The commits: the output is there, and so is its call.
<1>6. ASSUME NEW p \in Op, Link(p) \/ MoveFileNoReplace(p) \/ Rename(p) \/ CheckBeforeRename(p)
      PROVE  Contest'
  <2>1. /\ target[p] \in Output
        /\ tmp[Temp(p)] = p
        /\ pc[p] \notin {"unlink", "syncdir", "done", "cleanup"}
    BY <1>6 DEF Link, MoveFileNoReplace, Rename, CheckBeforeRename, Base, CallKnown, TempsOwned,
                Running, Step, Holding
  <2>q. /\ UNCHANGED <<target, attempt, losses, faults>>
        /\ \A q \in Op \ {p} : pc'[q] = pc[q] /\ result'[q] = result[q]
    <3>1. UNCHANGED <<target, attempt, losses, faults>>
      BY <1>6, <1>f DEF Link, AfterLink, MoveFileNoReplace, Rename, CheckBeforeRename
    <3>2. \A q \in Op \ {p} : pc'[q] = pc[q]
      BY <1>6, <1>t DEF Link, AfterLink, MoveFileNoReplace, Rename, CheckBeforeRename, TypeOK
    <3>3. \A q \in Op \ {p} : result'[q] = result[q]
      BY <1>6, <1>t DEF Link, AfterLink, MoveFileNoReplace, Rename, CheckBeforeRename, TypeOK
    <3> QED
      BY <3>1, <3>2, <3>3
  <2>2. \/ pc'[p] = "rename" /\ UNCHANGED dir
        \/ pc'[p] = "cleanup" /\ UNCHANGED dir /\ dir[target[p]] # NoFile
        \/ /\ pc'[p] = "unlink" \/ (pc'[p] = "done" /\ result'[p] = "ok")
           /\ dir' = [dir EXCEPT ![target[p]] = p]
    <3>1. CASE Link(p)
      <4>1. \/ Goto(p, "unlink") /\ dir' = [dir EXCEPT ![target[p]] = p]
            \/ ThrowInTry(p, "invalid_input") /\ UNCHANGED dir /\ dir[target[p]] # NoFile
        BY <3>1, <1>f, <2>1 DEF Link, AfterLink, OutputIsFree
      <4> QED
        BY <4>1, <1>t DEF TypeOK
    <3>2. CASE MoveFileNoReplace(p)
      <4>1. \/ Return(p, "ok") /\ dir' = [dir EXCEPT ![target[p]] = p]
            \/ ThrowInTry(p, "invalid_input") /\ UNCHANGED dir /\ dir[target[p]] # NoFile
        BY <3>2, <1>f, <2>1 DEF MoveFileNoReplace, OutputIsFree
      <4> QED
        BY <4>1, <1>t DEF TypeOK
    <3>3. CASE Rename(p) \/ CheckBeforeRename(p)
      <4>1. CASE Rename(p)
        BY <4>1, <1>f, <1>t, <2>1 DEF Rename, TypeOK
      <4>2. CASE CheckBeforeRename(p)
        BY <4>2, <1>f, <1>t, <2>1 DEF CheckBeforeRename, TypeOK
      <4> QED
        BY <3>3, <4>1, <4>2
    <3> QED
      BY <1>6, <3>1, <3>2, <3>3
  <2>3. \A o \in Output : /\ dir[o] # NoFile => dir'[o] # NoFile
                          /\ dir'[o] # NoFile => dir[o] # NoFile \/ o = target[p]
    BY <2>1, <2>2, <1>t DEF TypeOK
  <2>4. pc'[p] # "rename" => dir'[target[p]] # NoFile
    BY <2>1, <2>2, <1>t DEF TypeOK
  <2>5. CASE pc'[p] \in {"rename", "cleanup"}
    BY <2>1, <2>q, <2>2, <2>4, <2>5 DEF Contest
  <2>6. CASE pc'[p] = "unlink" \/ (pc'[p] = "done" /\ result'[p] = "ok")
    BY <2>1, <2>q, <2>2, <2>3, <2>4, <2>6 DEF Contest
  <2> QED
    BY <2>2, <2>5, <2>6
<1>7. ASSUME NEW p \in Op, UnlinkTemp(p) \/ FlushParentDirectory(p) PROVE Contest'
  <2>1. /\ UNCHANGED <<target, attempt, dir, losses, faults>>
        /\ \A q \in Op \ {p} : pc'[q] = pc[q] /\ result'[q] = result[q]
        /\ pc[p] \in {"unlink", "syncdir"}
        /\ pc'[p] = "syncdir" \/ (pc'[p] = "done" /\ result'[p] = "ok")
    <3>1. CASE UnlinkTemp(p)
      <4>1. Goto(p, "syncdir") /\ UNCHANGED <<target, attempt, dir, losses, faults, result>>
        BY <3>1, <1>f DEF UnlinkTemp, RemoveQuietly
      <4>2. pc[p] = "unlink"
        BY <3>1 DEF UnlinkTemp
      <4>3. pc'[p] = "syncdir" /\ \A q \in Op \ {p} : pc'[q] = pc[q]
        BY <4>1, <1>t DEF TypeOK
      <4> QED
        BY <4>1, <4>2, <4>3
    <3>2. CASE FlushParentDirectory(p)
      <4>1. Return(p, "ok") /\ UNCHANGED <<target, attempt, dir, losses, faults>>
        BY <3>2, <1>f DEF FlushParentDirectory
      <4>2. pc[p] = "syncdir"
        BY <3>2 DEF FlushParentDirectory
      <4> QED
        BY <4>1, <4>2, <1>t DEF TypeOK
    <3> QED
      BY <1>7, <3>1, <3>2
  <2> QED
    BY <2>1 DEF Contest
<1>8. ASSUME NEW p \in Op, Cleanup(p) PROVE Contest'
  <2>1. /\ UNCHANGED <<target, attempt, dir, losses, faults, result>>
        /\ \A q \in Op \ {p} : pc'[q] = pc[q]
        /\ pc[p] = "cleanup" /\ pc'[p] = "done"
    BY <1>8, <1>f, <1>t DEF Cleanup, RemoveQuietly, TypeOK
  <2> QED
    BY <2>1 DEF Contest
<1>9. ASSUME \/ \E p \in Op : WriteBackData(p)
             \/ \E o \in Output : WriteBackOutput(o)
             \/ \E n \in Output \X Token : WriteBackTemp(n)
             \/ UNCHANGED vars
      PROVE  Contest'
  <2>1. UNCHANGED <<pc, target, attempt, result, dir, faults, losses>>
    BY <1>9 DEF WriteBackData, WriteBackOutput, WriteBackTemp, vars
  <2> QED
    BY <2>1 DEF Contest
<1>10. ASSUME \/ PowerLoss
              \/ \E o \in Output : ForeignCreate(o)
       PROVE  FALSE
  BY <1>10, <1>t, <1>f DEF PowerLoss, ForeignCreate, TypeOK
<1> QED
  BY <1>1, <1>2, <1>3, <1>4, <1>5, <1>6, <1>7, <1>8, <1>9, <1>10 DEF Next, CallStep

\* Calls that compete for a path do not all defeat each other: ensure_output_does_not_exist
\* and the commit turn a call away only when another one has published.
THEOREM SomeoneWinsCorrect == Spec => []SomeoneWins
<1>1. Contest => SomeoneWins
  BY DEF Contest, SomeoneWins
<1> QED
  BY <1>1, InitBase, NextBase, InitContest, NextContest, PTL DEF Spec

-----------------------------------------------------------------------------
(* PathFile implements AtomicPublish where the commit refuses an existing    *)
(* output (link, MoveFileExW): nothing at an output path is ever unfinished, *)
(* so what a reader sees is the directory.                                   *)

USE NoneAssumption

\* No file at an output path is short, so the mapping hides nothing.
LEMMA VisibleIsDir == Base /\ Publication => VisibleFile = dir
<1> SUFFICES ASSUME Base, Publication PROVE VisibleFile = dir
  OBVIOUS
<1>1. ASSUME NEW o \in Output, dir[o] \in Op PROVE size[dir[o]] = Units
  <2> DEFINE p == dir[o]
  <2>1. durable[p] = Units
    BY <1>1 DEF Publication, Published
  <2>2. durable[p] <= size[p] /\ size[p] \in 0..Units
    BY <1>1 DEF Base, Layered, TypeOK
  <2> QED
    BY <2>1, <2>2
<1> QED
  BY <1>1 DEF VisibleFile, Base, TypeOK

\* The same after a step.
LEMMA VisibleIsDirNext == (Base /\ Publication)' => (VisibleFile = dir)'
  BY VisibleIsDir, PTL

\* A call that has not reached the commit, or was just refused, stands at no output.
LEMMA NotPublished ==
    ASSUME Base, Publication, NEW p \in Op,
           pc[p] \notin {"unlink", "syncdir", "cleanup", "done", "crashed"}
    PROVE  \A o \in Output : dir[o] # p
  BY DEF Publication, Published

\* A step of p that ends its call reports the call's result.
LEMMA ReportStep ==
    ASSUME TypeOK, NEW p \in Op, pc' = [pc EXCEPT ![p] = "done"],
           \A q \in Op \ {p} : result'[q] = result[q]
    PROVE  Reported' = [Reported EXCEPT ![p] = result'[p]]
  BY DEF TypeOK, Reported

\* A step of p within its call reports nothing.
LEMMA SilentStep ==
    ASSUME TypeOK, NEW p \in Op, NEW s, pc[p] # "done", s # "done",
           pc' = [pc EXCEPT ![p] = s],
           \A q \in Op \ {p} : result'[q] = result[q]
    PROVE  Reported' = Reported
  BY DEF TypeOK, Reported

-----------------------------------------------------------------------------
(* Steps that publish nothing: silent, or a refusal. *)

\* A call that ends with an error before it published anything refuses.
LEMMA EndsRefused ==
    ASSUME Base, Publication, Base', Publication', NEW p \in Op, UNCHANGED dir,
           pc[p] \notin {"unlink", "syncdir", "cleanup", "done", "crashed"},
           pc' = [pc EXCEPT ![p] = "done"], NEW e \in Error,
           result' = [result EXCEPT ![p] = e]
    PROVE  Abstract!Refuse(p)
<1>1. VisibleFile = dir /\ VisibleFile' = dir'
  BY VisibleIsDir, VisibleIsDirNext
<1>2. Reported[p] = None
  BY DEF Reported
<1>3. Reported' = [Reported EXCEPT ![p] = e]
  <2>1. result'[p] = e /\ \A q \in Op \ {p} : result'[q] = result[q]
    BY DEF Base, TypeOK
  <2> QED
    BY <2>1, ReportStep DEF Base
<1>4. \A o \in Output : VisibleFile[o] # p
  BY <1>1, NotPublished
<1> QED
  BY <1>1, <1>2, <1>3, <1>4 DEF Abstract!Refuse, Abstract!Published, Abstract!Errors, Error

\* A step that leaves the outputs alone and ends no call is a stutter.
LEMMA StaysSilent ==
    ASSUME Base, Publication, Base', Publication', NEW p \in Op, NEW s, UNCHANGED dir,
           pc[p] # "done", s # "done", pc' = [pc EXCEPT ![p] = s],
           \A q \in Op \ {p} : result'[q] = result[q]
    PROVE  UNCHANGED <<VisibleFile, Reported>>
<1>1. VisibleFile = dir /\ VisibleFile' = dir'
  BY VisibleIsDir, VisibleIsDirNext
<1> QED
  BY <1>1, SilentStep DEF Base

-----------------------------------------------------------------------------
(* Every step implements a step of AtomicPublish or is a stutter. *)

\* A step of PathFile publishes as AtomicPublish does, or changes nothing it sees.
LEMMA StepRefines ==
    ASSUME Platform # "other", Base, Publication, Base', Publication', [Next]_vars
    PROVE  [Abstract!Next]_<<VisibleFile, Reported>>
<1> USE DEF callVars, inodeVars, dirVars, envVars, Goto, Return, ThrowInTry, Fault
<1> DEFINE Mapped == [Abstract!Next]_<<VisibleFile, Reported>>
<1>v. VisibleFile = dir /\ VisibleFile' = dir'
  BY VisibleIsDir, VisibleIsDirNext
<1>t. TypeOK /\ TypeOK'
  BY DEF Base
<1>r. ASSUME NEW p \in Op, Abstract!Refuse(p) PROVE Mapped
  BY <1>r DEF Abstract!Next
<1>a. ASSUME NEW p \in Op, Abstract!Acknowledge(p) PROVE Mapped
  BY <1>a DEF Abstract!Next
<1>p. ASSUME NEW p \in Op, NEW o \in Output, Abstract!Publish(p, o) PROVE Mapped
  BY <1>p DEF Abstract!Next
<1>1. ASSUME NEW p \in Op, \/ Call(p) \/ CallWithEmptyPassword(p) \/ EnsureOutputDoesNotExist(p)
                           \/ MakeHeaderAndKey(p) \/ OpenInput(p) \/ ReadHeader(p)
                           \/ Close(p)
      PROVE  Mapped
  <2> USE <1>1 DEF Call, CallWithEmptyPassword, EnsureOutputDoesNotExist, MakeHeaderAndKey,
                   OpenInput, ReadHeader, Close
  <2>1. UNCHANGED dir /\ pc[p] \notin {"unlink", "syncdir", "cleanup", "done", "crashed"}
    OBVIOUS
  <2>2. \/ \E e \in Error : /\ pc' = [pc EXCEPT ![p] = "done"]
                            /\ result' = [result EXCEPT ![p] = e]
        \/ \E s \in Step : /\ pc' = [pc EXCEPT ![p] = s]
                           /\ \A q \in Op \ {p} : result'[q] = result[q]
    BY <1>t DEF Error, Step, TypeOK
  <2> QED
    BY ONLY Base, Publication, Base', Publication', p \in Op, <2>1, <2>2, EndsRefused,
       StaysSilent, <1>r DEF Step
<1>2. ASSUME NEW p \in Op, OpenUniqueTempOutput(p) PROVE Mapped
  <2>1. UNCHANGED dir /\ pc[p] = "temp"
    BY <1>2 DEF OpenUniqueTempOutput
  <2>2. CASE UNCHANGED <<pc, result>>
    BY <1>v, <2>1, <2>2 DEF Reported
  <2>3. CASE /\ pc' = [pc EXCEPT ![p] = "input"]
             /\ UNCHANGED result
    BY ONLY Base, Publication, Base', Publication', p \in Op, <2>1, <2>3, StaysSilent
  <2>4. CASE /\ pc' = [pc EXCEPT ![p] = "done"]
             /\ result' = [result EXCEPT ![p] = "backend_failure"]
    <3>1. "backend_failure" \in Error
      BY DEF Error
    <3> QED
      BY ONLY Base, Publication, Base', Publication', p \in Op, <2>1, <2>4, <3>1, EndsRefused,
         <1>r
  <2> QED
    BY <1>2, <2>2, <2>3, <2>4 DEF OpenUniqueTempOutput, CreateTemp, TryAnotherName
<1>3. ASSUME NEW p \in Op, WritePayload(p) \/ Flush(p) PROVE Mapped
  <2> USE <1>3 DEF WritePayload, Flush
  <2>1. UNCHANGED dir /\ pc[p] # "done"
    OBVIOUS
  <2>2. \/ UNCHANGED <<pc, result>>
        \/ \E s \in Step : /\ pc' = [pc EXCEPT ![p] = s]
                           /\ \A q \in Op \ {p} : result'[q] = result[q]
    BY <1>t DEF Step, TypeOK
  <2>3. CASE UNCHANGED <<pc, result>>
    BY ONLY <1>v, <2>1, <2>3 DEF Reported
  <2> QED
    BY ONLY Base, Publication, Base', Publication', p \in Op, <2>1, <2>2, <2>3, StaysSilent DEF Step
\* link() publishes; what stands in its way leads to the handler.
<1>4. ASSUME NEW p \in Op, Link(p) PROVE Mapped
  <2>1. pc[p] = "commit" /\ target[p] \in Output /\ tmp[Temp(p)] = p
    BY <1>4 DEF Link, Base, CallKnown, TempsOwned, Running, Step, Holding
  <2>2. Reported' = Reported
    <3>1. \/ pc' = [pc EXCEPT ![p] = "unlink"]
          \/ pc' = [pc EXCEPT ![p] = "cleanup"]
      BY <1>4 DEF Link, AfterLink
    <3>2. \A q \in Op \ {p} : result'[q] = result[q]
      BY <1>4, <1>t DEF Link, AfterLink, TypeOK
    <3> QED
      BY <1>t, <2>1, <3>1, <3>2, SilentStep
  <2>3. CASE UNCHANGED dir
    BY <1>v, <2>2, <2>3
  <2>4. CASE dir[target[p]] = NoFile /\ dir' = [dir EXCEPT ![target[p]] = p]
    <3>1. Reported[p] = None /\ \A o \in Output : dir[o] # p
      BY <2>1, NotPublished DEF Reported
    <3>2. Abstract!Publish(p, target[p])
      BY <1>v, <2>2, <2>4, <3>1 DEF Abstract!Publish, Abstract!Published
    <3> QED
      BY <1>p, <2>1, <3>2
  <2> QED
    BY <1>4, <2>1, <2>3, <2>4 DEF Link, OutputIsFree
<1>5. ASSUME NEW p \in Op, MoveFileNoReplace(p) PROVE Mapped
  <2>1. pc[p] = "commit" /\ target[p] \in Output /\ tmp[Temp(p)] = p
    BY <1>5 DEF MoveFileNoReplace, Base, CallKnown, TempsOwned, Running, Step, Holding
  <2>2. CASE /\ UNCHANGED dir
             /\ pc' = [pc EXCEPT ![p] = "cleanup"]
             /\ \A q \in Op \ {p} : result'[q] = result[q]
    BY ONLY Base, Publication, Base', Publication', p \in Op, <2>1, <2>2, StaysSilent
  <2>3. CASE /\ dir[target[p]] = NoFile
             /\ dir' = [dir EXCEPT ![target[p]] = p]
             /\ Return(p, "ok")
    <3>1. Reported[p] = None /\ \A o \in Output : dir[o] # p
      BY <2>1, NotPublished DEF Reported
    <3>2. Reported' = [Reported EXCEPT ![p] = "ok"]
      <4>1. result'[p] = "ok" /\ \A q \in Op \ {p} : result'[q] = result[q]
        BY <2>3, <1>t DEF TypeOK
      <4> QED
        BY <1>t, <2>3, <4>1, ReportStep
    <3>3. Abstract!Publish(p, target[p])
      BY <1>v, <2>3, <3>1, <3>2 DEF Abstract!Publish, Abstract!Published
    <3> QED
      BY <1>p, <2>1, <3>3
  <2>4. ThrowInTry(p, "invalid_input") \/ ThrowInTry(p, "backend_failure")
           => \A q \in Op \ {p} : result'[q] = result[q]
    BY <1>t DEF TypeOK
  <2> QED
    BY <1>5, <2>1, <2>2, <2>3, <2>4 DEF MoveFileNoReplace, OutputIsFree
<1>6. ASSUME NEW p \in Op, UnlinkTemp(p) PROVE Mapped
  <2>1. UNCHANGED <<dir, result>> /\ pc[p] = "unlink" /\ pc' = [pc EXCEPT ![p] = "syncdir"]
    BY <1>6 DEF UnlinkTemp
  <2> QED
    BY ONLY Base, Publication, Base', Publication', p \in Op, <2>1, StaysSilent
\* The directory reaches the disk and the call acknowledges what it published.
<1>7. ASSUME NEW p \in Op, FlushParentDirectory(p) PROVE Mapped
  <2>1. UNCHANGED dir /\ pc[p] = "syncdir"
    BY <1>7 DEF FlushParentDirectory
  <2>2. CASE Return(p, "ok")
    <3>1. target[p] \in Output /\ dir[target[p]] = p
      BY <2>1 DEF Base, CallKnown, Running, Step, Publication, Acknowledged
    <3>2. Reported[p] = None
      BY <2>1 DEF Reported
    <3>3. Reported' = [Reported EXCEPT ![p] = "ok"]
      <4>1. result'[p] = "ok" /\ \A q \in Op \ {p} : result'[q] = result[q]
        BY <2>2, <1>t DEF TypeOK
      <4> QED
        BY <1>t, <2>2, <4>1, ReportStep
    <3>4. Abstract!Acknowledge(p)
      BY <1>v, <2>1, <3>1, <3>2, <3>3 DEF Abstract!Acknowledge, Abstract!Published
    <3> QED
      BY <1>a, <3>4
  <2>3. CASE ThrowInTry(p, "backend_failure")
    <3>1. \A q \in Op \ {p} : result'[q] = result[q]
      BY <2>3, <1>t DEF TypeOK
    <3> QED
      BY ONLY Base, Publication, Base', Publication', p \in Op, <2>1, <2>3, <3>1, StaysSilent
         DEF ThrowInTry, Goto
  <2> QED
    BY <1>7, <2>2, <2>3 DEF FlushParentDirectory
<1>8. ASSUME NEW p \in Op, CheckBeforeRename(p) \/ Rename(p) PROVE Mapped
  BY <1>8 DEF CheckBeforeRename, Rename, Base, PlatformSteps
\* The handler rethrows: a refusal, unless the output was published before the error.
<1>9. ASSUME NEW p \in Op, Cleanup(p) PROVE Mapped
  <2>1. /\ UNCHANGED <<dir, result>>
        /\ pc[p] = "cleanup"
        /\ pc' = [pc EXCEPT ![p] = "done"]
    BY <1>9 DEF Cleanup
  <2>2. Reported[p] = None
    BY <2>1 DEF Reported
  <2>3. Reported' = [Reported EXCEPT ![p] = result[p]] /\ result[p] \in Error
    BY <1>t, <2>1, ReportStep DEF Publication, InFlight
  <2>4. CASE \E o \in Output : dir[o] = p
    <3>1. result[p] = "backend_failure"
      BY <2>3, <2>4 DEF Publication, Published, Error
    <3>2. Abstract!Acknowledge(p)
      BY <1>v, <2>1, <2>2, <2>3, <2>4, <3>1 DEF Abstract!Acknowledge, Abstract!Published
    <3> QED
      BY <1>a, <3>2
  <2>5. CASE \A o \in Output : dir[o] # p
    <3>1. Abstract!Refuse(p)
      BY <1>v, <2>1, <2>2, <2>3, <2>5
         DEF Abstract!Refuse, Abstract!Published, Abstract!Errors, Error
    <3> QED
      BY <1>r, <3>1
  <2> QED
    BY <2>4, <2>5
<1>10. ASSUME NEW p \in Op, Kill(p) PROVE Mapped
  <2>1. UNCHANGED <<dir, result>> /\ pc[p] # "done" /\ pc' = [pc EXCEPT ![p] = "crashed"]
    BY <1>10 DEF Kill, Running, Step
  <2> QED
    BY ONLY Base, Publication, Base', Publication', p \in Op, <2>1, StaysSilent
<1>11. ASSUME NEW o \in Output, ForeignCreate(o) PROVE Mapped
  <2>1. Abstract!ForeignCreate(o)
    BY <1>v, <1>11 DEF ForeignCreate, Reported, Abstract!ForeignCreate
  <2> QED
    BY <2>1 DEF Abstract!Next
<1>12. ASSUME \/ \E p \in Op : WriteBackData(p)
              \/ \E o \in Output : WriteBackOutput(o)
              \/ \E n \in Output \X Token : WriteBackTemp(n)
              \/ UNCHANGED vars
       PROVE  Mapped
  <2>1. UNCHANGED <<dir, pc, result>>
    BY <1>12 DEF WriteBackData, WriteBackOutput, WriteBackTemp, vars
  <2> QED
    BY <1>v, <2>1 DEF Reported
\* A power loss keeps the outputs whose entry the disk has; every acknowledged one is.
<1>13. ASSUME PowerLoss PROVE Mapped
  <2> DEFINE kept == {o \in Output : diskDir[o] = dir[o]}
  <2>1. dir' = diskDir /\ UNCHANGED result
    BY <1>13 DEF PowerLoss
  <2>2. Reported' = Reported
    BY <1>13, <1>t DEF PowerLoss, Reported, Running, Step, TypeOK
  <2>3. \A p \in Op, o \in Output : Reported[p] = "ok" /\ dir[o] = p => o \in kept
    BY DEF Reported, Publication, Published, Acknowledged
  <2>4. dir' = [o \in Output |-> IF o \in kept THEN dir[o] ELSE NoFile]
    BY <2>1, <1>t DEF Publication, DiskBehind, TypeOK
  <2>5. Abstract!Lose
    BY <1>v, <2>2, <2>3, <2>4 DEF Abstract!Lose
  <2> QED
    BY <2>5 DEF Abstract!Next
<1> QED
  BY <1>1, <1>2, <1>3, <1>4, <1>5, <1>6, <1>7, <1>8, <1>9, <1>10, <1>11, <1>12, <1>13
     DEF Next, CallStep

\* PathFile implements AtomicPublish: an output path goes from absent to one complete file
\* in a single step, is never replaced, an acknowledged output survives power losses, and
\* only backend_failure can leave an output behind.
THEOREM PublishesAtomicallyCorrect ==
    ASSUME Platform # "other" PROVE Spec => PublishesAtomically
<1>1. Init => Abstract!Init
  BY DEF Init, VisibleFile, Reported, Abstract!Init
<1>2. [Next]_vars /\ Base /\ Publication /\ Base' /\ Publication'
         => [Abstract!Next]_<<VisibleFile, Reported>>
  BY StepRefines
<1> QED
  BY <1>1, <1>2, PublicationInvariant, PTL DEF Spec, PublishesAtomically, Abstract!Spec
=============================================================================

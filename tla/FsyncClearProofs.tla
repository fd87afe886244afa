-------------------------- MODULE FsyncClearProofs --------------------------
(***************************************************************************)
(* FsyncClear for every size of file system and every choice of bad        *)
(* blocks: the second fsync() never fails, what it calls "BAD" is lost     *)
(* data, and no loss goes unnoticed but where reopen_fd() drops the error. *)
(***************************************************************************)
EXTENDS FsyncClear, TLAPS

BeforeFsync == {"reopen", "sync", "open", "fsync1"}

\* Between iterations, and after the first fsync(), the kernel has nothing to
\* write and nothing to report; before it, only the current block can be dirty,
\* and a recorded error is about that block.
KernelOK ==
    /\ pc \notin BeforeFsync \cup {"exit"} \/ write_err => dirty = {} /\ ~ pending
    /\ dirty \subseteq {last_offset}
    /\ pending => last_offset \notin disk /\ dirty = {}
    /\ dirty \cap disk = {}

\* The block an error was reported for is not on the disk.
LossOK ==
    /\ pc \in BeforeFsync => ~ fsync_err
    /\ pc = "fsync2" /\ fsync_err => last_offset \notin disk
    /\ verdict = "BAD" => pc \notin BeforeFsync /\ last_offset \notin disk /\ dirty = {} /\ ~ pending
    /\ verdict # "GOOD"

\* As long as no error was dropped, every earlier block is on the disk, and the
\* current one is on the disk, or still to be written, or its loss is recorded.
NoticeOK ==
    /\ mode = "keepopen" => pc \notin {"reopen", "sync", "open"} /\ ~ dropped
    /\ ~ dropped =>
        /\ pc = "write" => \A b \in Blocks : b < pos => b \in disk
        /\ pc \notin {"write", "exit"} => \A b \in Blocks : b < last_offset => b \in disk
        /\ pc \in BeforeFsync /\ ~ write_err =>
               pos = last_offset + 1 /\ (last_offset \in disk \cup dirty \/ pending)

IInv == TypeOK /\ KernelOK /\ LossOK /\ NoticeOK

-----------------------------------------------------------------------------

\* The file is empty and the kernel has nothing of it.
LEMMA InitIInv == Init => IInv
<1> SUFFICES ASSUME Init PROVE IInv OBVIOUS
<1>1. TypeOK
  <2>1. pos \in 0..N /\ last_offset \in 0..N BY FsyncAssumption DEF Init
  <2> QED BY <2>1, Zenon DEF Init, TypeOK
<1>2. KernelOK /\ LossOK BY DEF Init, KernelOK, LossOK, BeforeFsync
<1>3. NoticeOK BY FsyncAssumption DEF Init, NoticeOK, Blocks, BeforeFsync
<1> QED BY <1>1, <1>2, <1>3 DEF IInv

\* The flusher can only find the current block.
LEMMA AtMostOne ==
    ASSUME NEW x, NEW S, S \subseteq {x}, NEW b \in S
    PROVE  b = x /\ S = {x}
OBVIOUS

\* Writing back the current block either puts it on the disk or loses it.
LEMMA WritebackOne ==
    ASSUME NEW S, S \subseteq {last_offset}, NEW failed \in BOOLEAN, Writeback(S, failed)
    PROVE  /\ dirty' = dirty \ S
           /\ ~ failed => disk' = disk \cup S
           /\ failed => S = {last_offset} /\ disk' = disk
<1>1. PICK lost \in SUBSET (S \cap (Hole \cup Flaky)) :
          dirty' = dirty \ S /\ disk' = disk \cup (S \ lost) /\ failed = (lost # {})
  BY DEF Writeback
<1>2. CASE lost = {} BY <1>1, <1>2
<1>3. CASE lost # {}
  <2>1. lost = {last_offset} /\ S = {last_offset} BY <1>3, lost \subseteq S
  <2> QED BY <1>1, <2>1
<1> QED BY <1>2, <1>3

\* fsync() when at most the current block is dirty.
LEMMA FsyncOne ==
    ASSUME dirty \subseteq {last_offset}, pending \in BOOLEAN, NEW result \in BOOLEAN, Fsync(result)
    PROVE  /\ dirty' = {} /\ pending' = FALSE
           /\ ~ result => ~ pending /\ disk' = disk \cup dirty
           /\ result => (pending /\ disk' = disk \cup dirty) \/ (dirty = {last_offset} /\ disk' = disk)
<1>1. PICK failed \in BOOLEAN : Writeback(dirty, failed) /\ result = (pending \/ failed) /\ pending' = FALSE
  BY DEF Fsync
<1>2. /\ dirty' = dirty \ dirty
      /\ ~ failed => disk' = disk \cup dirty
      /\ failed => dirty = {last_offset} /\ disk' = disk
  BY <1>1, WritebackOne
<1>3. dirty' = {} BY <1>2
<1>4. CASE failed BY <1>1, <1>2, <1>3, <1>4, Zenon
<1>5. CASE ~ failed
  <2>1. result <=> pending BY <1>1, <1>5
  <2> QED BY <1>1, <1>2, <1>3, <1>5, <2>1
<1> QED BY <1>4, <1>5

\* The flusher writing back the current block.
LEMMA FlushOne ==
    ASSUME dirty = {last_offset}, NEW failed \in BOOLEAN, Writeback({last_offset}, failed)
    PROVE  /\ dirty' = {}
           /\ ~ failed => disk' = disk \cup {last_offset}
           /\ failed => disk' = disk
<1>1. {last_offset} \subseteq {last_offset} OBVIOUS
<1> QED BY <1>1, WritebackOne

\* Every statement of the program and every step of the kernel keeps IInv.
LEMMA NextIInv == IInv /\ [Next]_vars => IInv'
<1> SUFFICES ASSUME IInv, [Next]_vars PROVE IInv' OBVIOUS
<1> USE FsyncAssumption DEF IInv, TypeOK, KernelOK, LossOK, NoticeOK, BeforeFsync, Blocks, local, kern
<1>1. CASE Write
  <2>1. /\ pc = "write" /\ pc' \in {"reopen", "fsync1"} /\ (mode = "keepopen" => pc' = "fsync1")
        /\ last_offset' = pos /\ fsync_err' = FALSE /\ verdict' = "none"
        /\ write_err' \in {TRUE, pos = N} /\ dirty = {} /\ ~ pending
        /\ UNCHANGED <<mode, kernel, second_try, dropped, pending>>
    BY <1>1 DEF Write, AfterWrite
  <2>2. CASE write_err'
    <3>1. pos' = pos /\ dirty' = {} /\ disk' = disk BY <1>1, <2>1, <2>2 DEF Write
    <3>2. TypeOK' BY <2>1, <2>2, <3>1
    <3>3. KernelOK' /\ LossOK' BY <2>1, <2>2, <3>1
    <3>4. NoticeOK' BY <2>1, <2>2, <3>1
    <3> QED BY <3>2, <3>3, <3>4
  <2>3. CASE ~ write_err'
    <3>1. write_err' = FALSE /\ pos' = pos + 1 /\ dirty' = {pos} /\ disk' = disk \ {pos}
      BY <1>1, <2>1, <2>3 DEF Write
    <3>0. pos # N BY <2>1, <2>3, Zenon
    <3>2. pos \in 0..(N - 1) /\ pos + 1 \in 0..N BY <3>0
    <3>3. TypeOK' BY <2>1, <3>1, <3>2
    <3>4. KernelOK' /\ LossOK' BY <2>1, <3>1
    <3>5. NoticeOK' BY <2>1, <3>1, <3>2
    <3> QED BY <3>3, <3>4, <3>5
  <2> QED BY <2>2, <2>3
<1>2. CASE Exits BY <1>2 DEF Exits
<1>3. CASE Close
  <2>1. CASE UNCHANGED <<dropped, kern>> BY <1>3, <2>1 DEF Close
  <2>2. CASE Fsync(TRUE) /\ dropped' = TRUE
    <3>1. /\ dirty' = {} /\ pending' = FALSE
          /\ (pending /\ disk' = disk \cup dirty) \/ (dirty = {last_offset} /\ disk' = disk)
      BY <2>2, FsyncOne
    <3> QED BY <1>3, <2>2, <3>1 DEF Close
  <2> QED BY <1>3, <2>1, <2>2 DEF Close
<1>4. CASE Sync
  <2>1. PICK failed \in BOOLEAN : Writeback(dirty, failed) /\ pending' = (pending \/ failed)
    BY <1>4 DEF Sync
  <2>2. /\ dirty' = dirty \ dirty
        /\ ~ failed => disk' = disk \cup dirty
        /\ failed => dirty = {last_offset} /\ disk' = disk
    BY <2>1, WritebackOne
  <2>3. pc = "sync" /\ pc' = "open" /\ UNCHANGED <<mode, kernel, local>> BY <1>4 DEF Sync
  <2>4. CASE failed
    <3>1. dirty = {last_offset} /\ disk' = disk /\ dirty' = {} /\ pending' = TRUE BY <2>1, <2>2, <2>4
    <3> QED BY <2>3, <3>1
  <2>5. CASE ~ failed
    <3>1. disk' = disk \cup dirty /\ dirty' = {} /\ pending' = pending BY <2>1, <2>2, <2>5
    <3>2. TypeOK' BY <2>3, <3>1
    <3>3. KernelOK' /\ LossOK' BY <2>3, <3>1
    <3>4. NoticeOK' BY <2>3, <3>1
    <3> QED BY <3>2, <3>3, <3>4
  <2> QED BY <2>4, <2>5
<1>5. CASE Open BY <1>5 DEF Open
<1>7. CASE Fsync1
  <2>1. CASE write_err
    <3>1. /\ pc = "fsync1" /\ pc' = "fsync2" /\ dirty = {} /\ ~ pending
          /\ UNCHANGED <<mode, kernel, local, kern>>
      BY <1>7, <2>1 DEF Fsync1
    <3>2. TypeOK' /\ KernelOK' BY <3>1
    <3>3. LossOK' BY <2>1, <3>1
    <3>4. NoticeOK' BY <3>1
    <3> QED BY <3>2, <3>3, <3>4
  <2>2. CASE ~ write_err
    <3>1. PICK failed \in BOOLEAN : Fsync(failed) /\ fsync_err' = failed /\ pc' = IF failed THEN "fsync2" ELSE "write"
      BY <1>7, <2>2 DEF Fsync1
    <3>2. /\ dirty' = {} /\ pending' = FALSE
          /\ ~ failed => ~ pending /\ disk' = disk \cup dirty
          /\ failed => (pending /\ disk' = disk \cup dirty) \/ (dirty = {last_offset} /\ disk' = disk)
      BY <3>1, FsyncOne
    <3>3. /\ pc = "fsync1"
          /\ UNCHANGED <<mode, kernel, pos, last_offset, second_try, write_err, dropped, verdict>>
      BY <1>7 DEF Fsync1
    <3>4. TypeOK' BY <3>1, <3>2, <3>3
    <3>5. KernelOK' BY <3>1, <3>2, <3>3
    <3>6. LossOK' BY <3>1, <3>2, <3>3
    <3>7. NoticeOK'
      <4>1. CASE failed BY <3>1, <3>2, <3>3, <4>1
      <4>2. CASE ~ failed BY <2>2, <3>1, <3>2, <3>3, <4>2
      <4> QED BY <4>1, <4>2
    <3> QED BY <3>4, <3>5, <3>6, <3>7
  <2> QED BY <2>1, <2>2
<1>8. CASE Fsync2 BY <1>8 DEF Fsync2, Fsync, Writeback
<1>9. CASE Rewind BY <1>9 DEF Rewind
<1>10. CASE SecondFile BY <1>10 DEF SecondFile
<1>11. CASE Flusher
  <2>1. PICK b \in dirty, failed \in BOOLEAN : Writeback({b}, failed) /\ pending' = (pending \/ failed)
    BY <1>11 DEF Flusher
  <2>2. b = last_offset /\ dirty = {last_offset} BY <2>1, AtMostOne
  <2>3. /\ dirty' = {}
        /\ ~ failed => disk' = disk \cup {last_offset}
        /\ failed => disk' = disk
    BY <2>1, <2>2, FlushOne
  <2>4. UNCHANGED <<mode, kernel, pc, local>> BY <1>11 DEF Flusher
  <2> QED BY <2>1, <2>2, <2>3, <2>4
<1>12. CASE EvictInode BY <1>12 DEF EvictInode
<1>13. CASE UNCHANGED vars BY <1>13 DEF vars
<1> QED BY <1>1, <1>2, <1>3, <1>4, <1>5, <1>7, <1>8, <1>9, <1>10, <1>11, <1>12, <1>13 DEF Next, Main

\* IInv holds in every reachable state.
LEMMA SpecIInv == Spec => []IInv
BY InitIInv, NextIInv, PTL DEF Spec

-----------------------------------------------------------------------------

\* The types of the program's and the kernel's state are kept.
THEOREM TypeCorrect == Spec => []TypeOK
<1>1. IInv => TypeOK BY DEF IInv
<1> QED BY <1>1, SpecIInv, PTL

\* On such a kernel the program's second fsync() never fails after an error: the
\* claim of the opening comment of fsync-error-clear.c.
THEOREM SecondFsyncSucceeds == Spec => []NeverGood
<1>1. IInv => NeverGood BY DEF IInv, LossOK, NeverGood
<1> QED BY <1>1, SpecIInv, PTL

\* When the program prints "BAD", the block is lost although fsync() succeeded.
THEOREM BadIsLoss == Spec => []BadMeansLost
<1>1. IInv => BadMeansLost BY DEF IInv, LossOK, BadMeansLost
<1> QED BY <1>1, SpecIInv, PTL

\* The program never walks past a block that was lost, unless the error got lost
\* in reopen_fd(): from close(), with the inode, or at open().
THEOREM LossesNoticed == Spec => []LossIsNoticed
<1>1. IInv => LossIsNoticed BY FsyncAssumption DEF IInv, TypeOK, NoticeOK, LossIsNoticed
<1> QED BY <1>1, SpecIInv, PTL
=============================================================================

----------------------------- MODULE FsyncClear -----------------------------
(***************************************************************************)
(* testcases/fsync-error-clear/standalone/fsync-error-clear.c: write a     *)
(* block, fsync() it, and when either fails call fsync() once more to see  *)
(* whether the kernel still reports the error.                             *)
(*                                                                         *)
(* The kernel is external and modelled by what the program relies on.  A   *)
(* page whose writeback fails is marked clean and its data is lost; the    *)
(* failure is recorded once for the file and reported by the next fsync(), *)
(* which clears the record.  Two kinds of kernel differ in open(): with    *)
(* "flag" a new descriptor inherits an unreported error, with "sample" it  *)
(* starts from the current state and never hears of it.                    *)
(*                                                                         *)
(* Blocks are numbered 0..N-1; one write() of WRITE_BUF_SIZE fills one.    *)
(***************************************************************************)
EXTENDS Integers

CONSTANTS
    N,          \* blocks the file system has room for
    Hole,       \* blocks on the device-mapper error target: writing them back fails
    Flaky,      \* blocks whose writeback may fail (delayed allocation, ENOSPC)
    Modes,      \* subset of {"keepopen", "reopen"}
    Kernels     \* subset of {"flag", "sample"}

ASSUME FsyncAssumption ==
    /\ N \in Nat \ {0}
    /\ Hole \subseteq 0..(N - 1) /\ Flaky \subseteq 0..(N - 1)
    /\ Modes \subseteq {"keepopen", "reopen"}
    /\ Kernels \subseteq {"flag", "sample"}

Blocks == 0..(N - 1)

VARIABLES
    mode, kernel,                   \* fixed by Init
    pc,                             \* where main() is
    pos, last_offset, second_try,   \* file offset and main()'s locals
    write_err, fsync_err,
    dropped,                        \* an error was recorded and the program never acts on it
    verdict,                        \* what the last error handling printed
    dirty,                          \* blocks whose page is dirty
    disk,                           \* blocks whose data is on the device
    pending                         \* an error is recorded and not yet reported

local == <<pos, last_offset, second_try, write_err, fsync_err, dropped, verdict>>
kern == <<dirty, disk, pending>>
vars == <<mode, kernel, pc, local, kern>>

TypeOK ==
    /\ mode \in Modes /\ kernel \in Kernels
    /\ pc \in {"write", "reopen", "sync", "open", "fsync1", "fsync2", "rewind", "second", "exit"}
    /\ pos \in 0..N /\ last_offset \in 0..N
    /\ second_try \in BOOLEAN /\ write_err \in BOOLEAN /\ fsync_err \in BOOLEAN /\ dropped \in BOOLEAN
    /\ verdict \in {"none", "GOOD", "BAD", "OK"}
    /\ dirty \subseteq Blocks /\ disk \subseteq Blocks
    /\ pending \in BOOLEAN

Init ==
    /\ mode \in Modes /\ kernel \in Kernels
    /\ pc = "write"
    /\ pos = 0 /\ last_offset = 0 /\ second_try = FALSE
    /\ write_err = FALSE /\ fsync_err = FALSE /\ dropped = FALSE /\ verdict = "none"
    /\ dirty = {} /\ disk = {} /\ pending = FALSE

-----------------------------------------------------------------------------
(* The kernel.                                                             *)

\* Writing back a set of dirty pages: some blocks fail and are lost, the others
\* reach the disk, and every one of the pages is clean afterwards.
MutWriteback(S, failed) ==
    \E lost \in SUBSET (S \cap (Hole \cup Flaky)) :
        /\ S \cap Hole \subseteq lost
        /\ dirty' = dirty \ (S \ lost)
        /\ disk' = disk \cup (S \ lost)
        /\ failed = (lost # {})
Writeback(S, failed) ==
    \E lost \in SUBSET (S \cap (Hole \cup Flaky)) :
        /\ S \cap Hole \subseteq lost
        /\ dirty' = dirty \ S
        /\ disk' = disk \cup (S \ lost)
        /\ failed = (lost # {})

\* The flusher thread writes back some page on its own.
Flusher ==
    /\ pc # "exit"
    /\ \E b \in dirty, failed \in BOOLEAN : Writeback({b}, failed) /\ pending' = (pending \/ failed)
    /\ UNCHANGED <<mode, kernel, pc, local>>

\* fsync() writes back what is dirty and reports a recorded error, once.
MutFsync(result) ==
    \E failed \in BOOLEAN :
        Writeback(dirty, failed) /\ result = failed /\ pending' = pending
Fsync(result) ==
    \E failed \in BOOLEAN :
        Writeback(dirty, failed) /\ result = (pending \/ failed) /\ pending' = FALSE

\* Nobody has the file open and nothing is dirty: the inode may be evicted from
\* the cache, and the recorded error with it.
EvictInode ==
    /\ pc = "open" /\ dirty = {} /\ pending
    /\ pending' = FALSE /\ dropped' = TRUE
    /\ UNCHANGED <<mode, kernel, pc, pos, last_offset, second_try, write_err, fsync_err, verdict, dirty, disk>>

-----------------------------------------------------------------------------
(* main()                                                                  *)

AfterWrite == IF mode = "reopen" THEN "reopen" ELSE "fsync1"

\* lseek() and write().  write() may fail with EIO, and fails with ENOSPC when
\* the file system is full; a failed write() leaves the file and its offset alone.
\* The new data replaces what the disk holds for the block.
Write ==
    /\ pc = "write"
    /\ last_offset' = pos
    /\ write_err' \in {TRUE, pos = N}
    /\ fsync_err' = FALSE /\ verdict' = "none"
    /\ pos' = IF write_err' THEN pos ELSE pos + 1
    /\ dirty' = IF write_err' THEN dirty ELSE dirty \cup {pos}
    /\ disk' = IF write_err' THEN disk ELSE disk \ {pos}
    /\ pc' = AfterWrite
    /\ UNCHANGED <<mode, kernel, second_try, dropped, pending>>

\* A short write, or any other error of lseek(), write(), open() or the first
\* fsync(), ends the program.
Exits ==
    /\ pc \in {"write", "reopen", "open", "rewind"} \/ (pc = "fsync1" /\ ~ write_err)
    /\ pc' = "exit"
    /\ UNCHANGED <<mode, kernel, local, kern>>

\* reopen_fd(): close().  Some file systems write back and report errors here.
\* The failure is printed ("Treating error on close() same as write() error") and
\* otherwise ignored.
Close ==
    /\ pc = "reopen"
    /\ pc' = "sync"
    /\ \/ UNCHANGED <<dropped, kern>>
       \/ Fsync(TRUE) /\ dropped' = TRUE
    /\ UNCHANGED <<mode, kernel, pos, last_offset, second_try, write_err, fsync_err, verdict>>

\* sync(), while the file is closed.
Sync ==
    /\ pc = "sync"
    /\ pc' = "open"
    /\ \E failed \in BOOLEAN : Writeback(dirty, failed) /\ pending' = (pending \/ failed)
    /\ UNCHANGED <<mode, kernel, local>>

\* open() and lseek() back to the saved position.
Open ==
    /\ pc = "open"
    /\ pc' = "fsync1"
    /\ pending' = (pending /\ kernel = "flag")
    /\ dropped' = (dropped \/ (pending /\ kernel = "sample"))
    /\ UNCHANGED <<mode, kernel, pos, last_offset, second_try, write_err, fsync_err, verdict, dirty, disk>>

\* if (!write_err && fsync(fd)) ...
Fsync1 ==
    /\ pc = "fsync1"
    /\ IF write_err
       THEN pc' = "fsync2" /\ UNCHANGED <<fsync_err, kern>>
       ELSE \E failed \in BOOLEAN :
                /\ Fsync(failed)
                /\ fsync_err' = failed
                /\ pc' = IF failed THEN "fsync2" ELSE "write"
    /\ UNCHANGED <<mode, kernel, pos, last_offset, second_try, write_err, dropped, verdict>>

\* The second fsync() after an error, and what it makes the program print.
Fsync2 ==
    /\ pc = "fsync2"
    /\ \E failed \in BOOLEAN :
        /\ Fsync(failed)
        /\ verdict' = CASE failed -> "GOOD"
                        [] ~failed /\ fsync_err -> "BAD"
                        [] OTHER -> "OK"
    /\ pc' = IF second_try THEN "second" ELSE "rewind"
    /\ UNCHANGED <<mode, kernel, pos, last_offset, second_try, write_err, fsync_err, dropped>>

\* Go around once more, from where the failed write started.
MutRewind ==
    /\ pc = "rewind"
    /\ second_try' = FALSE
    /\ pos' = last_offset
    /\ pc' = "write"
    /\ UNCHANGED <<mode, kernel, last_offset, write_err, fsync_err, dropped, verdict, kern>>
Rewind ==
    /\ pc = "rewind"
    /\ second_try' = TRUE
    /\ pos' = last_offset
    /\ pc' = "write"
    /\ UNCHANGED <<mode, kernel, last_offset, write_err, fsync_err, dropped, verdict, kern>>

\* write_another_file() and exit(1), whatever happens to the other file.
SecondFile ==
    /\ pc = "second"
    /\ pc' = "exit"
    /\ UNCHANGED <<mode, kernel, local, kern>>

Main == Write \/ Exits \/ Close \/ Sync \/ Open \/ Fsync1 \/ Fsync2
            \/ Rewind \/ SecondFile

Next == Main \/ Flusher \/ EvictInode

Spec == Init /\ [][Next]_vars

\* The program runs whenever it can; the kernel's own steps may never come.
FairSpec == Spec /\ WF_vars(Main)

-----------------------------------------------------------------------------
(* Properties.                                                             *)

\* The claim of the file's opening comment: once an error has been reported,
\* the next fsync() returns success, so "GOOD" is never printed.
NeverGood == verdict # "GOOD"

\* "BAD" is no false alarm: fsync() has just reported success, nothing is left
\* to write, and the block it should have made durable is not on the disk.
BadMeansLost ==
    verdict = "BAD" => last_offset \notin disk /\ last_offset \notin dirty /\ ~ pending

\* The program notices every lost block, but for three holes, all of them in
\* reopen_fd(): the error comes from close(), the inode is evicted while the file
\* is closed, or the kernel does not show a new descriptor an old error.  Without
\* these, when it goes on to the next block without a verdict, all the blocks it
\* has written are on the disk.
LossIsNoticed ==
    /\ dropped => mode = "reopen"
    /\ pc = "write" /\ verdict = "none" /\ ~ dropped => \A b \in Blocks : b < pos => b \in disk

\* The program stops: a second error is never retried again.
Terminates == <>(pc = "exit")
=============================================================================

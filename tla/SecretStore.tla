---------------------------- MODULE SecretStore -----------------------------
(***************************************************************************)
(* python/libsecret_abstraction/secret_store.py: store_secret() with the   *)
(* yaml provider, which rewrites the credentials file by way of            *)
(* atomic_overwrite().                                                     *)
(*                                                                         *)
(* Every process stores one secret, under a key of its own.  The file      *)
(* system is external: a directory with two names, the credentials file    *)
(* ("dest") and the temporary file next to it ("tmp"), each naming an      *)
(* inode or nothing.  fsync() of a file makes its data durable, fsync() of *)
(* the directory makes the names durable; until then a crash of the        *)
(* machine may keep or lose each of them.  The temporary file's name is    *)
(* the same for every process.                                             *)
(***************************************************************************)
EXTENDS Integers

CONSTANTS
    Procs,          \* processes; also the keys, and the inodes they create
    Orig,           \* the inode of the credentials file found at the start
    NoFile,         \* what a name refers to when it names nothing
    MaxCrashes      \* bound on crashes of the machine and killed processes

ASSUME SecretAssumption ==
    /\ Orig \notin Procs /\ NoFile \notin Procs \cup {Orig}
    /\ MaxCrashes \in Nat

Inodes == Procs \cup {Orig}
\* A well-formed file is a map with these keys; Orig stands for what it held before.
Keys == Procs \cup {Orig}
Names == {"dest", "tmp"}

VARIABLES
    pc,         \* where each process is
    credmap,    \* the map store() read, before the process adds its key
    dir,        \* what each name refers to
    data,       \* the map in each inode
    empty,      \* inodes that hold nothing: not yet written, or lost in a crash
    ddir,       \* the names as they are on disk
    synced,     \* inodes whose data is on disk
    made,       \* the directory was there, durably, before the first store
    overlap,    \* stores may overlap; otherwise one ends before the next begins
    leftover,   \* a crash, a kill or a failed unlink() left the temporary file
    crashes     \* crashes and kills so far

fixed == <<made, overlap>>
disk == <<dir, data, empty, ddir, synced, fixed, leftover, crashes>>
vars == <<pc, credmap, disk>>

Ended == {"done", "failed", "ioerror", "crashed"}
States == {"start", "exists", "unlink", "create", "stat", "write", "fsync", "fsyncdir", "rename",
           "fsyncdir2", "finally", "cleanup", "abort", "verify"} \cup Ended

TypeOK ==
    /\ pc \in [Procs -> States]
    /\ credmap \in [Procs -> SUBSET Keys]
    /\ dir \in [Names -> Inodes \cup {NoFile}] /\ ddir \in [Names -> Inodes \cup {NoFile}]
    /\ data \in [Inodes -> SUBSET Keys]
    /\ empty \subseteq Inodes /\ synced \subseteq Inodes
    /\ made \in BOOLEAN /\ overlap \in BOOLEAN /\ leftover \in BOOLEAN
    /\ crashes \in 0..MaxCrashes

\* Either the file holds earlier secrets, or nothing was ever stored.
Init ==
    /\ pc = [p \in Procs |-> "start"]
    /\ credmap = [p \in Procs |-> {}]
    /\ made \in BOOLEAN /\ overlap \in BOOLEAN
    /\ dir = [n \in Names |-> IF n = "dest" /\ made THEN Orig ELSE NoFile]
    /\ ddir = dir
    /\ data = [i \in Inodes |-> IF i = Orig THEN {Orig} ELSE {}]
    /\ empty = Procs
    /\ synced = {Orig}
    /\ leftover = FALSE
    /\ crashes = 0

-----------------------------------------------------------------------------

Exists(n) == dir[n] # NoFile
\* lookup() finds key k in the file.
Holds(n, k) == Exists(n) /\ dir[n] \notin empty /\ k \in data[dir[n]]
Goto(p, l) == pc' = [pc EXCEPT ![p] = l]
Running == {p \in Procs : pc[p] \notin Ended \cup {"start"}}

\* store(): read the map, if there is a file; a file without a map in it raises.
Read(p) ==
    /\ pc[p] = "start" /\ (overlap \/ Running = {})
    /\ IF dir["dest"] \in empty
       THEN Goto(p, "failed") /\ UNCHANGED credmap
       ELSE /\ credmap' = [credmap EXCEPT ![p] = IF Exists("dest") THEN data[dir["dest"]] ELSE {}]
            /\ Goto(p, "exists")
    /\ UNCHANGED disk

\* atomic_overwrite(): if os.path.exists(tmppath)
MutCheckTmp(p) ==
    /\ pc[p] = "exists"
    /\ Goto(p, "create")
    /\ UNCHANGED <<credmap, disk>>
CheckTmp(p) ==
    /\ pc[p] = "exists"
    /\ Goto(p, IF Exists("tmp") THEN "unlink" ELSE "create")
    /\ UNCHANGED <<credmap, disk>>

\* os.unlink(tmppath): raises, before the try, if the file is gone by now.
UnlinkStale(p) ==
    /\ pc[p] = "unlink"
    /\ Goto(p, IF Exists("tmp") THEN "create" ELSE "failed")
    /\ dir' = [dir EXCEPT !["tmp"] = NoFile]
    /\ leftover' = FALSE
    /\ UNCHANGED <<credmap, data, empty, ddir, synced, fixed, crashes>>

\* O_CREAT|O_EXCL; an exception from here on runs the finally clause.
CreateTmp(p) ==
    /\ pc[p] = "create"
    /\ IF Exists("tmp")
       THEN Goto(p, "cleanup") /\ UNCHANGED dir
       ELSE Goto(p, "stat") /\ dir' = [dir EXCEPT !["tmp"] = p]
    /\ UNCHANGED <<credmap, data, empty, ddir, synced, fixed, leftover, crashes>>

\* os.stat(tmppath), for the assertion on the mode.
StatTmp(p) ==
    /\ pc[p] = "stat"
    /\ Goto(p, IF Exists("tmp") THEN "write" ELSE "cleanup")
    /\ UNCHANGED <<credmap, disk>>

\* write() and flush() go to the descriptor, whatever its name is now.  The disk
\* has nothing of it yet.
WriteTmp(p) ==
    /\ pc[p] = "write"
    /\ data' = [data EXCEPT ![p] = credmap[p] \cup {p}]
    /\ empty' = empty \ {p} /\ synced' = synced \ {p}
    /\ Goto(p, "fsync")
    /\ UNCHANGED <<credmap, dir, ddir, fixed, leftover, crashes>>

MutFsyncTmp(p) ==
    /\ pc[p] = "fsync"
    /\ Goto(p, "fsyncdir")
    /\ UNCHANGED <<credmap, disk>>
FsyncTmp(p) ==
    /\ pc[p] = "fsync"
    /\ synced' = synced \cup {p}
    /\ Goto(p, "fsyncdir")
    /\ UNCHANGED <<credmap, dir, data, empty, ddir, fixed, leftover, crashes>>

FsyncDir(p) ==
    /\ pc[p] \in {"fsyncdir", "fsyncdir2"}
    /\ ddir' = dir
    /\ Goto(p, IF pc[p] = "fsyncdir" THEN "rename" ELSE "finally")
    /\ UNCHANGED <<credmap, dir, data, empty, synced, fixed, leftover, crashes>>

\* os.rename(): whatever file has the temporary name replaces the credentials.
MutRename(p) ==
    /\ pc[p] = "rename"
    /\ dir' = [dest |-> dir["tmp"], tmp |-> NoFile]
    /\ leftover' = FALSE
    /\ Goto(p, "finally")
    /\ UNCHANGED <<credmap, data, empty, ddir, synced, fixed, crashes>>
Rename(p) ==
    /\ pc[p] = "rename"
    /\ IF Exists("tmp")
       THEN /\ dir' = [dest |-> dir["tmp"], tmp |-> NoFile]
            /\ leftover' = FALSE
            /\ Goto(p, "fsyncdir2")
       ELSE Goto(p, "cleanup") /\ UNCHANGED <<dir, leftover>>
    /\ UNCHANGED <<credmap, data, empty, ddir, synced, fixed, crashes>>

\* A full disk or an I/O error makes any call raise; a write() that fails leaves no
\* whole map in the file.  Before the try and after it this ends the store, and so
\* does a directory or file that others may read: _check_credfile_permissions()
\* refuses it before the file is read, after it is replaced, and in lookup().
IOError(p) ==
    /\ \/ /\ pc[p] \in {"create", "write", "fsync", "fsyncdir", "rename", "fsyncdir2"}
          /\ Goto(p, "abort")
       \/ /\ pc[p] \in {"start", "unlink", "verify"} /\ (pc[p] = "start" => overlap \/ Running = {})
          /\ Goto(p, "ioerror")
    /\ UNCHANGED <<credmap, disk>>

AfterFinally == [finally |-> "verify", cleanup |-> "failed", abort |-> "ioerror"]

\* finally: unlink the temporary name.  An error is ignored: there is no such file,
\* or it cannot be removed and stays.
MutFinally(p) ==
    /\ pc[p] \in {"finally", "cleanup", "abort"}
    /\ Goto(p, AfterFinally[pc[p]])
    /\ UNCHANGED <<credmap, disk>>
Finally(p) ==
    /\ pc[p] \in {"finally", "cleanup", "abort"}
    /\ \/ dir' = [dir EXCEPT !["tmp"] = NoFile] /\ leftover' = FALSE
       \/ Exists("tmp") /\ leftover' = TRUE /\ UNCHANGED dir
    /\ Goto(p, AfterFinally[pc[p]])
    /\ UNCHANGED <<credmap, data, empty, ddir, synced, fixed, crashes>>

\* store_secret() looks the secret up again and raises if it is not there.
\* Processes have keys of their own, so a key that is there has its value.
Verify(p) ==
    /\ pc[p] = "verify"
    /\ Goto(p, IF Holds("dest", p) THEN "done" ELSE "failed")
    /\ UNCHANGED <<credmap, disk>>

\* The machine crashes.  Each name is as it was or as it is on disk; data that
\* was not synced may be gone; a directory made by os.makedirs() was never
\* synced in its parent and may be gone too.
Crash ==
    /\ crashes < MaxCrashes
    /\ crashes' = crashes + 1
    /\ pc' = [p \in Procs |-> IF p \in Running THEN "crashed" ELSE pc[p]]
    /\ \E kept \in SUBSET Names, lost \in SUBSET (Inodes \ synced), gone \in BOOLEAN :
        /\ gone => ~ made
        /\ dir' = [n \in Names |-> IF gone THEN NoFile ELSE IF n \in kept THEN dir[n] ELSE ddir[n]]
        /\ empty' = empty \cup lost
    /\ ddir' = dir'
    /\ synced' = Inodes
    /\ leftover' = (dir'["tmp"] # NoFile)
    /\ UNCHANGED <<credmap, data, fixed>>

\* A process is killed, and its finally clause does not run.
Kill(p) ==
    /\ crashes < MaxCrashes /\ p \in Running
    /\ crashes' = crashes + 1
    /\ Goto(p, "crashed")
    /\ leftover' = Exists("tmp")
    /\ UNCHANGED <<credmap, dir, data, empty, ddir, synced, fixed>>

Step(p) ==
    \/ Read(p) \/ CheckTmp(p) \/ UnlinkStale(p) \/ CreateTmp(p) \/ StatTmp(p) \/ WriteTmp(p)
    \/ FsyncTmp(p) \/ FsyncDir(p) \/ Rename(p) \/ IOError(p) \/ Finally(p) \/ Verify(p)

Next == (\E p \in Procs : Step(p) \/ Kill(p)) \/ Crash

Spec == Init /\ [][Next]_vars

-----------------------------------------------------------------------------
(* Properties.                                                             *)

\* atomic_overwrite()'s promise, for stores that do not overlap: at no moment,
\* whatever a crash keeps, is the credentials file there without a map in it, or
\* is what it held before lost.
OriginalsSurvive ==
    ~ overlap => dir["dest"] \notin empty /\ (made => Holds("dest", Orig))

\* A store that has returned is durable: every file the directory may name after
\* a crash has the secret in it.  (Not for a directory os.makedirs() has made.)
DoneIsDurable ==
    \A p \in Procs : pc[p] = "done" /\ made /\ ~ overlap =>
        \A i \in {dir["dest"], ddir["dest"]} : i \in synced \ empty /\ p \in data[i]

\* But for an I/O error of its own, a store fails only because of another one that
\* overlaps: what a crashed or failed process left behind never makes the next one
\* raise.
NoSpuriousFailure == ~ overlap => \A p \in Procs : pc[p] # "failed"

\* Processes that overlap clean up after each other, and a store removes what an
\* earlier one left: once no store is running, a temporary file with secrets in it
\* is there only because a crash, a kill or an unlink() that failed in the finally
\* clause left it, and no store has got as far as removing or renaming it since.
NoTmpLeftBehind == Running = {} /\ ~ leftover => ~ Exists("tmp")

\* What the comment on atomic_overwrite() says and it does not do when stores
\* overlap: the original contents are never lost.
OverwriteIsAtomic == made => Holds("dest", Orig)
=============================================================================

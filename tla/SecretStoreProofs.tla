------------------------- MODULE SecretStoreProofs --------------------------
(***************************************************************************)
(* Proofs about SecretStore, for any number of processes and crashes.      *)
(***************************************************************************)
EXTENDS SecretStore, TLAPS

Active(p) == pc[p] \notin Ended \cup {"start"}

\* Where a process is: it owns the temporary file; it has not renamed it; it has
\* read the map and not renamed; a finally clause is still ahead.
Owns == {"stat", "write", "fsync", "fsyncdir", "rename"}
HasMap == {"exists", "unlink", "create"} \cup Owns
InTry == Owns \cup {"fsyncdir2", "finally", "cleanup", "abort"}

\* Stores that do not overlap run one at a time.
Single == \A p, q \in Procs : Active(p) /\ Active(q) => p = q

\* The secrets that must not be lost are in the map m.
Complete(m) == made => Orig \in m /\ \A q \in Procs : pc[q] = "done" => q \in m

\* A file that the name of the credentials may refer to after a crash.
Safe(i) ==
    \/ i = NoFile /\ ~ made
    \/ i \in Inodes /\ i \in synced /\ i \notin empty /\ Complete(data[i])

\* How far a process is with its new file.
Stage(p) ==
    /\ pc[p] \in {"start"} \cup HasMap => p # dir["dest"] /\ p # ddir["dest"]
    /\ pc[p] \in HasMap => Complete(credmap[p])
    /\ pc[p] = "unlink" => dir["tmp"] # NoFile
    /\ pc[p] = "create" => dir["tmp"] = NoFile
    /\ pc[p] \in Owns => dir["tmp"] = p
    /\ pc[p] \in {"fsync", "fsyncdir", "rename"} => p \notin empty /\ data[p] = credmap[p] \cup {p}
    /\ pc[p] \in {"fsyncdir", "rename"} => p \in synced
    /\ pc[p] = "fsyncdir2" => dir["dest"] = p /\ p \in data[p]
    /\ pc[p] \in {"finally", "verify"} => dir["dest"] = p /\ ddir["dest"] = p /\ p \in data[p]
    /\ pc[p] \notin {"cleanup", "failed"}

\* Stores that do not overlap.
OneByOne ==
    ~ overlap => Single /\ Safe(dir["dest"]) /\ Safe(ddir["dest"]) /\ \A p \in Procs : Stage(p)

\* Whoever has made a temporary file still has its finally clause to run, unless
\* the file was left behind.
TmpIsOwned == ~ leftover /\ dir["tmp"] # NoFile => \E p \in Procs : pc[p] \in InTry

IInv == TypeOK /\ OneByOne /\ TmpIsOwned

-----------------------------------------------------------------------------
\* The inodes and the mark for no file are different.
LEMMA Distinct ==
    /\ NoFile \notin Inodes /\ Orig \in Inodes /\ Procs \subseteq Inodes
    /\ \A p \in Procs : p # NoFile /\ p # Orig
    /\ Inodes = Keys /\ "dest" \in Names /\ "tmp" \in Names
BY SecretAssumption DEF Inodes, Keys, Names

\* The invariant holds at the start.
LEMMA InitIInv == Init => IInv
<1> SUFFICES ASSUME Init PROVE IInv
  OBVIOUS
<1>1. TypeOK
  <2>1. /\ dir \in [Names -> Inodes \cup {NoFile}] /\ ddir \in [Names -> Inodes \cup {NoFile}]
        /\ data \in [Inodes -> SUBSET Keys] /\ empty \subseteq Inodes /\ synced \subseteq Inodes
    BY Distinct DEF Init, Inodes, Keys
  <2>2. pc \in [Procs -> States] /\ credmap \in [Procs -> SUBSET Keys]
    BY DEF Init, States
  <2>3. made \in BOOLEAN /\ overlap \in BOOLEAN /\ leftover \in BOOLEAN
    BY Zenon DEF Init
  <2>4. crashes \in 0..MaxCrashes
    BY SecretAssumption DEF Init
  <2> QED
    BY <2>1, <2>2, <2>3, <2>4, Zenon DEF TypeOK
<1>2. OneByOne
  BY Distinct DEF Init, OneByOne, Single, Active, Safe, Complete, Stage, Owns, HasMap, Inodes
<1>3. TmpIsOwned
  BY Distinct DEF Init, TmpIsOwned
<1> QED
  BY <1>1, <1>2, <1>3 DEF IInv

\* What every step of a process does to pc.
LEMMA StepMoves ==
    ASSUME TypeOK, NEW p \in Procs, Step(p)
    PROVE  /\ \E l \in States : pc' = [pc EXCEPT ![p] = l]
           /\ pc[p] \notin Ended
           /\ UNCHANGED <<made, overlap, crashes>>
<1>1. pc[p] \in {"finally", "cleanup", "abort"} => AfterFinally[pc[p]] \in States
  BY DEF AfterFinally, States, Ended
<1>2. UNCHANGED <<made, overlap, crashes>> /\ pc[p] \notin Ended
  BY DEF Step, Read, CheckTmp, UnlinkStale, CreateTmp, StatTmp, WriteTmp, FsyncTmp, FsyncDir,
         Rename, IOError, Finally, Verify, disk, fixed, Ended
<1>3. \E l \in States : pc' = [pc EXCEPT ![p] = l]
  <2>1. CASE Finally(p)
    BY <1>1, <2>1 DEF Finally, Goto
  <2>2. CASE ~ Finally(p)
    <3>1. \E l : pc' = [pc EXCEPT ![p] = l] /\ l \in {"failed", "exists", "unlink", "create", "stat",
              "cleanup", "write", "fsync", "fsyncdir", "rename", "finally", "fsyncdir2", "abort", "ioerror", "done"}
      BY <2>2 DEF Step, Read, CheckTmp, UnlinkStale, CreateTmp, StatTmp, WriteTmp, FsyncTmp, FsyncDir,
                  Rename, IOError, Verify, Goto
    <3> QED
      BY <3>1 DEF States, Ended
  <2> QED
    BY <2>1, <2>2
<1> QED
  BY <1>2, <1>3

\* Every step of a process keeps the types.
LEMMA StepType == ASSUME TypeOK, NEW p \in Procs, Step(p) PROVE TypeOK'
<1>1. pc' \in [Procs -> States] /\ UNCHANGED <<made, overlap, crashes>>
  BY StepMoves DEF TypeOK
<1>2. credmap' \in [Procs -> SUBSET Keys] /\ data' \in [Inodes -> SUBSET Keys]
  <2>1. CASE Read(p)
    BY <2>1, Distinct DEF Read, Exists, disk, TypeOK
  <2>2. CASE WriteTmp(p)
    BY <2>2, Distinct DEF WriteTmp, TypeOK
  <2>3. CASE ~ Read(p) /\ ~ WriteTmp(p)
    BY <2>3 DEF Step, CheckTmp, UnlinkStale, CreateTmp, StatTmp, FsyncTmp, FsyncDir, Rename, IOError,
                Finally, Verify, disk, TypeOK
  <2> QED
    BY <2>1, <2>2, <2>3
<1>3. /\ dir' \in [Names -> Inodes \cup {NoFile}] /\ ddir' \in [Names -> Inodes \cup {NoFile}]
      /\ empty' \subseteq Inodes /\ synced' \subseteq Inodes
  <2>1. CASE Read(p) \/ CheckTmp(p) \/ StatTmp(p) \/ IOError(p) \/ Verify(p)
    BY <2>1 DEF Read, CheckTmp, StatTmp, IOError, Verify, disk, TypeOK
  <2>2. CASE UnlinkStale(p) \/ CreateTmp(p) \/ Finally(p)
    BY <2>2, Distinct DEF UnlinkStale, CreateTmp, Finally, TypeOK
  <2>3. CASE WriteTmp(p) \/ FsyncTmp(p) \/ FsyncDir(p)
    BY <2>3, Distinct DEF WriteTmp, FsyncTmp, FsyncDir, TypeOK
  <2>4. CASE Rename(p)
    <3>1. dir["tmp"] \in Inodes \cup {NoFile}
      BY Distinct DEF TypeOK
    <3> QED
      BY <2>4, <3>1 DEF Rename, Names, TypeOK
  <2> QED
    BY <2>1, <2>2, <2>3, <2>4 DEF Step
<1>4. leftover' \in BOOLEAN
  BY DEF Step, Read, CheckTmp, UnlinkStale, CreateTmp, StatTmp, WriteTmp, FsyncTmp, FsyncDir, Rename, IOError,
         Finally, Verify, disk, TypeOK
<1> QED
  BY <1>1, <1>2, <1>3, <1>4 DEF TypeOK

\* While one store runs all others have ended or have not begun.
LEMMA Others ==
    ASSUME IInv, ~ overlap, NEW p \in Procs, Step(p), NEW q \in Procs, q # p
    PROVE  /\ pc[q] \in Ended \cup {"start"} /\ pc'[q] = pc[q]
           /\ pc[q] = "start" => q # dir["dest"] /\ q # ddir["dest"]
           /\ pc[q] # "failed"
<1>1. pc'[q] = pc[q] /\ pc[p] \notin Ended
  BY StepMoves DEF IInv, TypeOK
<1>2. Stage(q) /\ Single
  BY DEF IInv, OneByOne
<1>3. pc[q] \in Ended \cup {"start"}
  <2>1. CASE pc[p] = "start"
    BY <2>1 DEF Step, Read, CheckTmp, UnlinkStale, CreateTmp, StatTmp, WriteTmp, FsyncTmp, FsyncDir,
                Rename, IOError, Finally, Verify, Running
  <2>2. CASE pc[p] # "start"
    BY <1>1, <1>2, <2>2 DEF Single, Active
  <2> QED
    BY <2>1, <2>2
<1> QED
  BY <1>1, <1>2, <1>3 DEF Stage

\* A step keeps what is said of stores that do not overlap, if it does so for its
\* own process and gives the credentials no other file than its own.
LEMMA Assemble ==
    ASSUME IInv, TypeOK', ~ overlap, NEW p \in Procs, Step(p),
           dir'["dest"] \in {dir["dest"], ddir["dest"], p},
           ddir'["dest"] \in {dir["dest"], ddir["dest"], p},
           Safe(dir["dest"])', Safe(ddir["dest"])', Stage(p)'
    PROVE  OneByOne'
<1>1. ASSUME NEW q \in Procs, q # p PROVE Stage(q)' /\ ~ Active(q)'
  <2>1. /\ pc'[q] \in Ended \cup {"start"} /\ pc'[q] # "failed"
        /\ pc'[q] = "start" => q # dir'["dest"] /\ q # ddir'["dest"]
    BY <1>1, Others
  <2> QED
    BY <2>1 DEF Stage, Active, Owns, HasMap, Ended
<1>2. Single'
  BY <1>1 DEF Single
<1> QED
  BY <1>1, <1>2 DEF OneByOne

-----------------------------------------------------------------------------
\* The steps of a store that does not overlap.  First those that leave the files'
\* data alone, and the name of the credentials file.
LEMMA QuietStep ==
    ASSUME IInv, TypeOK', ~ overlap, NEW p \in Procs, Step(p),
           CheckTmp(p) \/ StatTmp(p) \/ IOError(p) \/ UnlinkStale(p) \/ CreateTmp(p) \/ Finally(p)
    PROVE  OneByOne'
<1>1. Stage(p) /\ Safe(dir["dest"]) /\ Safe(ddir["dest"])
  BY DEF IInv, OneByOne
<1>2. /\ UNCHANGED <<data, empty, ddir, synced, made, credmap>>
      /\ dir'["dest"] = dir["dest"] /\ pc' = [pc EXCEPT ![p] = pc'[p]]
  BY StepMoves, Distinct
  DEF CheckTmp, StatTmp, IOError, UnlinkStale, CreateTmp, Finally, disk, fixed, IInv, TypeOK
<1>3. pc'[p] \notin {"done", "failed", "cleanup"}
  <2>1. pc[p] # "cleanup"
    BY <1>1 DEF Stage
  <2>2. CASE Finally(p)
    BY <2>1, <2>2 DEF Finally, Goto, AfterFinally, IInv, TypeOK
  <2>3. CASE CheckTmp(p) \/ StatTmp(p) \/ IOError(p) \/ UnlinkStale(p) \/ CreateTmp(p)
    BY <1>1, <2>3, Distinct
    DEF CheckTmp, StatTmp, IOError, UnlinkStale, CreateTmp, Goto, Exists, Stage, Owns, IInv, TypeOK
  <2> QED
    BY <2>2, <2>3
<1>4. Safe(dir["dest"])' /\ Safe(ddir["dest"])'
  BY <1>1, <1>2, <1>3 DEF Safe, Complete, IInv, TypeOK
<1>5. Stage(p)'
  <2>1. CASE CheckTmp(p)
    BY <1>1, <1>2, <2>1, Distinct DEF CheckTmp, Goto, Exists, Stage, Complete, Owns, HasMap, IInv, TypeOK, disk
  <2>2. CASE StatTmp(p)
    BY <1>1, <1>2, <2>2, Distinct DEF StatTmp, Goto, Exists, Stage, Complete, Owns, HasMap, IInv, TypeOK, disk
  <2>3. CASE IOError(p)
    BY <1>1, <1>2, <2>3, Distinct DEF IOError, Goto, Stage, Owns, HasMap, IInv, TypeOK
  <2>4. CASE UnlinkStale(p)
    BY <1>1, <1>2, <2>4, Distinct DEF UnlinkStale, Goto, Exists, Stage, Complete, Owns, HasMap, IInv, TypeOK
  <2>5. CASE CreateTmp(p)
    BY <1>1, <1>2, <2>5, Distinct DEF CreateTmp, Goto, Exists, Stage, Complete, Owns, HasMap, IInv, TypeOK
  <2>6. CASE Finally(p)
    BY <1>1, <1>2, <1>3, <2>6, Distinct DEF Finally, Goto, AfterFinally, Stage, Owns, HasMap, IInv, TypeOK
  <2> QED
    BY <2>1, <2>2, <2>3, <2>4, <2>5, <2>6
<1> QED
  BY <1>2, <1>4, <1>5, Assemble

\* store() reads the map.
LEMMA ReadStep ==
    ASSUME IInv, TypeOK', ~ overlap, NEW p \in Procs, Step(p), Read(p)
    PROVE  OneByOne'
<1>1. Stage(p) /\ Safe(dir["dest"]) /\ Safe(ddir["dest"])
  BY DEF IInv, OneByOne
<1>2. dir["dest"] \notin empty
  BY <1>1, Distinct DEF Safe, IInv, TypeOK
<1>3. /\ UNCHANGED <<dir, data, empty, ddir, synced, made>>
      /\ pc' = [pc EXCEPT ![p] = "exists"] /\ pc[p] = "start"
      /\ credmap' = [credmap EXCEPT ![p] = IF Exists("dest") THEN data[dir["dest"]] ELSE {}]
  BY <1>2 DEF Read, Goto, disk, fixed
<1>4. Safe(dir["dest"])' /\ Safe(ddir["dest"])'
  BY <1>1, <1>3 DEF Safe, Complete, IInv, TypeOK
<1>5. Complete(credmap[p])'
  BY <1>1, <1>3, Distinct DEF Safe, Complete, Exists, IInv, TypeOK
<1>6. Stage(p)'
  BY <1>1, <1>3, <1>5 DEF Stage, Owns, HasMap, IInv, TypeOK
<1> QED
  BY <1>3, <1>4, <1>6, Assemble

\* The new map is written, and synced.
LEMMA WriteStep ==
    ASSUME IInv, TypeOK', ~ overlap, NEW p \in Procs, Step(p), WriteTmp(p) \/ FsyncTmp(p)
    PROVE  OneByOne'
<1>1. Stage(p) /\ Safe(dir["dest"]) /\ Safe(ddir["dest"])
  BY DEF IInv, OneByOne
<1>2. p # dir["dest"] /\ p # ddir["dest"] /\ pc[p] \in {"write", "fsync"}
  BY <1>1 DEF Stage, HasMap, Owns, WriteTmp, FsyncTmp
<1>3. UNCHANGED <<dir, ddir, credmap, made>>
  BY DEF WriteTmp, FsyncTmp, fixed
<1>4. CASE WriteTmp(p)
  <2>1. /\ data' = [data EXCEPT ![p] = credmap[p] \cup {p}] /\ pc' = [pc EXCEPT ![p] = "fsync"]
        /\ empty' = empty \ {p} /\ synced' = synced \ {p} /\ pc[p] = "write"
    BY <1>4 DEF WriteTmp, Goto
  <2>2. Safe(dir["dest"])' /\ Safe(ddir["dest"])'
    BY <1>1, <1>2, <1>3, <2>1 DEF Safe, Complete, IInv, TypeOK
  <2>3. Stage(p)'
    BY <1>1, <1>2, <1>3, <2>1, Distinct DEF Stage, Complete, Owns, HasMap, IInv, TypeOK
  <2> QED
    BY <1>3, <2>2, <2>3, Assemble
<1>5. CASE FsyncTmp(p)
  <2>1. /\ UNCHANGED <<data, empty>> /\ pc' = [pc EXCEPT ![p] = "fsyncdir"]
        /\ synced' = synced \cup {p} /\ pc[p] = "fsync"
    BY <1>5 DEF FsyncTmp, Goto
  <2>2. Safe(dir["dest"])' /\ Safe(ddir["dest"])'
    BY <1>1, <1>3, <2>1 DEF Safe, Complete, IInv, TypeOK
  <2>3. Stage(p)'
    BY <1>1, <1>3, <2>1 DEF Stage, Complete, Owns, HasMap, IInv, TypeOK
  <2> QED
    BY <1>3, <2>2, <2>3, Assemble
<1> QED
  BY <1>4, <1>5

\* The names are synced, before and after the rename.
LEMMA FsyncDirStep ==
    ASSUME IInv, TypeOK', ~ overlap, NEW p \in Procs, Step(p), FsyncDir(p)
    PROVE  OneByOne'
<1>1. Stage(p) /\ Safe(dir["dest"])
  BY DEF IInv, OneByOne
<1>2. UNCHANGED <<dir, data, empty, synced, credmap, made>> /\ ddir' = dir
  BY DEF FsyncDir, fixed
<1>3. \/ pc[p] = "fsyncdir" /\ pc' = [pc EXCEPT ![p] = "rename"]
      \/ pc[p] = "fsyncdir2" /\ pc' = [pc EXCEPT ![p] = "finally"]
  BY DEF FsyncDir, Goto
<1>4. Safe(dir["dest"])' /\ Safe(ddir["dest"])'
  BY <1>1, <1>2, <1>3 DEF Safe, Complete, IInv, TypeOK
<1>5. Stage(p)'
  BY <1>1, <1>2, <1>3 DEF Stage, Complete, Owns, HasMap, IInv, TypeOK
<1> QED
  BY <1>2, <1>4, <1>5, Assemble

\* The new file, whole and on disk, becomes the credentials file.
LEMMA RenameStep ==
    ASSUME IInv, TypeOK', ~ overlap, NEW p \in Procs, Step(p), Rename(p)
    PROVE  OneByOne'
<1>1. Stage(p) /\ Safe(ddir["dest"]) /\ pc[p] = "rename" /\ dir["tmp"] = p
  BY DEF IInv, OneByOne, Rename, Stage, Owns
<1>2. /\ UNCHANGED <<ddir, data, empty, synced, credmap, made>>
      /\ dir'["dest"] = p /\ dir'["tmp"] = NoFile /\ pc' = [pc EXCEPT ![p] = "fsyncdir2"]
  BY <1>1, Distinct DEF Rename, Exists, Goto, fixed
<1>3. p \in Inodes /\ p \in synced /\ p \notin empty /\ data[p] = credmap[p] \cup {p} /\ Complete(credmap[p])
  BY <1>1, Distinct DEF Stage, Owns, HasMap
<1>4. Safe(dir["dest"])' /\ Safe(ddir["dest"])'
  BY <1>1, <1>2, <1>3 DEF Safe, Complete, IInv, TypeOK
<1>5. Stage(p)'
  BY <1>2, <1>3 DEF Stage, Owns, HasMap, IInv, TypeOK
<1> QED
  BY <1>2, <1>4, <1>5, Assemble

\* store_secret() finds what it has stored.
LEMMA VerifyStep ==
    ASSUME IInv, TypeOK', ~ overlap, NEW p \in Procs, Step(p), Verify(p)
    PROVE  OneByOne'
<1>1. /\ Safe(dir["dest"]) /\ Safe(ddir["dest"])
      /\ pc[p] = "verify" /\ dir["dest"] = p /\ ddir["dest"] = p /\ p \in data[p]
  BY DEF IInv, OneByOne, Verify, Stage
<1>2. Holds("dest", p)
  BY <1>1, Distinct DEF Holds, Exists, Safe
<1>3. UNCHANGED <<dir, ddir, data, empty, synced, credmap, made>> /\ pc' = [pc EXCEPT ![p] = "done"]
  BY <1>2 DEF Verify, Goto, disk, fixed
<1>4. Safe(dir["dest"])' /\ Safe(ddir["dest"])'
  BY <1>1, <1>3 DEF Safe, Complete, IInv, TypeOK
<1>5. Stage(p)'
  BY <1>3 DEF Stage, Owns, HasMap, IInv, TypeOK
<1> QED
  BY <1>3, <1>4, <1>5, Assemble

\* A process that is killed leaves the files as they are.
LEMMA KillStep == ASSUME IInv, NEW p \in Procs, Kill(p) PROVE IInv'
<1>1. /\ pc' = [pc EXCEPT ![p] = "crashed"] /\ crashes' = crashes + 1 /\ crashes < MaxCrashes
      /\ leftover' = Exists("tmp") /\ pc[p] \notin Ended \cup {"start"}
      /\ UNCHANGED <<credmap, dir, data, empty, ddir, synced, made, overlap>>
  BY DEF Kill, Goto, fixed, Running
<1>2. TypeOK'
  BY <1>1, SecretAssumption DEF IInv, TypeOK, States, Ended, Exists
<1>3. \A q \in Procs : pc'[q] = IF q = p THEN "crashed" ELSE pc[q]
  BY <1>1 DEF IInv, TypeOK
<1>4. ASSUME ~ overlap PROVE OneByOne'
  <2>1. Single /\ Safe(dir["dest"]) /\ Safe(ddir["dest"]) /\ \A q \in Procs : Stage(q)
    BY <1>4 DEF IInv, OneByOne
  <2>2. Safe(dir["dest"])' /\ Safe(ddir["dest"])'
    BY <1>1, <1>3, <2>1, Distinct DEF Safe, Complete, IInv, TypeOK
  <2>3. ASSUME NEW q \in Procs PROVE Stage(q)'
    <3>1. CASE q = p
      BY <1>3, <3>1 DEF Stage, Owns, HasMap
    <3>2. CASE q # p
      <4>1. ~ Active(q)
        BY <1>1, <2>1, <3>2 DEF Single, Active
      <4>2. pc[q] \in {"start", "done", "failed", "ioerror", "crashed"}
        BY <4>1 DEF Active, Ended
      <4> QED
        BY <1>1, <1>3, <2>1, <3>2, <4>2 DEF Stage, Owns, HasMap
    <3> QED
      BY <3>1, <3>2
  <2>4. Single'
    BY <1>3, <2>1 DEF Single, Active, Ended
  <2> QED
    BY <2>2, <2>3, <2>4 DEF OneByOne
<1>5. OneByOne'
  BY <1>1, <1>4 DEF OneByOne
<1>6. TmpIsOwned'
  BY <1>1 DEF TmpIsOwned, Exists
<1> QED
  BY <1>2, <1>5, <1>6 DEF IInv

\* A crash of the machine keeps everything but the temporary file's owner.
LEMMA CrashStep == ASSUME IInv, Crash PROVE IInv'
<1>1. PICK kept \in SUBSET Names, lost \in SUBSET (Inodes \ synced), gone \in BOOLEAN :
        /\ gone => ~ made
        /\ dir' = [n \in Names |-> IF gone THEN NoFile ELSE IF n \in kept THEN dir[n] ELSE ddir[n]]
        /\ empty' = empty \cup lost
  BY DEF Crash
<1>2. /\ pc' = [p \in Procs |-> IF p \in Running THEN "crashed" ELSE pc[p]]
      /\ ddir' = dir' /\ synced' = Inodes
      /\ leftover' = (dir'["tmp"] # NoFile)
      /\ UNCHANGED <<credmap, data, made, overlap>> /\ crashes' = crashes + 1 /\ crashes < MaxCrashes
  BY DEF Crash, fixed
<1>3. TypeOK'
  BY <1>1, <1>2, SecretAssumption DEF IInv, TypeOK, States, Ended
<1>4. \A p \in Procs : /\ pc'[p] \in Ended \cup {"start"}
                       /\ pc'[p] = "start" => pc[p] = "start"
                       /\ (pc'[p] = "done") = (pc[p] = "done")
                       /\ pc'[p] = "failed" => pc[p] = "failed"
  BY <1>2 DEF Running, Ended
<1>5. ASSUME ~ overlap PROVE OneByOne'
  <2>1. Safe(dir["dest"]) /\ Safe(ddir["dest"]) /\ \A p \in Procs : Stage(p)
    BY <1>5 DEF IInv, OneByOne
  <2>2. /\ dir'["dest"] \in {dir["dest"], ddir["dest"], NoFile}
        /\ dir'["dest"] = NoFile => ~ made
    BY <1>1, <2>1, Distinct DEF Safe
  <2>3. Safe(dir["dest"])'
    <3>1. CASE dir'["dest"] = NoFile
      BY <1>2, <2>2, <3>1 DEF Safe
    <3>2. CASE dir'["dest"] # NoFile
      <4>1. PICK i \in {dir["dest"], ddir["dest"]} : dir'["dest"] = i
        BY <2>2, <3>2
      <4>2. i \in Inodes /\ i \in synced /\ i \notin empty /\ Complete(data[i])
        BY <2>1, <3>2, <4>1 DEF Safe
      <4>3. i \in synced' /\ i \notin empty'
        BY <1>1, <1>2, <4>2
      <4>4. (Complete(data[dir["dest"]]))'
        BY <1>2, <1>4, <4>1, <4>2 DEF Complete
      <4> QED
        BY <4>1, <4>2, <4>3, <4>4 DEF Safe
    <3> QED
      BY <3>1, <3>2
  <2>4. \A p \in Procs : Stage(p)'
    BY <1>2, <1>4, <2>1, <2>2, Distinct DEF Stage, Owns, HasMap, Ended
  <2>5. Single'
    BY <1>4 DEF Single, Active
  <2> QED
    BY <1>2, <2>3, <2>4, <2>5 DEF OneByOne, Safe
<1>6. OneByOne'
  BY <1>2, <1>5 DEF OneByOne
<1>7. TmpIsOwned'
  BY <1>2 DEF TmpIsOwned, IInv, TypeOK
<1> QED
  BY <1>3, <1>6, <1>7 DEF IInv

\* A step of a process leaves its finally clause ahead of it, or the temporary
\* name free.
LEMMA TmpStep == ASSUME IInv, NEW p \in Procs, Step(p) PROVE TmpIsOwned'
<1> SUFFICES ASSUME ~ leftover', dir'["tmp"] # NoFile PROVE \E q \in Procs : pc'[q] \in InTry
  BY DEF TmpIsOwned
<1>1. PICK l \in States : pc' = [pc EXCEPT ![p] = l]
  BY StepMoves DEF IInv
<1>5. dir["tmp"] # NoFile => leftover' = leftover
  BY Distinct DEF Step, Read, CheckTmp, UnlinkStale, CreateTmp, StatTmp, WriteTmp, FsyncTmp, FsyncDir, Rename,
       IOError, Finally, Verify, disk, Exists, IInv, TypeOK
<1>2. \A q \in Procs : pc'[q] = IF q = p THEN l ELSE pc[q]
  BY <1>1 DEF IInv, TypeOK
<1>3. CASE dir["tmp"] = NoFile
  <2>1. CreateTmp(p)
    BY <1>3, Distinct DEF Step, Read, CheckTmp, UnlinkStale, StatTmp, WriteTmp, FsyncTmp, FsyncDir, Rename,
       IOError, Finally, Verify, disk, IInv, TypeOK
  <2>2. pc'[p] \in {"stat", "cleanup"}
    BY <1>2, <2>1 DEF CreateTmp, Goto, IInv, TypeOK
  <2> QED
    BY <2>2 DEF InTry, Owns
<1>4. CASE dir["tmp"] # NoFile
  <2>1. PICK q \in Procs : pc[q] \in InTry
    BY <1>4, <1>5 DEF IInv, TmpIsOwned
  <2>2. CASE q # p
    BY <1>2, <2>1, <2>2
  <2>3. CASE q = p
    <3>1. ~ Finally(p)
      BY Distinct DEF Finally, IInv, TypeOK
    <3>2. StatTmp(p) \/ WriteTmp(p) \/ FsyncTmp(p) \/ FsyncDir(p) \/ Rename(p)
            \/ (IOError(p) /\ pc[p] \notin {"start", "unlink", "verify"})
      BY <2>1, <2>3, <3>1
      DEF Step, Read, CheckTmp, UnlinkStale, CreateTmp, Verify, InTry, Owns
    <3>3. pc'[p] \in InTry
      BY <1>2, <3>2
      DEF StatTmp, WriteTmp, FsyncTmp, FsyncDir, Rename, IOError, Goto, InTry, Owns, IInv, TypeOK
    <3> QED
      BY <3>3
  <2> QED
    BY <2>2, <2>3
<1> QED
  BY <1>3, <1>4

\* IInv is an invariant.
LEMMA SpecIInv == Spec => []IInv
<1>1. ASSUME IInv, NEW p \in Procs, Step(p) PROVE IInv'
  <2>1. TypeOK' /\ overlap' = overlap
    BY <1>1, StepType, StepMoves DEF IInv
  <2>2. ~ overlap => OneByOne'
    BY <1>1, <2>1, QuietStep, ReadStep, WriteStep, FsyncDirStep, RenameStep, VerifyStep DEF Step
  <2>3. OneByOne'
    BY <2>1, <2>2 DEF OneByOne
  <2> QED
    BY <1>1, <2>1, <2>3, TmpStep DEF IInv
<1>2. ASSUME IInv, UNCHANGED vars PROVE IInv'
  <2>1. UNCHANGED <<pc, credmap, dir, data, empty, ddir, synced, made, overlap, leftover, crashes>>
    BY <1>2 DEF vars, disk, fixed
  <2>2. TypeOK' /\ TmpIsOwned'
    BY <1>2, <2>1 DEF IInv, TypeOK, TmpIsOwned
  <2>3. OneByOne'
    BY <1>2, <2>1 DEF IInv, OneByOne, Single, Active, Safe, Stage, Complete
  <2> QED
    BY <2>2, <2>3 DEF IInv
<1>3. IInv /\ [Next]_vars => IInv'
  BY <1>1, <1>2, CrashStep, KillStep DEF Next
<1> QED
  BY <1>3, InitIInv, PTL DEF Spec

-----------------------------------------------------------------------------
\* The types are kept, for any processes and crashes.
THEOREM TypeCorrect == Spec => []TypeOK
BY SpecIInv, PTL DEF IInv

\* atomic_overwrite() keeps its promise for stores that do not overlap, whatever
\* their number and wherever crashes and I/O errors strike: the file is never
\* there without a map, and what it held at the start is never lost.
THEOREM OriginalsAreSafe == Spec => []OriginalsSurvive
<1>1. IInv => OriginalsSurvive
  BY Distinct DEF IInv, OneByOne, TypeOK, Safe, Complete, OriginalsSurvive, Holds, Exists
<1> QED
  BY <1>1, SpecIInv, PTL

\* A store that has returned is durable: no later crash undoes it.
THEOREM StoresAreDurable == Spec => []DoneIsDurable
<1>1. IInv => DoneIsDurable
  BY DEF IInv, OneByOne, Safe, Complete, DoneIsDurable
<1> QED
  BY <1>1, SpecIInv, PTL

\* What a crashed or failed store has left behind never makes a later one raise.
THEOREM LeftoversAreHarmless == Spec => []NoSpuriousFailure
<1>1. IInv => NoSpuriousFailure
  BY DEF IInv, OneByOne, Stage, NoSpuriousFailure
<1> QED
  BY <1>1, SpecIInv, PTL

\* However stores overlap, the last one to leave leaves no temporary file, but for
\* one that a crash, a kill or a failed unlink() has left since a store last removed
\* or renamed it.
THEOREM TmpIsRemoved == Spec => []NoTmpLeftBehind
<1>1. IInv => NoTmpLeftBehind
  BY DEF IInv, TmpIsOwned, NoTmpLeftBehind, Exists, Running, InTry, Owns, Ended
<1> QED
  BY <1>1, SpecIInv, PTL

=============================================================================

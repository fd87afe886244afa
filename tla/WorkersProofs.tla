--------------------------- MODULE WorkersProofs ----------------------------
(***************************************************************************)
(* Proofs about the Python programs that run worker processes: PgFork,     *)
(* PgMp and ConcurrentTx, for every number of workers, processes, errors   *)
(* and Control-Cs.                                                         *)
(***************************************************************************)
EXTENDS PgFork, PgMp, ConcurrentTx, TLAPS, FiniteSetTheorems

-----------------------------------------------------------------------------
(* pg_mp.py.                                                               *)

\* No child's item is twice in a sequence.
Distinct(s) == \A i, j \in 1..Len(s) : s[i] = s[j] => i = j

\* Nothing is in two of the places an item goes through: the buffer, the pipe and
\* the parent's results.
OnePlace ==
    /\ Distinct(pipe) /\ Distinct(results)
    /\ \A i \in 1..Len(pipe) : pipe[i] \notin buffer
    /\ \A i \in 1..Len(results) : results[i] \notin buffer
    /\ \A i \in 1..Len(pipe), j \in 1..Len(results) : pipe[i] # results[j]

\* A child whose item is somewhere has put it there.
Put(w) == cpc[w] \in {"set", "exit"}
WasPut ==
    /\ \A w \in buffer : Put(w)
    /\ \A i \in 1..Len(pipe) : Put(pipe[i])
    /\ \A i \in 1..Len(results) : Put(results[i])

\* The parent has read as many items as its loop has made turns.
Turns ==
    /\ ppc \in {"start", "set", "sleep", "report"} => Len(results) = 0
    /\ ppc \in {"set", "sleep"} => at = 1
    /\ ppc = "read" => Len(results) = at - 1
    /\ ppc \in {"join", "done"} => Len(results) = NWorkers
    /\ ppc = "start" => \A w \in Workers : w >= at => cpc[w] = "new"

MpInv == MpTypeOK /\ OnePlace /\ WasPut /\ Turns

\* The number of workers is positive.
LEMMA Counts == NWorkers \in Nat /\ NWorkers >= 1 /\ MaxErrors \in Nat /\ Workers = 1..NWorkers
BY WorkerPoolAssumption, PgForkAssumption DEF Workers

\* The invariant holds at the start.
LEMMA MpInitInv == MpInit => MpInv
<1> SUFFICES ASSUME MpInit PROVE MpInv
  OBVIOUS
<1>1. MpTypeOK
  <2>1. at \in Workers /\ mp_errs \in 0..MaxErrors
    BY Counts DEF MpInit
  <2>2. cpc \in [Workers -> {"new", "wait", "waiting", "connect", "work", "put", "set"} \cup ChildEnded]
    BY DEF MpInit
  <2>3. pipe \in Seq(Workers) /\ results \in Seq(Workers)
    BY DEF MpInit
  <2>4. ppc = "start" /\ start_lock = FALSE /\ done_event = {} /\ buffer = {}
    BY DEF MpInit
  <2> QED
    BY <2>1, <2>2, <2>3, <2>4 DEF MpTypeOK
<1>2. pipe = <<>> /\ results = <<>> /\ Len(pipe) = 0 /\ Len(results) = 0 /\ buffer = {}
  BY DEF MpInit
<1>3. OnePlace /\ WasPut
  BY <1>2 DEF OnePlace, WasPut, Distinct
<1>4. Turns
  BY <1>2, Counts DEF MpInit, Turns
<1> QED
  BY <1>1, <1>3, <1>4 DEF MpInv

\* Where the loop of the parent can be after a turn.
LEMMA AdvanceKeeps ==
    ASSUME NEW next, at \in Workers, Advance(next)
    PROVE  /\ at' \in Workers
           /\ \/ at' = at + 1 /\ ppc' = ppc /\ at < NWorkers
              \/ at' = 1 /\ ppc' = next /\ at = NWorkers
BY Counts DEF Advance

\* What leaves items alone keeps what is said about them.
LEMMA ItemsKept ==
    ASSUME OnePlace, WasPut, UNCHANGED <<buffer, pipe, results>>,
           \A w \in Workers : Put(w) => Put(w)', MpTypeOK
    PROVE  OnePlace' /\ WasPut'
<1>1. OnePlace'
  BY DEF OnePlace, Distinct
<1>2. WasPut'
  BY DEF WasPut, MpTypeOK
<1> QED
  BY <1>1, <1>2

\* A child keeps it.
LEMMA ChildStep ==
    ASSUME MpInv, NEW w \in Workers, Child(w) \/ CFails(w)
    PROVE  MpInv'
<1> USE DEF MpInv
<1>1. CASE CPut(w)
  <2>1. /\ cpc[w] = "put" /\ buffer' = buffer \cup {w} /\ cpc' = [cpc EXCEPT ![w] = "set"]
        /\ UNCHANGED <<ppc, at, start_lock, results, done_event, pipe, mp_errs>>
    BY <1>1 DEF CPut, CGoto, ParentSame
  <2>2. MpTypeOK'
    BY <2>1 DEF MpTypeOK
  <2>3. OnePlace'
    BY <2>1 DEF OnePlace, WasPut, Put, Distinct
  <2>4. WasPut'
    BY <2>1 DEF WasPut, Put, MpTypeOK
  <2>5. Turns'
    BY <2>1 DEF Turns, MpTypeOK
  <2> QED
    BY <2>2, <2>3, <2>4, <2>5
<1>2. CASE CWait(w) \/ CConnect(w) \/ CWork(w) \/ CSet(w) \/ CFails(w)
  <2>1. /\ UNCHANGED <<ppc, at, start_lock, results, buffer, pipe>>
        /\ done_event' \subseteq Workers /\ mp_errs' \in 0..MaxErrors
        /\ \E new \in {"connect", "waiting", "work", "put", "exit", "failed"} :
              cpc' = [cpc EXCEPT ![w] = new] /\ (Put(w) => new = "exit") /\ cpc[w] # "new"
    <3> USE DEF CGoto, ParentSame, MpTypeOK, Put
    <3>1. CASE CWait(w)
      BY <3>1 DEF CWait
    <3>2. CASE CConnect(w) \/ CWork(w)
      BY <3>2 DEF CConnect, CWork
    <3>3. CASE CSet(w)
      BY <3>3 DEF CSet
    <3>4. CASE CFails(w)
      BY <3>4, Counts DEF CFails
    <3> QED
      BY <1>2, <3>1, <3>2, <3>3, <3>4
  <2>2. MpTypeOK'
    BY <2>1 DEF MpTypeOK, ChildEnded
  <2>3. \A v \in Workers : Put(v) => Put(v)'
    BY <2>1 DEF Put, MpTypeOK
  <2>4. Turns'
    BY <2>1 DEF Turns, MpTypeOK
  <2> QED
    BY <2>1, <2>2, <2>3, <2>4, ItemsKept
<1> QED
  BY <1>1, <1>2 DEF Child

\* The thread that writes to the pipe keeps it.
LEMMA FeederStep ==
    ASSUME MpInv, NEW w \in Workers, Feeder(w)
    PROVE  MpInv'
<1> USE DEF MpInv
<1>1. /\ w \in buffer /\ buffer' = buffer \ {w} /\ pipe' = Append(pipe, w)
      /\ UNCHANGED <<ppc, at, start_lock, results, cpc, done_event, mp_errs>>
  BY DEF Feeder, ParentSame
<1>2. pipe \in Seq(Workers) /\ Len(pipe) \in Nat
  BY DEF MpTypeOK
<1>3. /\ pipe' \in Seq(Workers) /\ Len(pipe') = Len(pipe) + 1
      /\ \A i \in 1..Len(pipe') : pipe'[i] = IF i = Len(pipe) + 1 THEN w ELSE pipe[i]
  BY <1>1, <1>2
<1>4. MpTypeOK'
  BY <1>1, <1>3 DEF MpTypeOK
<1>5. Distinct(pipe')
  BY <1>1, <1>2, <1>3 DEF OnePlace, Distinct
<1>6. OnePlace'
  BY <1>1, <1>2, <1>3, <1>5 DEF OnePlace, Distinct
<1>7. WasPut'
  BY <1>1, <1>2, <1>3 DEF WasPut, Put
<1>8. Turns'
  BY <1>1 DEF Turns
<1> QED
  BY <1>4, <1>6, <1>7, <1>8

\* get(False) keeps it when there is an item: the item moves on.
LEMMA GetStep ==
    ASSUME MpInv, PRead, pipe # <<>>
    PROVE  MpInv'
<1> USE DEF MpInv
<1>1. /\ ppc = "read" /\ results' = Append(results, Head(pipe)) /\ pipe' = Tail(pipe)
      /\ Advance("join") /\ UNCHANGED <<cpc, start_lock, done_event, buffer, mp_errs>>
  BY DEF PRead
<1>2. /\ pipe \in Seq(Workers) /\ results \in Seq(Workers)
      /\ Len(pipe) \in Nat /\ Len(pipe) >= 1 /\ Len(results) \in Nat
      /\ pipe[1] \in Workers /\ Head(pipe) = pipe[1]
  BY DEF MpTypeOK
<1>3. /\ pipe' \in Seq(Workers) /\ Len(pipe') = Len(pipe) - 1
      /\ \A i \in 1..Len(pipe') : pipe'[i] = pipe[i + 1] /\ i + 1 \in 1..Len(pipe)
  BY <1>1, <1>2
<1>4. /\ results' \in Seq(Workers) /\ Len(results') = Len(results) + 1
      /\ \A i \in 1..Len(results') : results'[i] = IF i = Len(results) + 1 THEN pipe[1] ELSE results[i]
  BY <1>1, <1>2
<1>5. /\ at' \in Workers
      /\ \/ at' = at + 1 /\ ppc' = ppc /\ at < NWorkers
         \/ at' = 1 /\ ppc' = "join" /\ at = NWorkers
  BY <1>1, AdvanceKeeps DEF MpTypeOK
<1>6. MpTypeOK'
  BY <1>1, <1>3, <1>4, <1>5 DEF MpTypeOK
<1>7. Distinct(pipe')
  BY <1>2, <1>3 DEF OnePlace, Distinct
<1>8. Distinct(results')
  BY <1>2, <1>4 DEF OnePlace, Distinct
<1>9. /\ \A i \in 1..Len(pipe') : pipe'[i] \notin buffer'
      /\ \A i \in 1..Len(results') : results'[i] \notin buffer'
  BY <1>1, <1>2, <1>3, <1>4 DEF OnePlace
<1>10. ASSUME NEW i \in 1..Len(pipe'), NEW j \in 1..Len(results') PROVE pipe'[i] # results'[j]
  <2>1. pipe'[i] = pipe[i + 1] /\ i + 1 \in 1..Len(pipe) /\ i + 1 # 1 /\ 1 \in 1..Len(pipe)
    BY <1>2, <1>3
  <2>2. CASE j = Len(results) + 1
    BY <1>2, <1>4, <2>1, <2>2 DEF OnePlace, Distinct
  <2>3. CASE j # Len(results) + 1
    <3>1. j \in 1..Len(results) /\ results'[j] = results[j]
      BY <1>2, <1>4, <2>3
    <3> QED
      BY <2>1, <3>1 DEF OnePlace
  <2> QED
    BY <2>2, <2>3
<1>11. OnePlace'
  BY <1>7, <1>8, <1>9, <1>10 DEF OnePlace, Distinct
<1>12. WasPut'
  <2>1. ASSUME NEW i \in 1..Len(results') PROVE cpc[results'[i]] \in {"set", "exit"}
    <3>1. results'[i] = pipe[1] \/ (i \in 1..Len(results) /\ results'[i] = results[i])
      BY <1>2, <1>4
    <3> QED
      BY <1>2, <3>1 DEF WasPut, Put
  <2>2. ASSUME NEW i \in 1..Len(pipe') PROVE cpc[pipe'[i]] \in {"set", "exit"}
    BY <1>2, <1>3 DEF WasPut, Put
  <2> QED
    BY <1>1, <2>1, <2>2 DEF WasPut, Put
<1>13. Turns'
  BY <1>1, <1>2, <1>4, <1>5, Counts DEF Turns, MpTypeOK
<1> QED
  BY <1>6, <1>11, <1>12, <1>13

\* The parent keeps it.
LEMMA ParentStep == ASSUME MpInv, Parent PROVE MpInv'
<1> USE DEF MpInv
<1>1. CASE PRead /\ pipe # <<>>
  BY <1>1, GetStep
<1>2. CASE PRead /\ pipe = <<>>
  <2>1. ppc' = "raised" /\ UNCHANGED <<at, pipe, results, cpc, start_lock, done_event, buffer, mp_errs>>
    BY <1>2 DEF PRead
  <2>2. MpTypeOK' /\ Turns'
    BY <2>1 DEF MpTypeOK, Turns
  <2> QED
    BY <2>1, <2>2, ItemsKept DEF Put
<1>3. CASE PStart
  <2>1. /\ ppc = "start" /\ cpc' = [cpc EXCEPT ![at] = "wait"] /\ cpc[at] = "new"
        /\ Advance("set") /\ UNCHANGED <<start_lock, done_event, buffer, pipe, results, mp_errs>>
    BY <1>3, Counts DEF PStart, MpTypeOK, Turns
  <2>2. /\ at' \in Workers
        /\ \/ at' = at + 1 /\ ppc' = ppc /\ at < NWorkers
           \/ at' = 1 /\ ppc' = "set" /\ at = NWorkers
    BY <2>1, AdvanceKeeps DEF MpTypeOK
  <2>3. MpTypeOK'
    BY <2>1, <2>2 DEF MpTypeOK
  <2>4. Turns'
    <3>1. CASE ppc' = "start"
      <4>1. at' = at + 1 /\ at \in Nat
        BY <2>1, <2>2, <3>1, Counts DEF MpTypeOK
      <4>2. ASSUME NEW w \in Workers, w >= at' PROVE cpc'[w] = "new"
        BY <2>1, <4>1, <4>2, Counts DEF Turns, MpTypeOK
      <4> QED
        BY <2>1, <3>1, <4>2 DEF Turns
    <3>2. CASE ppc' = "set"
      BY <2>1, <2>2, <3>2 DEF Turns
    <3> QED
      BY <2>1, <2>2, <3>1, <3>2
  <2>5. \A w \in Workers : Put(w) => Put(w)'
    BY <2>1 DEF Put, MpTypeOK
  <2> QED
    BY <2>1, <2>3, <2>4, <2>5, ItemsKept
<1>4. CASE PSet
  <2>1. /\ ppc = "set" /\ ppc' = "sleep" /\ start_lock' = TRUE
        /\ cpc' = [w \in Workers |-> IF cpc[w] = "waiting" THEN "connect" ELSE cpc[w]]
        /\ UNCHANGED <<at, done_event, buffer, pipe, results, mp_errs>>
    BY <1>4 DEF PSet
  <2>2. MpTypeOK' /\ Turns'
    BY <2>1 DEF MpTypeOK, Turns
  <2>3. \A w \in Workers : Put(w) => Put(w)'
    BY <2>1 DEF Put, MpTypeOK
  <2> QED
    BY <2>1, <2>2, <2>3, ItemsKept
<1>5. CASE PClear
  <2>1. /\ ppc = "sleep" /\ ppc' = "report" /\ start_lock' = FALSE
        /\ UNCHANGED <<at, cpc, done_event, buffer, pipe, results, mp_errs>>
    BY <1>5 DEF PClear
  <2>2. MpTypeOK' /\ Turns'
    BY <2>1 DEF MpTypeOK, Turns
  <2> QED
    BY <2>1, <2>2, ItemsKept DEF Put
<1>6. CASE PReport \/ PJoin
  <2>1. /\ UNCHANGED <<cpc, start_lock, done_event, buffer, pipe, results, mp_errs>>
        /\ \/ ppc = "report" /\ Advance("read")
           \/ ppc = "join" /\ Advance("done")
    BY <1>6 DEF PReport, PJoin
  <2>2. /\ at' \in Workers
        /\ \/ at' = at + 1 /\ ppc' = ppc /\ ppc \in {"report", "join"}
           \/ at' = 1 /\ ppc = "report" /\ ppc' = "read"
           \/ at' = 1 /\ ppc = "join" /\ ppc' = "done"
    BY <2>1, AdvanceKeeps DEF MpTypeOK
  <2>3. MpTypeOK' /\ Turns'
    BY <2>1, <2>2 DEF MpTypeOK, Turns
  <2> QED
    BY <2>1, <2>3, ItemsKept DEF Put
<1> QED
  BY <1>1, <1>2, <1>3, <1>4, <1>5, <1>6 DEF Parent

\* Every step keeps it.
LEMMA MpNextInv == ASSUME MpInv, [MpNext]_(mp_vars) PROVE MpInv'
<1>1. CASE MpNext
  BY <1>1, ParentStep, ChildStep, FeederStep DEF MpNext
<1>2. CASE UNCHANGED mp_vars
  BY <1>2 DEF mp_vars, MpInv, MpTypeOK, OnePlace, Distinct, WasPut, Put, Turns
<1> QED
  BY <1>1, <1>2

\* MpInv is an invariant.
LEMMA MpSpecInv == MpSpec => []MpInv
BY MpInitInv, MpNextInv, PTL DEF MpSpec

\* As many different children as there are, are all of them.
LEMMA AllThere ==
    ASSUME NEW n \in Nat, NEW s \in Seq(1..n), Len(s) = n, Distinct(s), NEW w \in 1..n
    PROVE  \E j \in DOMAIN s : s[j] = w
<1> SUFFICES ASSUME \A j \in DOMAIN s : s[j] # w PROVE FALSE
  OBVIOUS
<1> DEFINE others == (1..n) \ {w}
<1>1. s \in [1..n -> others]
  OBVIOUS
<1>2. IsFiniteSet(1..n) /\ Cardinality(1..n) = n
  BY FS_Interval
<1>3. IsFiniteSet(others) /\ Cardinality(others) = n - 1
  BY <1>2, FS_RemoveElement
<1>4. \E i, j \in 1..n : i # j /\ s[i] = s[j]
  <2>1. Cardinality(others) < Cardinality(1..n)
    BY <1>2, <1>3
  <2> HIDE DEF others
  <2> QED
    BY <1>1, <1>2, <1>3, <2>1, FS_PigeonHole
<1> QED
  BY <1>4 DEF Distinct

\* The state of pg_mp.py is in its types.
THEOREM MpTypeCorrect == MpSpec => []MpTypeOK
<1>1. MpInv => MpTypeOK
  BY DEF MpInv
<1> QED
  BY <1>1, MpSpecInv, PTL

\* When parent_run() has its results, there is one of every child and none twice,
\* in whatever order the queue's threads wrote them and whoever was slow.
THEOREM EveryResultOnce == MpSpec => []EachResultOnce
<1>1. ASSUME MpInv PROVE EachResultOnce
  <2> SUFFICES ASSUME ppc \in {"join", "done"}
               PROVE  /\ Len(results) = NWorkers
                      /\ \A w \in Workers : \E j \in DOMAIN results : results[j] = w
    BY DEF EachResultOnce
  <2>1. Len(results) = NWorkers /\ results \in Seq(1..NWorkers) /\ Distinct(results)
    BY <1>1, Counts DEF MpInv, Turns, OnePlace, MpTypeOK
  <2> QED
    BY <2>1, Counts, AllThere
<1> QED
  BY <1>1, MpSpecInv, PTL

-----------------------------------------------------------------------------
(* pgfork.py.                                                              *)

\* In do_worker(), with the lock; and before its line is in the file, or not at all.
Writing == {"w_seek", "w_write", "w_unlock"}
Before == {"unborn", "w_start", "w_ready", "w_connect", "w_work", "w_open", "w_lock", "w_seek", "w_write"}

ProcType ==
    [pc : {"unborn", "connect", "fork", "x_kill"} \cup InWorker \cup InParent \cup Ended,
     i : 0..NWorkers, pids : Seq(Procs), k : Nat, par : Procs \cup {NoProc}, handler : BOOLEAN,
     worker_continue : BOOLEAN, closed : BOOLEAN, off : Nat, term : BOOLEAN, int : BOOLEAN]

\* The types, but for the bounds on the length of the file.
ForkTypes ==
    /\ proc \in [Procs -> ProcType]
    /\ file \in Seq(Procs) /\ lock \in Procs \cup {NoProc}
    /\ unlinked \in BOOLEAN /\ total \in 0..MaxProcs /\ reaped \subseteq Procs
    /\ errs \in 0..MaxErrors /\ ints \in 0..MaxInts

\* Who writes holds the lock.
LockInv == \A p \in Procs : proc[p].pc \in Writing => lock = p

\* The line of a process is in the file at most once, not before it was written, and
\* it stays there; the next line goes to the end.
FileInv ==
    /\ Distinct(file)
    /\ \A j \in 1..Len(file) : proc[file[j]].pc \notin Before
    /\ \A p \in Procs : proc[p].pc = "w_write" => proc[p].off = Len(file)
    /\ \A p \in Procs : proc[p].pc \in {"w_unlock", "exit0"} => \E j \in 1..Len(file) : file[j] = p

\* A process that is in the loop, or in a worker that was forked there, has turns left.
LoopInv ==
    /\ \A p \in Procs : proc[p].pc \in InWorker \cup {"fork"} => proc[p].i < NWorkers
    /\ \A p \in Procs : proc[p].k >= 1

ForkInv == ForkTypes /\ LockInv /\ FileInv /\ LoopInv

\* The processes are numbered, Main among them and NoProc not.
LEMMA ProcFacts ==
    /\ Procs = 1..MaxProcs /\ MaxProcs \in Nat /\ Main \in Procs /\ NoProc \notin Procs
    /\ NWorkers \in Nat /\ NWorkers >= 1 /\ MaxErrors \in Nat /\ MaxInts \in Nat
BY WorkerPoolAssumption, PgForkAssumption DEF Procs, Main, NoProc

\* A file without a line twice has no more lines than there are processes.
LEMMA FileLen ==
    ASSUME NEW s \in Seq(Procs), Distinct(s)
    PROVE  Len(s) \in 0..MaxProcs
<1>1. IsFiniteSet(1..MaxProcs) /\ Cardinality(1..MaxProcs) = MaxProcs
  BY ProcFacts, FS_Interval
<1>2. Len(s) \in Nat
  OBVIOUS
<1>3. IsFiniteSet(1..Len(s)) /\ Cardinality(1..Len(s)) = Len(s)
  <2>1. PICK n \in Nat : n = Len(s)
    BY <1>2
  <2>2. IsFiniteSet(1..n) /\ Cardinality(1..n) = n
    BY FS_Interval
  <2> QED
    BY <2>1, <2>2
<1>4. s \in [1..Len(s) -> 1..MaxProcs]
  BY ProcFacts
<1> SUFFICES ASSUME Len(s) > MaxProcs PROVE FALSE
  BY <1>2, ProcFacts
<1>5. \E i, j \in 1..Len(s) : i # j /\ s[i] = s[j]
  <2>1. Cardinality(1..MaxProcs) < Cardinality(1..Len(s))
    BY <1>1, <1>2, <1>3, ProcFacts
  <2> QED
    BY <1>1, <1>3, <1>4, <2>1, FS_PigeonHole
<1> QED
  BY <1>5 DEF Distinct

\* What a process does to its own record.
LEMMA SetKeeps ==
    ASSUME ForkTypes, NEW p \in Procs, NEW r \in ProcType, Set(p, r)
    PROVE  /\ proc' \in [Procs -> ProcType] /\ proc'[p] = r
           /\ \A q \in Procs : q # p => proc'[q] = proc[q]
BY DEF ForkTypes, Set

\* A step that does not touch the file, and takes nobody to where it is written, or
\* away from where it was written, but to the end of the process.
LEMMA FileKept ==
    ASSUME ForkTypes, LockInv, FileInv, NEW p \in Procs, file' = file,
           \A q \in Procs : q # p => proc'[q].pc = proc[q].pc /\ proc'[q].off = proc[q].off,
           \/ proc'[p].pc = proc[p].pc /\ proc'[p].off = proc[p].off
           \/ proc'[p].pc \notin Before \cup {"w_unlock", "exit0"}
           \/ proc[p].pc \in Before /\ proc'[p].pc \in Before \ Writing,
           \/ lock' = lock
           \/ lock' = (IF lock = p THEN NoProc ELSE lock) /\ proc'[p].pc \notin Writing
    PROVE  LockInv' /\ FileInv'
<1>1. LockInv'
  BY DEF LockInv, Before, Writing
<1>2. Distinct(file') /\ file \in Seq(Procs)
  BY DEF FileInv, Distinct, ForkTypes
<1>3. ASSUME NEW j \in 1..Len(file) PROVE proc'[file[j]].pc \notin Before
  <2>1. file[j] \in Procs /\ proc[file[j]].pc \notin Before
    BY <1>2 DEF FileInv
  <2> QED
    BY <2>1
<1>4. ASSUME NEW q \in Procs, proc'[q].pc = "w_write" PROVE proc'[q].off = Len(file)
  BY <1>4 DEF FileInv, Before, Writing
<1>5. ASSUME NEW q \in Procs, proc'[q].pc \in {"w_unlock", "exit0"}
      PROVE  \E j \in 1..Len(file) : file[j] = q
  BY <1>5 DEF FileInv, Before
<1> QED
  BY <1>1, <1>2, <1>3, <1>4, <1>5 DEF FileInv

\* The invariant holds at the start.
LEMMA ForkInit == Init => ForkInv
<1> SUFFICES ASSUME Init PROVE ForkInv
  OBVIOUS
<1>1. /\ proc \in [Procs -> ProcType]
      /\ \A p \in Procs : proc[p].pc \in {"connect", "unborn"} /\ proc[p].k = 1
  <2>1. ASSUME NEW p \in Procs PROVE proc[p] \in ProcType /\ proc[p].pc \in {"connect", "unborn"} /\ proc[p].k = 1
    BY ProcFacts DEF Init, Fresh, ProcType, NoProc
  <2> QED
    BY <2>1 DEF Init
<1>2. file = <<>> /\ Len(file) = 0
  BY DEF Init
<1>3. ForkTypes
  <2>1. file \in Seq(Procs)
    BY <1>2
  <2>2. lock = NoProc /\ unlinked = FALSE /\ total = 0 /\ reaped = {} /\ errs = 0 /\ ints = 0
    BY DEF Init
  <2>3. total \in 0..MaxProcs /\ errs \in 0..MaxErrors /\ ints \in 0..MaxInts
    BY <2>2, ProcFacts
  <2>4. unlinked \in BOOLEAN /\ reaped \subseteq Procs /\ lock \in Procs \cup {NoProc}
    BY <2>2
  <2> QED
    BY <1>1, <2>1, <2>3, <2>4 DEF ForkTypes
<1>4. LockInv /\ LoopInv
  BY <1>1 DEF LockInv, LoopInv, Writing, InWorker
<1>5. FileInv
  BY <1>1, <1>2 DEF FileInv, Distinct
<1> QED
  BY <1>3, <1>4, <1>5 DEF ForkInv

\* What a process that changes only itself, and neither file nor lock, has to do to
\* keep the invariant.
LEMMA OwnStep ==
    ASSUME ForkInv, NEW p \in Procs, NEW r \in ProcType, Set(p, r),
           UNCHANGED <<file, unlinked, total, reaped, ints>>, errs' \in 0..MaxErrors,
           \/ r.pc = proc[p].pc /\ r.off = proc[p].off
           \/ r.pc \notin Before \cup {"w_unlock", "exit0"}
           \/ proc[p].pc \in Before /\ r.pc \in Before \ Writing,
           \/ lock' = lock
           \/ lock' = (IF lock = p THEN NoProc ELSE lock) /\ r.pc \notin Writing,
           r.k >= 1, r.pc \in InWorker \cup {"fork"} => r.i < NWorkers
    PROVE  ForkInv'
<1>1. /\ proc' \in [Procs -> ProcType] /\ proc'[p] = r
      /\ \A q \in Procs : q # p => proc'[q] = proc[q]
  BY SetKeeps DEF ForkInv
<1>2. ForkTypes'
  BY <1>1 DEF ForkInv, ForkTypes
<1>3. LockInv' /\ FileInv'
  BY <1>1, FileKept DEF ForkInv
<1>4. LoopInv'
  BY <1>1 DEF ForkInv, LoopInv
<1> QED
  BY <1>2, <1>3, <1>4 DEF ForkInv

\* The record of a process is one, and its fields have their types.
LEMMA ProcFields ==
    ASSUME ForkTypes, NEW p \in Procs
    PROVE  /\ proc[p] \in ProcType /\ proc[p].i \in 0..NWorkers /\ proc[p].pids \in Seq(Procs)
           /\ proc[p].k \in Nat /\ proc[p].off \in Nat
BY DEF ForkTypes, ProcType

\* The places a process can be at.
Labels == {"unborn", "connect", "fork", "x_kill"} \cup InWorker \cup InParent \cup Ended

\* Going somewhere keeps the rest of the record.
LEMMA GotoFields ==
    ASSUME NEW r \in ProcType, NEW l \in Labels
    PROVE  LET n == [r EXCEPT !.pc = l] IN
           n \in ProcType /\ n.pc = l /\ n.i = r.i /\ n.k = r.k /\ n.off = r.off
BY DEF ProcType, Labels

\* So do an exception and the for statement.
LEMMA RaisedFields ==
    ASSUME NEW r \in ProcType
    PROVE  Raised(r) \in ProcType /\ Raised(r).pc = "x_kill" /\ Raised(r).k = 1
BY DEF ProcType, Raised

LEMMA ForLoopFields ==
    ASSUME NEW r \in ProcType, NEW j \in 0..NWorkers
    PROVE  /\ ForLoop(r, j) \in ProcType /\ ForLoop(r, j).pc \in {"fork", "sleep"}
           /\ ForLoop(r, j).k = r.k /\ ForLoop(r, j).i = j
           /\ ForLoop(r, j).pc = "fork" => j < NWorkers
BY DEF ProcType, ForLoop, InParent

\* run_parent(), but for the fork and the signals it sends, keeps it.
LEMMA ParentForkStep ==
    ASSUME ForkInv, NEW p \in Procs,
           Connect(p) \/ Sleep(p) \/ Wait(p) \/ Read(p) \/ Error(p)
    PROVE  ForkInv'
<1>1. /\ proc[p] \in ProcType /\ proc[p].k >= 1 /\ MaxErrors \in Nat
      /\ errs \in 0..MaxErrors /\ ForkTypes
  BY ProcFields, ProcFacts DEF ForkInv, LoopInv, ForkTypes
<1>2. CASE Connect(p)
  <2>1. Set(p, ForLoop(proc[p], 0)) /\ UNCHANGED <<file, lock, unlinked, total, reaped, errs, ints>>
    BY <1>2 DEF Connect, shared
  <2>2. 0 \in 0..NWorkers
    BY ProcFacts
  <2>3. /\ ForLoop(proc[p], 0) \in ProcType /\ ForLoop(proc[p], 0).pc \in {"fork", "sleep"}
        /\ ForLoop(proc[p], 0).k >= 1
        /\ ForLoop(proc[p], 0).pc = "fork" => ForLoop(proc[p], 0).i < NWorkers
    BY <1>1, <2>2, ForLoopFields
  <2> QED
    BY <1>1, <2>1, <2>3, OwnStep DEF Before, InWorker
<1>3. CASE Sleep(p)
  <2> DEFINE r == [proc[p] EXCEPT !.pc = "kill", !.k = 1]
  <2>1. Set(p, r) /\ UNCHANGED <<file, lock, unlinked, total, reaped, errs, ints>>
    BY <1>3 DEF Sleep, shared
  <2>2. r \in ProcType /\ r.pc = "kill" /\ r.k = 1
    BY <1>1 DEF ProcType, InParent
  <2> HIDE DEF r
  <2> QED
    BY <1>1, <2>1, <2>2, OwnStep DEF Before, InWorker
<1>4. CASE Wait(p)
  <2>1. CASE Goto(p, "read") /\ UNCHANGED <<file, lock, unlinked, total, reaped, errs, ints>>
    <3> DEFINE r == [proc[p] EXCEPT !.pc = "read"]
    <3>1. r \in ProcType /\ r.pc = "read" /\ r.k = proc[p].k
      BY <1>1, GotoFields DEF Labels, InParent
    <3>2. Set(p, r)
      BY <2>1 DEF Goto
    <3> HIDE DEF r
    <3> QED
      BY <1>1, <2>1, <3>1, <3>2, OwnStep DEF Before, InWorker
  <2>2. CASE \E q \in Procs : reaped' = reaped \cup {q} /\ UNCHANGED <<proc, file, lock, unlinked, total, errs, ints>>
    BY <2>2 DEF ForkInv, ForkTypes, LockInv, FileInv, Distinct, LoopInv
  <2> QED
    BY <1>4, <2>1, <2>2 DEF Wait
<1>5. CASE Read(p)
  <2>1. CASE Set(p, Raised(proc[p])) /\ UNCHANGED <<file, lock, unlinked, total, reaped, errs, ints>>
    BY <1>1, <2>1, RaisedFields, OwnStep DEF Before, InWorker
  <2>2. CASE /\ Goto(p, "done") /\ total' = Len(file) /\ unlinked' = TRUE
             /\ UNCHANGED <<file, lock, reaped, errs, ints>>
    <3> DEFINE r == [proc[p] EXCEPT !.pc = "done"]
    <3>1. r \in ProcType /\ r.pc = "done" /\ r.i = proc[p].i /\ r.k = proc[p].k
      BY <1>1, GotoFields DEF Labels, Ended
    <3>2. /\ proc' \in [Procs -> ProcType] /\ proc'[p] = r
          /\ \A q \in Procs : q # p => proc'[q] = proc[q]
      BY <1>1, <2>2, <3>1, SetKeeps DEF Goto
    <3>3. LockInv' /\ FileInv'
      BY <2>2, <3>1, <3>2, FileKept DEF ForkInv, Before
    <3>4. Len(file) \in 0..MaxProcs
      BY <1>1, FileLen DEF ForkInv, FileInv, ForkTypes
    <3>5. ForkTypes'
      BY <1>1, <2>2, <3>2, <3>4 DEF ForkTypes
    <3>6. LoopInv'
      BY <1>1, <3>1, <3>2 DEF ForkInv, LoopInv, InWorker
    <3> QED
      BY <3>3, <3>5, <3>6 DEF ForkInv
  <2> QED
    BY <1>5, <2>1, <2>2 DEF Read
<1>6. CASE Error(p)
  <2>1. /\ Set(p, Raised(proc[p])) /\ errs' \in 0..MaxErrors
        /\ UNCHANGED <<file, lock, unlinked, total, reaped, ints>>
    BY <1>1, <1>6 DEF Error
  <2> QED
    BY <1>1, <2>1, RaisedFields, OwnStep DEF Before, InWorker
<1> QED
  BY <1>2, <1>3, <1>4, <1>5, <1>6

\* A process goes on in do_worker(), before the lock.
LEMMA BeforeLock ==
    ASSUME ForkInv, NEW p \in Procs, proc[p].pc \in Before \cap InWorker,
           NEW r \in ProcType, Set(p, r), UNCHANGED shared, r.pc \in Before \cap InWorker, r.pc \notin Writing,
           r.i = proc[p].i, r.k = proc[p].k
    PROVE  ForkInv'
<1>1. /\ r.k >= 1 /\ r.i < NWorkers /\ errs' \in 0..MaxErrors
      /\ UNCHANGED <<file, lock, unlinked, total, reaped, ints>>
  BY DEF ForkInv, LoopInv, ForkTypes, shared
<1> QED
  BY <1>1, OwnStep

\* do_worker() keeps it up to the lock.
LEMMA WorkerStep ==
    ASSUME ForkInv, NEW p \in Procs, WStart(p) \/ WHandle(p) \/ WConnect(p) \/ WWork(p) \/ WOpen(p)
    PROVE  ForkInv'
<1>1. proc[p] \in ProcType /\ proc[p].k >= 1 /\ errs \in 0..MaxErrors
  BY ProcFields DEF ForkInv, LoopInv, ForkTypes
<1>2. CASE WStart(p)
  <2> DEFINE r == [proc[p] EXCEPT !.pc = "w_ready", !.closed = TRUE]
  <2>1. proc[p].pc = "w_start" /\ Set(p, r) /\ UNCHANGED shared
    BY <1>2 DEF WStart, At
  <2>2. r \in ProcType /\ r.pc = "w_ready" /\ r.i = proc[p].i /\ r.k = proc[p].k
    BY <1>1 DEF ProcType, InWorker
  <2> HIDE DEF r
  <2> QED
    BY <2>1, <2>2, BeforeLock DEF Before, InWorker, Writing
<1>5. CASE WHandle(p)
  <2> DEFINE r == [proc[p] EXCEPT !.pc = "w_connect", !.worker_continue = TRUE, !.handler = TRUE]
  <2>1. proc[p].pc = "w_ready" /\ Set(p, r) /\ UNCHANGED shared
    BY <1>5 DEF WHandle, At
  <2>2. r \in ProcType /\ r.pc = "w_connect" /\ r.i = proc[p].i /\ r.k = proc[p].k
    BY <1>1 DEF ProcType, InWorker
  <2> HIDE DEF r
  <2> QED
    BY <2>1, <2>2, BeforeLock DEF Before, InWorker, Writing
<1>3. CASE \E l \in {"w_work", "w_open", "w_lock"} : Goto(p, l) /\ proc[p].pc \in {"w_connect", "w_work", "w_open"} /\ UNCHANGED shared
  <2>1. PICK l \in {"w_work", "w_open", "w_lock"} : Goto(p, l) /\ proc[p].pc \in {"w_connect", "w_work", "w_open"} /\ UNCHANGED shared
    BY <1>3
  <2> DEFINE r == [proc[p] EXCEPT !.pc = l]
  <2>2. Set(p, r)
    BY <2>1 DEF Goto
  <2>3. r \in ProcType /\ r.pc = l /\ r.i = proc[p].i /\ r.k = proc[p].k
    BY <1>1, GotoFields DEF Labels, InWorker
  <2> HIDE DEF r
  <2> QED
    BY <2>1, <2>2, <2>3, BeforeLock DEF Before, InWorker, Writing
<1>4. CASE Set(p, Raised(proc[p])) /\ UNCHANGED shared
  BY <1>1, <1>4, RaisedFields, OwnStep DEF Before, InWorker, shared
<1> QED
  BY <1>2, <1>3, <1>4, <1>5 DEF WConnect, WWork, WOpen, At

\* It keeps it with the lock.
LEMMA WritingStep ==
    ASSUME ForkInv, NEW p \in Procs, WLock(p) \/ WSeek(p) \/ WUnlock(p)
    PROVE  ForkInv'
<1>1. proc[p] \in ProcType /\ proc[p].k >= 1 /\ ForkTypes
  BY ProcFields DEF ForkInv, LoopInv
<1>2. CASE WLock(p)
  <2> DEFINE r == [proc[p] EXCEPT !.pc = "w_seek"]
  <2>1. /\ proc[p].pc = "w_lock" /\ lock = NoProc /\ lock' = p /\ Set(p, r)
        /\ UNCHANGED <<file, unlinked, total, reaped, errs, ints>>
    BY <1>2 DEF WLock, At, Goto
  <2>2. r \in ProcType /\ r.pc = "w_seek" /\ r.i = proc[p].i /\ r.k = proc[p].k /\ r.off = proc[p].off
    BY <1>1, GotoFields DEF Labels, InWorker
  <2> HIDE DEF r
  <2>3. /\ proc' \in [Procs -> ProcType] /\ proc'[p] = r
        /\ \A q \in Procs : q # p => proc'[q] = proc[q]
    BY <1>1, <2>1, <2>2, SetKeeps
  <2>4. ForkTypes'
    BY <2>1, <2>3 DEF ForkInv, ForkTypes
  <2>5. LockInv'
    BY <2>1, <2>2, <2>3, ProcFacts DEF ForkInv, LockInv
  <2>6. \A j \in 1..Len(file) : file[j] \in Procs
    BY <1>1 DEF ForkTypes
  <2>7. FileInv'
    BY <2>1, <2>2, <2>3, <2>6 DEF ForkInv, FileInv, Distinct, Before
  <2>8. LoopInv'
    BY <2>1, <2>2, <2>3 DEF ForkInv, LoopInv, InWorker
  <2> QED
    BY <2>4, <2>5, <2>7, <2>8 DEF ForkInv
<1>3. CASE WSeek(p)
  <2> DEFINE r == [proc[p] EXCEPT !.pc = "w_write", !.off = Len(file)]
  <2>1. proc[p].pc = "w_seek" /\ Set(p, r) /\ UNCHANGED <<file, lock, unlinked, total, reaped, errs, ints>>
    BY <1>3 DEF WSeek, At, shared
  <2>2. r \in ProcType /\ r.pc = "w_write" /\ r.i = proc[p].i /\ r.k = proc[p].k /\ r.off = Len(file)
    <3>1. Len(file) \in Nat
      BY <1>1 DEF ForkTypes
    <3> QED
      BY <1>1, <3>1 DEF ProcType, InWorker
  <2> HIDE DEF r
  <2>3. /\ proc' \in [Procs -> ProcType] /\ proc'[p] = r
        /\ \A q \in Procs : q # p => proc'[q] = proc[q]
    BY <1>1, <2>1, <2>2, SetKeeps
  <2>4. ForkTypes'
    BY <2>1, <2>3 DEF ForkInv, ForkTypes
  <2>5. LockInv'
    BY <2>1, <2>2, <2>3 DEF ForkInv, LockInv, Writing
  <2>6. \A j \in 1..Len(file) : file[j] \in Procs
    BY <1>1 DEF ForkTypes
  <2>7. FileInv'
    BY <2>1, <2>2, <2>3, <2>6 DEF ForkInv, FileInv, Distinct, Before
  <2>8. LoopInv'
    BY <2>1, <2>2, <2>3 DEF ForkInv, LoopInv, InWorker
  <2> QED
    BY <2>4, <2>5, <2>7, <2>8 DEF ForkInv
<1>4. CASE WUnlock(p)
  <2> DEFINE r == [proc[p] EXCEPT !.pc = "exit0"]
  <2>1. /\ proc[p].pc = "w_unlock" /\ lock' = (IF lock = p THEN NoProc ELSE lock) /\ Set(p, r)
        /\ UNCHANGED <<file, unlinked, total, reaped, errs, ints>>
    BY <1>4 DEF WUnlock, At, Goto, Release
  <2>2. r \in ProcType /\ r.pc = "exit0" /\ r.i = proc[p].i /\ r.k = proc[p].k
    BY <1>1, GotoFields DEF Labels, Ended
  <2> HIDE DEF r
  <2>3. /\ proc' \in [Procs -> ProcType] /\ proc'[p] = r
        /\ \A q \in Procs : q # p => proc'[q] = proc[q]
    BY <1>1, <2>1, <2>2, SetKeeps
  <2>4. ForkTypes'
    BY <2>1, <2>3 DEF ForkInv, ForkTypes
  <2>5. LockInv'
    BY <2>1, <2>2, <2>3 DEF ForkInv, LockInv, Writing
  <2>6. \A j \in 1..Len(file) : file[j] \in Procs
    BY <1>1 DEF ForkTypes
  <2>7. FileInv'
    BY <2>1, <2>2, <2>3, <2>6 DEF ForkInv, FileInv, Distinct, Before
  <2>8. LoopInv'
    BY <2>1, <2>2, <2>3 DEF ForkInv, LoopInv, InWorker
  <2> QED
    BY <2>4, <2>5, <2>7, <2>8 DEF ForkInv
<1> QED
  BY <1>2, <1>3, <1>4

\* The write goes to the end of the file, because nobody else has written since the
\* seek.
LEMMA WriteAppends ==
    ASSUME ForkInv, NEW p \in Procs, WWrite(p)
    PROVE  /\ file' \in Seq(Procs) /\ Len(file') = Len(file) + 1
           /\ \A j \in 1..Len(file) : file'[j] = file[j]
           /\ file'[Len(file) + 1] = p
<1>1. proc[p].off = Len(file) /\ file \in Seq(Procs) /\ Len(file) \in Nat
  BY DEF WWrite, At, ForkInv, FileInv, ForkTypes
<1>2. file' = [j \in 1..(Len(file) + 1) |-> IF j = Len(file) + 1 THEN p ELSE file[j]]
  <2>1. 1..Len(file) \cup {Len(file) + 1} = 1..(Len(file) + 1)
    BY <1>1
  <2> QED
    BY <1>1, <2>1 DEF WWrite
<1> DEFINE n == Len(file) + 1
<1>3. file' \in [1..n -> Procs] /\ n \in Nat
  BY <1>1, <1>2
<1>4. file' \in Seq(Procs) /\ Len(file') = n
  BY <1>3
<1> QED
  BY <1>1, <1>2, <1>4

\* It keeps the invariant.
LEMMA WriteStep == ASSUME ForkInv, NEW p \in Procs, WWrite(p) PROVE ForkInv'
<1> DEFINE r == [proc[p] EXCEPT !.pc = "w_unlock"]
<1>1. proc[p] \in ProcType /\ proc[p].k >= 1 /\ ForkTypes /\ Len(file) \in Nat
  BY ProcFields DEF ForkInv, LoopInv, ForkTypes
<1>2. proc[p].pc = "w_write" /\ Set(p, r) /\ UNCHANGED <<lock, unlinked, total, reaped, errs, ints>>
  BY DEF WWrite, At, Goto
<1>3. r \in ProcType /\ r.pc = "w_unlock" /\ r.i = proc[p].i /\ r.k = proc[p].k
  BY <1>1, GotoFields DEF Labels, InWorker
<1> HIDE DEF r
<1>4. /\ proc' \in [Procs -> ProcType] /\ proc'[p] = r
      /\ \A q \in Procs : q # p => proc'[q] = proc[q]
  BY <1>1, <1>2, <1>3, SetKeeps
<1>5. /\ file' \in Seq(Procs) /\ Len(file') = Len(file) + 1
      /\ \A j \in 1..Len(file) : file'[j] = file[j] /\ file[j] \in Procs
      /\ file'[Len(file) + 1] = p
  BY <1>1, WriteAppends DEF ForkTypes
<1>6. \A j \in 1..Len(file) : file[j] # p /\ proc[file[j]].pc \notin Before
  BY <1>2 DEF ForkInv, FileInv, Before
<1>7. ForkTypes'
  BY <1>2, <1>4, <1>5 DEF ForkInv, ForkTypes
<1>8. LockInv'
  BY <1>2, <1>3, <1>4 DEF ForkInv, LockInv, Writing
<1>9. FileInv'
  <2>1. Distinct(file')
    <3> SUFFICES ASSUME NEW i \in 1..Len(file'), NEW j \in 1..Len(file'), file'[i] = file'[j]
                 PROVE  i = j
      BY DEF Distinct
    <3>1. i \in 1..Len(file) \/ i = Len(file) + 1
      BY <1>1, <1>5
    <3>2. j \in 1..Len(file) \/ j = Len(file) + 1
      BY <1>1, <1>5
    <3> QED
      BY <1>5, <1>6, <3>1, <3>2 DEF ForkInv, FileInv, Distinct
  <2>2. ASSUME NEW j \in 1..Len(file') PROVE proc'[file'[j]].pc \notin Before
    <3>1. CASE j = Len(file) + 1
      BY <1>3, <1>4, <1>5, <3>1 DEF Before
    <3>2. CASE j \in 1..Len(file)
      BY <1>4, <1>5, <1>6, <3>2
    <3> QED
      BY <1>1, <1>5, <3>1, <3>2
  <2>3. ASSUME NEW q \in Procs PROVE proc'[q].pc # "w_write"
    BY <1>2, <1>3, <1>4 DEF ForkInv, LockInv, Writing
  <2>4. ASSUME NEW q \in Procs, proc'[q].pc \in {"w_unlock", "exit0"}
        PROVE  \E j \in 1..Len(file') : file'[j] = q
    <3>1. CASE q = p
      BY <1>1, <1>5, <3>1
    <3>2. CASE q # p
      <4>1. PICK j \in 1..Len(file) : file[j] = q
        BY <1>4, <2>4, <3>2 DEF ForkInv, FileInv
      <4> QED
        BY <1>1, <1>5, <4>1
    <3> QED
      BY <3>1, <3>2
  <2> QED
    BY <2>1, <2>2, <2>3, <2>4 DEF FileInv
<1>10. LoopInv'
  BY <1>2, <1>3, <1>4 DEF ForkInv, LoopInv, InWorker
<1> QED
  BY <1>7, <1>8, <1>9, <1>10 DEF ForkInv

\* A signal, or the signals a process sends, change nothing but flags and counters.
LEMMA FlagStep ==
    ASSUME ForkInv, proc' \in [Procs -> ProcType],
           \A q \in Procs : /\ proc'[q].pc = proc[q].pc /\ proc'[q].i = proc[q].i
                            /\ proc'[q].off = proc[q].off /\ proc'[q].k >= 1,
           UNCHANGED <<file, lock, unlinked, total, reaped, errs>>, ints' \in 0..MaxInts
    PROVE  ForkInv'
<1>1. ForkTypes'
  BY DEF ForkInv, ForkTypes
<1>2. LockInv'
  BY DEF ForkInv, LockInv
<1>3. \A j \in 1..Len(file) : file[j] \in Procs
  BY DEF ForkInv, ForkTypes
<1>4. FileInv'
  BY <1>3 DEF ForkInv, FileInv, Distinct
<1>5. LoopInv'
  BY DEF ForkInv, LoopInv
<1> QED
  BY <1>1, <1>2, <1>4, <1>5 DEF ForkInv

\* The child of a fork starts outside the file and the lock; its parent stays so.
LEMMA ForkStep == ASSUME ForkInv, NEW p \in Procs, Fork(p) PROVE ForkInv'
<1>1. PICK q \in Procs :
        /\ At(q, "unborn")
        /\ proc' = [proc EXCEPT
             ![p] = ForLoop([proc[p] EXCEPT !.pids = Append(@, q)], proc[p].i + 1),
             ![q] = [proc[p] EXCEPT !.pc = "w_start", !.par = p, !.term = FALSE, !.int = FALSE]]
  BY DEF Fork
<1>2. /\ proc[p].pc = "fork" /\ proc[q].pc = "unborn"
      /\ UNCHANGED <<file, lock, unlinked, total, reaped, errs, ints>>
  BY <1>1 DEF Fork, At, shared
<1>3. /\ proc[p] \in ProcType /\ proc[p].i \in 0..NWorkers /\ proc[p].pids \in Seq(Procs)
      /\ proc[p].k \in Nat /\ ForkTypes /\ proc[p].k >= 1 /\ proc[p].i < NWorkers
  BY <1>2, ProcFields DEF ForkInv, LoopInv
<1> DEFINE m == [proc[p] EXCEPT !.pids = Append(@, q)]
           r == ForLoop(m, proc[p].i + 1)
           c == [proc[p] EXCEPT !.pc = "w_start", !.par = p, !.term = FALSE, !.int = FALSE]
<1>4. m \in ProcType /\ m.k = proc[p].k
  <2>1. Append(proc[p].pids, q) \in Seq(Procs)
    BY <1>3
  <2> QED
    BY <1>3, <2>1 DEF ProcType
<1>5. /\ r \in ProcType /\ r.pc \in {"fork", "sleep"} /\ r.k >= 1
      /\ r.pc = "fork" => r.i < NWorkers
  <2>1. proc[p].i + 1 \in 0..NWorkers
    BY <1>3, ProcFacts
  <2> HIDE DEF m
  <2> QED
    BY <1>3, <1>4, <2>1, ForLoopFields
<1>6. c \in ProcType /\ c.pc = "w_start" /\ c.k = proc[p].k /\ c.i = proc[p].i
  BY <1>3 DEF ProcType, InWorker
<1>7. /\ proc' \in [Procs -> ProcType] /\ proc'[p] = r /\ proc'[q] = c
      /\ \A x \in Procs : x # p /\ x # q => proc'[x] = proc[x]
  <2>1. proc' = [proc EXCEPT ![p] = r, ![q] = c]
    BY <1>1
  <2> HIDE DEF r, c
  <2> QED
    BY <1>2, <1>3, <1>5, <1>6, <2>1 DEF ForkTypes
<1> HIDE DEF r, c
<1>8. ForkTypes'
  BY <1>2, <1>3, <1>7 DEF ForkTypes
<1>9. LockInv'
  BY <1>2, <1>5, <1>6, <1>7 DEF ForkInv, LockInv, Writing
<1>10. \A j \in 1..Len(file) : file[j] \in Procs
  BY <1>3 DEF ForkTypes
<1>11. FileInv'
  <2>1. Distinct(file')
    BY <1>2 DEF ForkInv, FileInv, Distinct
  <2>2. ASSUME NEW j \in 1..Len(file) PROVE proc'[file[j]].pc \notin Before
    <3>1. file[j] # q /\ proc[file[j]].pc \notin Before /\ file[j] \in Procs
      BY <1>2, <1>10 DEF ForkInv, FileInv, Before
    <3> QED
      BY <1>5, <1>7, <3>1 DEF Before
  <2>3. ASSUME NEW x \in Procs, proc'[x].pc \in {"w_write", "w_unlock", "exit0"}
        PROVE  proc'[x] = proc[x]
    BY <1>5, <1>6, <1>7, <2>3
  <2> QED
    BY <1>2, <2>1, <2>2, <2>3 DEF ForkInv, FileInv
<1>12. LoopInv'
  BY <1>3, <1>5, <1>6, <1>7 DEF ForkInv, LoopInv, InWorker
<1> QED
  BY <1>8, <1>9, <1>11, <1>12 DEF ForkInv

\* kill_children() keeps the invariant.
LEMMA KillStep == ASSUME ForkInv, NEW p \in Procs, Kill(p) PROVE ForkInv'
<1>1. /\ proc[p] \in ProcType /\ proc[p].pids \in Seq(Procs) /\ proc[p].k \in Nat
      /\ proc[p].k >= 1 /\ ForkTypes /\ errs \in 0..MaxErrors /\ ints \in 0..MaxInts
  BY ProcFields DEF ForkInv, LoopInv, ForkTypes
<1>2. UNCHANGED <<file, unlinked, total, reaped, errs, ints>>
  BY DEF Kill
<1>3. CASE Goto(p, "wait") /\ UNCHANGED lock
  <2> DEFINE r == [proc[p] EXCEPT !.pc = "wait"]
  <2>1. r \in ProcType /\ r.pc = "wait" /\ r.k = proc[p].k
    BY <1>1, GotoFields DEF Labels, InParent
  <2>2. Set(p, r)
    BY <1>3 DEF Goto
  <2> HIDE DEF r
  <2> QED
    BY <1>1, <1>2, <1>3, <2>1, <2>2, OwnStep DEF Before, InWorker
<1>4. CASE Goto(p, "raised") /\ Release(p)
  <2> DEFINE r == [proc[p] EXCEPT !.pc = "raised"]
  <2>1. r \in ProcType /\ r.pc = "raised" /\ r.k = proc[p].k
    BY <1>1, GotoFields DEF Labels, Ended
  <2>2. Set(p, r)
    BY <1>4 DEF Goto
  <2> HIDE DEF r
  <2> QED
    BY <1>1, <1>2, <1>4, <2>1, <2>2, OwnStep DEF Before, InWorker, Writing, Release
<1>5. CASE /\ proc[p].k <= Len(proc[p].pids) /\ UNCHANGED lock
           /\ proc' = [proc EXCEPT ![p].k = proc[p].k + 1, ![proc[p].pids[proc[p].k]].term = TRUE]
  <2> DEFINE q == proc[p].pids[proc[p].k]
             r == [proc[p] EXCEPT !.k = proc[p].k + 1]
             f == [proc EXCEPT ![p] = r]
             c == [f[q] EXCEPT !.term = TRUE]
  <2>1. q \in Procs
    BY <1>1, <1>5
  <2>2. r \in ProcType /\ r.k >= 1 /\ r.pc = proc[p].pc /\ r.i = proc[p].i /\ r.off = proc[p].off
    BY <1>1 DEF ProcType
  <2>3. proc' = [f EXCEPT ![q] = c]
    BY <1>1, <1>5 DEF ForkTypes
  <2> HIDE DEF r, q
  <2>4. /\ f \in [Procs -> ProcType]
        /\ \A x \in Procs : /\ f[x].pc = proc[x].pc /\ f[x].i = proc[x].i
                            /\ f[x].off = proc[x].off /\ f[x].k >= 1
    BY <1>1, <2>2 DEF ForkTypes, ForkInv, LoopInv
  <2> HIDE DEF f
  <2>5. c \in ProcType /\ c.pc = f[q].pc /\ c.i = f[q].i /\ c.off = f[q].off /\ c.k = f[q].k
    BY <2>1, <2>4 DEF ProcType
  <2> HIDE DEF c
  <2>6. /\ proc' \in [Procs -> ProcType]
        /\ \A x \in Procs : /\ proc'[x].pc = proc[x].pc /\ proc'[x].i = proc[x].i
                            /\ proc'[x].off = proc[x].off /\ proc'[x].k >= 1
    BY <2>1, <2>3, <2>4, <2>5
  <2> QED
    BY <1>1, <1>2, <1>5, <2>6, FlagStep
<1> QED
  BY <1>1, <1>3, <1>4, <1>5 DEF Kill

\* A signal that is delivered keeps it.
LEMMA SignalStep ==
    ASSUME ForkInv, NEW p \in Procs, DeliverTerm(p) \/ DeliverInt(p)
    PROVE  ForkInv'
<1>1. /\ proc[p] \in ProcType /\ proc[p].i \in 0..NWorkers
      /\ proc[p].k >= 1 /\ ForkTypes /\ errs \in 0..MaxErrors
  BY ProcFields DEF ForkInv, LoopInv, ForkTypes
<1>2. UNCHANGED <<file, unlinked, total, reaped, errs, ints>>
  BY DEF DeliverTerm, DeliverInt
<1>3. CASE DeliverTerm(p)
  <2> DEFINE h == [proc[p] EXCEPT !.term = FALSE, !.worker_continue = FALSE]
             r == [proc[p] EXCEPT !.pc = "killed", !.term = FALSE]
  <2>1. /\ h \in ProcType /\ h.pc = proc[p].pc /\ h.k = proc[p].k /\ h.i = proc[p].i
        /\ h.off = proc[p].off
    BY <1>1 DEF ProcType
  <2>2. r \in ProcType /\ r.pc = "killed" /\ r.k = proc[p].k
    BY <1>1 DEF ProcType, Ended
  <2>3. \/ Set(p, h) /\ UNCHANGED lock
        \/ Set(p, Raised(h)) /\ UNCHANGED lock
        \/ Set(p, r) /\ Release(p)
    BY <1>3 DEF DeliverTerm
  <2> HIDE DEF h, r
  <2>4. CASE Set(p, h) /\ UNCHANGED lock
    BY <1>1, <1>2, <2>1, <2>4, OwnStep DEF ForkInv, LoopInv
  <2>5. CASE Set(p, Raised(h)) /\ UNCHANGED lock
    BY <1>1, <1>2, <2>1, <2>5, RaisedFields, OwnStep DEF Before, InWorker
  <2>6. CASE Set(p, r) /\ Release(p)
    BY <1>1, <1>2, <2>2, <2>6, OwnStep DEF Before, InWorker, Writing, Release
  <2> QED
    BY <2>3, <2>4, <2>5, <2>6
<1>4. CASE DeliverInt(p)
  <2> DEFINE h == [proc[p] EXCEPT !.int = FALSE]
             r == [proc[p] EXCEPT !.int = FALSE, !.pc = "raised"]
  <2>1. h \in ProcType /\ h.k = proc[p].k
    BY <1>1 DEF ProcType
  <2>2. r \in ProcType /\ r.pc = "raised" /\ r.k = proc[p].k
    BY <1>1 DEF ProcType, Ended
  <2>3. \/ proc[p].pc \in InWorker /\ Set(p, ForLoop(h, proc[p].i + 1)) /\ UNCHANGED lock
        \/ Set(p, r) /\ Release(p)
    BY <1>4 DEF DeliverInt
  <2> HIDE DEF h, r
  <2>4. CASE proc[p].pc \in InWorker /\ Set(p, ForLoop(h, proc[p].i + 1)) /\ UNCHANGED lock
    <3>1. proc[p].i + 1 \in 0..NWorkers
      BY <1>1, <2>4, ProcFacts DEF ForkInv, LoopInv
    <3> DEFINE n == ForLoop(h, proc[p].i + 1)
    <3>2. /\ n \in ProcType /\ n.pc \in {"fork", "sleep"} /\ n.k >= 1
          /\ n.pc = "fork" => n.i < NWorkers
      BY <1>1, <2>1, <3>1, ForLoopFields
    <3>3. Set(p, n)
      BY <2>4
    <3> HIDE DEF n
    <3> QED
      BY <1>1, <1>2, <2>4, <3>2, <3>3, OwnStep DEF Before, InWorker
  <2>5. CASE Set(p, r) /\ Release(p)
    BY <1>1, <1>2, <2>2, <2>5, OwnStep DEF Before, InWorker, Writing, Release
  <2> QED
    BY <2>3, <2>4, <2>5
<1> QED
  BY <1>3, <1>4

\* So does Control-C.
LEMMA ControlCStep == ASSUME ForkInv, ControlC PROVE ForkInv'
<1>1. ForkTypes /\ \A p \in Procs : proc[p].k >= 1
  BY DEF ForkInv, LoopInv
<1>2. ASSUME NEW p \in Procs
      PROVE  /\ proc'[p] \in ProcType /\ proc'[p].pc = proc[p].pc /\ proc'[p].i = proc[p].i
             /\ proc'[p].off = proc[p].off /\ proc'[p].k >= 1
  <2> DEFINE b == proc[p].int \/ Alive(p)
             r == [proc[p] EXCEPT !.int = b]
  <2>1. proc[p] \in ProcType /\ proc'[p] = r
    BY <1>1 DEF ForkTypes, ControlC
  <2>2. b \in BOOLEAN
    OBVIOUS
  <2> HIDE DEF b
  <2>3. r \in ProcType /\ r.pc = proc[p].pc /\ r.i = proc[p].i /\ r.off = proc[p].off /\ r.k = proc[p].k
    BY <2>1, <2>2 DEF ProcType
  <2> QED
    BY <1>1, <2>1, <2>3
<1>3. proc' \in [Procs -> ProcType]
  <2>1. \E f : f = proc' /\ f = [p \in Procs |-> f[p]]
    BY DEF ControlC
  <2> QED
    BY <1>2, <2>1
<1>4. ints' \in 0..MaxInts /\ UNCHANGED <<file, lock, unlinked, total, reaped, errs>>
  BY <1>1, ProcFacts DEF ForkTypes, ControlC
<1> QED
  BY <1>2, <1>3, <1>4, FlagStep

\* The invariant of pgfork.py is kept by every step.
LEMMA ForkNext == ASSUME ForkInv, [Next]_vars PROVE ForkInv'
<1>1. CASE UNCHANGED vars
  BY <1>1 DEF vars, ForkInv, ForkTypes, LockInv, FileInv, Distinct, LoopInv
<1>2. ASSUME NEW p \in Procs, Run(p) PROVE ForkInv'
  BY <1>2, ParentForkStep, ForkStep, KillStep, WorkerStep, WritingStep, WriteStep DEF Run
<1>3. ASSUME NEW p \in Procs, Error(p) \/ DeliverTerm(p) \/ DeliverInt(p) PROVE ForkInv'
  BY <1>3, ParentForkStep, SignalStep
<1> QED
  BY <1>1, <1>2, <1>3, ControlCStep DEF Next

\* pgfork.py keeps its invariant.
THEOREM ForkSpecInv == Spec => []ForkInv
BY ForkInit, ForkNext, PTL DEF Spec

\* The state of pgfork.py is in its types, whoever is killed or interrupted where; in
\* particular the result file never holds more lines than there are processes.
THEOREM ForkTypeCorrect == Spec => []TypeOK
<1>1. ASSUME ForkInv PROVE TypeOK
  <2>1. ForkTypes /\ Len(file) \in 0..MaxProcs /\ MaxProcs \in Nat
    BY <1>1, FileLen, ProcFacts DEF ForkInv, FileInv, ForkTypes
  <2>2. Len(file) <= MaxProcs
    BY <2>1
  <2> QED
    BY <2>1, <2>2, Zenon DEF ForkTypes, ProcType, TypeOK
<1> QED
  BY <1>1, ForkSpecInv, PTL

\* The flock() does its work: a worker that ended well has exactly one line in the
\* result file.
THEOREM LinesIntact == Spec => []ResultsIntact
<1>1. ASSUME ForkInv PROVE ResultsIntact
  <2> SUFFICES ASSUME NEW p \in Procs, proc[p].pc = "exit0"
               PROVE  Cardinality({j \in DOMAIN file : file[j] = p}) = 1
    BY DEF ResultsIntact, At
  <2>1. DOMAIN file = 1..Len(file) /\ Distinct(file)
    BY <1>1 DEF ForkInv, ForkTypes, FileInv
  <2>2. PICK j \in 1..Len(file) : file[j] = p
    BY <1>1 DEF ForkInv, FileInv
  <2>3. {i \in DOMAIN file : file[i] = p} = {j}
    BY <2>1, <2>2 DEF Distinct
  <2>4. Cardinality({j}) = 1
    BY FS_Singleton
  <2> QED
    BY <2>3, <2>4
<1> QED
  BY <1>1, ForkSpecInv, PTL

-----------------------------------------------------------------------------
(* pgfork.py without Control-C: the workers are the children of Main, and  *)
(* only Main is in run_parent().                                           *)

\* Where a process that was born can be.
Where(p) ==
    IF p = Main THEN {"connect", "fork", "x_kill", "killed", "raised", "done"} \cup InParent
    ELSE InWorker \cup {"x_kill", "exit0", "killed", "raised"}

CalmRec(p, r) ==
    /\ ~ r.int
    /\ \/ r.pc \in Where(p) /\ r.par = (IF p = Main THEN NoProc ELSE Main)
       \/ p # Main /\ r.pc = "unborn" /\ r.par = NoProc
    /\ r.pc \in InWorker \ {"w_start", "w_ready"} => r.handler

\* Nobody is waited for before he has ended; when Main reads the file it has waited for
\* all, so that what it reads is all that is ever written: a worker whose line is in the
\* file cannot be stopped any more.
CalmEnd ==
    /\ \A p \in reaped : proc[p].pc \in Ended
    /\ proc[Main].pc \in {"read", "done"} => \A p \in Procs : proc[p].par = Main => p \in reaped
    /\ \A j \in 1..Len(file) : proc[file[j]].pc \in {"w_unlock", "exit0"}
    /\ proc[Main].pc = "done" => total = Len(file)

Calm == ints = 0 => (\A p \in Procs : CalmRec(p, proc[p])) /\ CalmEnd

\* What the operators on records do to the fields that Calm is about.
LEMMA RecKeeps ==
    ASSUME NEW r \in ProcType
    PROVE  /\ \A l \in Labels : LET n == [r EXCEPT !.pc = l] IN
                n.par = r.par /\ (~ r.int => ~ n.int) /\ (r.handler => n.handler)
           /\ Raised(r).par = r.par /\ (~ r.int => ~ Raised(r).int)
           /\ \A j \in 0..NWorkers : ForLoop(r, j).par = r.par /\ (~ r.int => ~ ForLoop(r, j).int)
BY DEF ProcType, Labels, Raised, ForLoop

\* Who is where.
LEMMA CalmPlaces ==
    ASSUME Calm, ints = 0, NEW p \in Procs
    PROVE  /\ ~ proc[p].int
           /\ proc[p].pc \in {"connect", "fork"} \cup InParent => p = Main
           /\ proc[p].pc \in InWorker => p # Main
           /\ proc[p].pc \in InWorker \ {"w_start", "w_ready"} => proc[p].handler
BY DEF Calm, CalmRec, Where, InWorker, InParent

\* A process that changes only itself.
LEMMA CalmOwn ==
    ASSUME ForkInv, Calm, ints = 0, UNCHANGED <<file, total, reaped, ints>>,
           NEW p \in Procs, NEW r \in ProcType, Set(p, r), Alive(p),
           r.pc \in Where(p), r.par = proc[p].par, ~ r.int,
           r.pc \in InWorker \ {"w_start", "w_ready"} => r.handler,
           r.pc \in {"read", "done"} => r.pc = proc[p].pc,
           proc[p].pc = "w_unlock" => r.pc \in {"w_unlock", "exit0"}
    PROVE  Calm'
<1>1. /\ proc' \in [Procs -> ProcType] /\ proc'[p] = r
      /\ \A q \in Procs : q # p => proc'[q] = proc[q]
  BY SetKeeps DEF ForkInv
<1>2. /\ file \in Seq(Procs) /\ reaped \subseteq Procs /\ Main \in Procs
      /\ \A j \in 1..Len(file) : file[j] \in Procs
  BY ProcFacts DEF ForkInv, ForkTypes
<1>3. (\A q \in Procs : CalmRec(q, proc[q])) /\ CalmEnd
  BY DEF Calm
<1>4. ASSUME NEW q \in Procs PROVE CalmRec(q, proc'[q])
  <2>1. CASE q # p
    BY <1>1, <1>3, <2>1
  <2>2. CASE q = p
    <3>1. CalmRec(p, proc[p]) /\ proc[p].pc # "unborn"
      BY <1>3 DEF Alive
    <3> QED
      BY <1>1, <2>2, <3>1 DEF CalmRec
  <2> QED
    BY <2>1, <2>2
<1>5. proc[p].pc \notin Ended
  BY DEF Alive
<1>6. CalmEnd'
  <2>1. \A q \in reaped' : proc'[q].pc \in Ended
    BY <1>1, <1>2, <1>3, <1>5 DEF CalmEnd
  <2>2. ASSUME proc'[Main].pc \in {"read", "done"}
        PROVE  \A q \in Procs : proc'[q].par = Main => q \in reaped'
    <3>1. proc[Main].pc \in {"read", "done"}
      BY <1>1, <1>2, <2>2
    <3> QED
      BY <1>1, <1>3, <3>1 DEF CalmEnd
  <2>3. ASSUME NEW j \in 1..Len(file) PROVE proc'[file[j]].pc \in {"w_unlock", "exit0"}
    <3>1. file[j] \in Procs /\ proc[file[j]].pc \in {"w_unlock", "exit0"}
      BY <1>2, <1>3 DEF CalmEnd
    <3> QED
      BY <1>1, <1>5, <3>1 DEF Ended
  <2>4. proc'[Main].pc = "done" => total' = Len(file')
    BY <1>1, <1>2, <1>3 DEF CalmEnd
  <2> QED
    BY <2>1, <2>2, <2>3, <2>4 DEF CalmEnd
<1> QED
  BY <1>4, <1>6 DEF Calm

\* The invariant holds at the start.
LEMMA CalmInit == Init => Calm
<1> SUFFICES ASSUME Init PROVE Calm
  OBVIOUS
<1>1. ASSUME NEW p \in Procs PROVE CalmRec(p, proc[p])
  <2>1. /\ proc[p].pc = (IF p = Main THEN "connect" ELSE "unborn")
        /\ proc[p].par = NoProc /\ proc[p].int = FALSE
    BY DEF Init, Fresh
  <2> QED
    BY <2>1 DEF CalmRec, Where, InWorker
<1>2. file = <<>> /\ Len(file) = 0 /\ reaped = {} /\ proc[Main].pc = "connect"
  BY ProcFacts DEF Init, Fresh
<1>3. CalmEnd
  BY <1>2 DEF CalmEnd
<1> QED
  BY <1>1, <1>3 DEF Calm

\* A process that only goes on keeps it.
LEMMA CalmGoto ==
    ASSUME ForkInv, Calm, ints = 0, UNCHANGED <<file, total, reaped, ints>>,
           NEW p \in Procs, NEW l \in Labels, Goto(p, l), Alive(p), l \in Where(p),
           l \in InWorker \ {"w_start", "w_ready"} => proc[p].handler, l \notin {"read", "done"},
           proc[p].pc = "w_unlock" => l = "exit0"
    PROVE  Calm'
<1> DEFINE r == [proc[p] EXCEPT !.pc = l]
<1>1. proc[p] \in ProcType /\ ~ proc[p].int
  BY ProcFields, CalmPlaces DEF ForkInv
<1>2. r \in ProcType /\ r.pc = l /\ r.par = proc[p].par /\ ~ r.int /\ (proc[p].handler => r.handler)
  BY <1>1, GotoFields, RecKeeps
<1>3. Set(p, r)
  BY DEF Goto
<1> HIDE DEF r
<1> QED
  BY <1>2, <1>3, CalmOwn

\* So does an exception, but for one after the line was written, and there is none.
LEMMA CalmRaise ==
    ASSUME ForkInv, Calm, ints = 0, UNCHANGED <<file, total, reaped, ints>>,
           NEW p \in Procs, Set(p, Raised(proc[p])), Alive(p), proc[p].pc # "w_unlock"
    PROVE  Calm'
<1>1. proc[p] \in ProcType /\ ~ proc[p].int
  BY ProcFields, CalmPlaces DEF ForkInv
<1>2. /\ Raised(proc[p]) \in ProcType /\ Raised(proc[p]).pc = "x_kill"
      /\ Raised(proc[p]).par = proc[p].par /\ ~ Raised(proc[p]).int
  BY <1>1, RaisedFields, RecKeeps
<1> QED
  BY <1>2, CalmOwn DEF Where, InWorker

\* run_parent() and the errors, but for the fork, the signals, wait() and the file.
LEMMA CalmParent ==
    ASSUME ForkInv, Calm, ints = 0, ints' = 0, NEW p \in Procs,
           Connect(p) \/ Sleep(p) \/ Error(p)
    PROVE  Calm'
<1>1. proc[p] \in ProcType /\ ~ proc[p].int
  BY ProcFields, CalmPlaces DEF ForkInv
<1>2. CASE Connect(p)
  <2> DEFINE r == ForLoop(proc[p], 0)
  <2>1. /\ Set(p, r) /\ UNCHANGED <<file, total, reaped, ints>> /\ proc[p].pc = "connect"
        /\ p = Main /\ Alive(p)
    BY <1>2, CalmPlaces DEF Connect, shared, At, Alive, Ended
  <2>2. 0 \in 0..NWorkers
    BY ProcFacts
  <2>3. r \in ProcType /\ r.pc \in {"fork", "sleep"} /\ r.par = proc[p].par /\ ~ r.int
    BY <1>1, <2>2, ForLoopFields, RecKeeps
  <2> HIDE DEF r
  <2> QED
    BY <2>1, <2>3, CalmOwn DEF Where, InWorker, InParent
<1>3. CASE Sleep(p)
  <2> DEFINE r == [proc[p] EXCEPT !.pc = "kill", !.k = 1]
  <2>1. /\ Set(p, r) /\ UNCHANGED <<file, total, reaped, ints>> /\ proc[p].pc = "sleep"
        /\ p = Main /\ Alive(p)
    BY <1>3, CalmPlaces DEF Sleep, shared, At, Alive, Ended, InParent
  <2>2. r \in ProcType /\ r.pc = "kill" /\ r.par = proc[p].par /\ (~ proc[p].int => ~ r.int)
    BY <1>1 DEF ProcType, InParent
  <2> HIDE DEF r
  <2> QED
    BY <1>1, <2>1, <2>2, CalmOwn DEF Where, InWorker, InParent
<1>4. CASE Error(p)
  <2>1. /\ Set(p, Raised(proc[p])) /\ UNCHANGED <<file, total, reaped, ints>>
        /\ Alive(p) /\ proc[p].pc # "w_unlock"
    BY <1>4 DEF Error, Alive, Ended
  <2> QED
    BY <2>1, CalmRaise
<1> QED
  BY <1>2, <1>3, <1>4

\* do_worker(), but for the write.
LEMMA CalmWorker ==
    ASSUME ForkInv, Calm, ints = 0, ints' = 0, NEW p \in Procs,
           \/ WStart(p) \/ WHandle(p) \/ WConnect(p) \/ WWork(p) \/ WOpen(p)
           \/ WLock(p) \/ WSeek(p) \/ WUnlock(p)
    PROVE  Calm'
<1>1. /\ proc[p] \in ProcType /\ ~ proc[p].int
      /\ proc[p].pc \in InWorker \ {"w_start", "w_ready"} => proc[p].handler
  BY ProcFields, CalmPlaces DEF ForkInv
<1>2. /\ proc[p].pc \in InWorker /\ p # Main /\ Alive(p)
      /\ UNCHANGED <<file, total, reaped, ints>>
  <2>1. proc[p].pc \in InWorker
    BY DEF WStart, WHandle, WConnect, WWork, WOpen, WLock, WSeek, WUnlock, At, InWorker
  <2>2. UNCHANGED <<file, total, reaped, ints>>
    BY DEF WStart, WHandle, WConnect, WWork, WOpen, WLock, WSeek, WUnlock, shared
  <2> QED
    BY <2>1, <2>2, CalmPlaces DEF Alive, InWorker, Ended
<1>3. CASE WStart(p)
  <2> DEFINE r == [proc[p] EXCEPT !.pc = "w_ready", !.closed = TRUE]
  <2>1. proc[p].pc = "w_start" /\ Set(p, r)
    BY <1>3 DEF WStart, At
  <2>2. /\ r \in ProcType /\ r.pc = "w_ready" /\ r.par = proc[p].par
        /\ (~ proc[p].int => ~ r.int)
    BY <1>1 DEF ProcType, InWorker
  <2> HIDE DEF r
  <2> QED
    BY <1>1, <1>2, <2>1, <2>2, CalmOwn DEF Where, InWorker
<1>8. CASE WHandle(p)
  <2> DEFINE r == [proc[p] EXCEPT !.pc = "w_connect", !.worker_continue = TRUE, !.handler = TRUE]
  <2>1. proc[p].pc = "w_ready" /\ Set(p, r)
    BY <1>8 DEF WHandle, At
  <2>2. /\ r \in ProcType /\ r.pc = "w_connect" /\ r.par = proc[p].par
        /\ (~ proc[p].int => ~ r.int) /\ r.handler
    BY <1>1 DEF ProcType, InWorker
  <2> HIDE DEF r
  <2> QED
    BY <1>1, <1>2, <2>1, <2>2, CalmOwn DEF Where, InWorker
<1>4. CASE WSeek(p)
  <2> DEFINE r == [proc[p] EXCEPT !.pc = "w_write", !.off = Len(file)]
  <2>1. proc[p].pc = "w_seek" /\ Set(p, r)
    BY <1>4 DEF WSeek, At
  <2>2. /\ r \in ProcType /\ r.pc = "w_write" /\ r.par = proc[p].par
        /\ (~ proc[p].int => ~ r.int) /\ (proc[p].handler => r.handler)
    <3>1. Len(file) \in Nat
      BY DEF ForkInv, ForkTypes
    <3> QED
      BY <1>1, <3>1 DEF ProcType, InWorker
  <2>3. proc[p].handler
    BY <1>1, <2>1 DEF InWorker
  <2> HIDE DEF r
  <2> QED
    BY <1>1, <1>2, <2>1, <2>2, <2>3, CalmOwn DEF Where, InWorker
<1>5. CASE WConnect(p) \/ WWork(p) \/ WLock(p) \/ (WOpen(p) /\ ~ unlinked)
  <2>1. PICK l \in {"w_work", "w_open", "w_lock", "w_seek"} :
            Goto(p, l) /\ proc[p].pc \in InWorker \ {"w_start", "w_ready", "w_unlock"}
    BY <1>5 DEF WConnect, WWork, WLock, WOpen, At, InWorker
  <2> QED
    BY <1>1, <1>2, <2>1, CalmGoto DEF Where, InWorker, Labels
<1>6. CASE WOpen(p) /\ unlinked
  BY <1>2, <1>6, CalmRaise DEF WOpen, At, InWorker
<1>7. CASE WUnlock(p)
  <2>1. Goto(p, "exit0")
    BY <1>7 DEF WUnlock
  <2> QED
    BY <1>1, <1>2, <2>1, CalmGoto DEF Where, InWorker, Labels, Ended
<1> QED
  <2>1. WOpen(p) => (WOpen(p) /\ unlinked) \/ (WOpen(p) /\ ~ unlinked)
    BY Zenon
  <2> QED
    BY <1>3, <1>4, <1>5, <1>6, <1>7, <1>8, <2>1

\* When somebody writes, Main does not read yet.
LEMMA CalmWrite ==
    ASSUME ForkInv, Calm, ints = 0, ints' = 0, NEW p \in Procs, WWrite(p)
    PROVE  Calm'
<1> DEFINE r == [proc[p] EXCEPT !.pc = "w_unlock"]
<1>1. /\ proc[p] \in ProcType /\ ~ proc[p].int /\ proc[p].pc = "w_write" /\ p # Main
      /\ proc[p].handler /\ Main \in Procs /\ reaped \subseteq Procs
  BY ProcFields, CalmPlaces, ProcFacts DEF ForkInv, ForkTypes, WWrite, At, InWorker
<1>2. /\ r \in ProcType /\ r.pc = "w_unlock" /\ r.par = proc[p].par /\ ~ r.int
      /\ (proc[p].handler => r.handler)
  BY <1>1, GotoFields, RecKeeps DEF Labels, InWorker
<1>3. Set(p, r) /\ UNCHANGED <<total, reaped>>
  BY DEF WWrite, Goto
<1> HIDE DEF r
<1>4. /\ proc' \in [Procs -> ProcType] /\ proc'[p] = r
      /\ \A q \in Procs : q # p => proc'[q] = proc[q]
  BY <1>2, <1>3, SetKeeps DEF ForkInv
<1>5. /\ \A q \in Procs : CalmRec(q, proc[q])
      /\ CalmEnd /\ p \notin reaped /\ proc[p].par = Main
  <2>1. (\A q \in Procs : CalmRec(q, proc[q])) /\ CalmEnd
    BY DEF Calm
  <2>2. CalmRec(p, proc[p])
    BY <2>1
  <2> QED
    BY <1>1, <2>1, <2>2 DEF CalmEnd, CalmRec, Ended
<1>6. \A q \in Procs : CalmRec(q, proc'[q])
  BY <1>1, <1>2, <1>4, <1>5 DEF CalmRec, Where, InWorker
<1>7. /\ file' \in Seq(Procs) /\ Len(file') = Len(file) + 1 /\ Len(file) \in Nat
      /\ \A j \in 1..Len(file) : file'[j] = file[j] /\ file[j] \in Procs
      /\ file'[Len(file) + 1] = p
  BY WriteAppends DEF ForkInv, ForkTypes
<1>8. proc'[Main].pc \notin {"read", "done"}
  BY <1>1, <1>4, <1>5 DEF CalmEnd
<1>9. CalmEnd'
  <2>1. \A q \in reaped' : proc'[q].pc \in Ended
    BY <1>1, <1>3, <1>4, <1>5 DEF CalmEnd
  <2>2. ASSUME NEW j \in 1..Len(file') PROVE proc'[file'[j]].pc \in {"w_unlock", "exit0"}
    <3>1. CASE j = Len(file) + 1
      BY <1>2, <1>4, <1>7, <3>1
    <3>2. CASE j \in 1..Len(file)
      BY <1>2, <1>4, <1>5, <1>7, <3>2 DEF CalmEnd
    <3> QED
      BY <1>7, <3>1, <3>2
  <2> QED
    BY <1>8, <2>1, <2>2 DEF CalmEnd
<1> QED
  BY <1>6, <1>9 DEF Calm

\* A child that is forked has Main for its parent.
LEMMA CalmFork ==
    ASSUME ForkInv, Calm, ints = 0, ints' = 0, NEW p \in Procs, Fork(p)
    PROVE  Calm'
<1>1. PICK q \in Procs :
        /\ At(q, "unborn")
        /\ proc' = [proc EXCEPT
             ![p] = ForLoop([proc[p] EXCEPT !.pids = Append(@, q)], proc[p].i + 1),
             ![q] = [proc[p] EXCEPT !.pc = "w_start", !.par = p, !.term = FALSE, !.int = FALSE]]
  BY DEF Fork
<1>2. /\ proc[p].pc = "fork" /\ proc[q].pc = "unborn" /\ UNCHANGED <<file, total, reaped>>
  BY <1>1 DEF Fork, At, shared
<1>3. /\ proc[p] \in ProcType /\ proc[p].i \in 0..NWorkers /\ proc[p].pids \in Seq(Procs)
      /\ ForkTypes /\ proc[p].i < NWorkers /\ ~ proc[p].int /\ p = Main
  BY <1>2, ProcFields, CalmPlaces DEF ForkInv, LoopInv
<1>4. (\A x \in Procs : CalmRec(x, proc[x])) /\ CalmEnd
  BY DEF Calm
<1> DEFINE m == [proc[p] EXCEPT !.pids = Append(@, q)]
           r == ForLoop(m, proc[p].i + 1)
           c == [proc[p] EXCEPT !.pc = "w_start", !.par = p, !.term = FALSE, !.int = FALSE]
<1>5. m \in ProcType /\ m.par = proc[p].par /\ (~ proc[p].int => ~ m.int)
  <2>1. Append(proc[p].pids, q) \in Seq(Procs)
    BY <1>3
  <2> QED
    BY <1>3, <2>1 DEF ProcType
<1>6. r \in ProcType /\ r.pc \in {"fork", "sleep"} /\ r.par = proc[p].par /\ ~ r.int
  <2>1. proc[p].i + 1 \in 0..NWorkers
    BY <1>3, ProcFacts
  <2> HIDE DEF m
  <2> QED
    BY <1>3, <1>5, <2>1, ForLoopFields, RecKeeps
<1>7. c \in ProcType /\ c.pc = "w_start" /\ c.par = p /\ ~ c.int
  BY <1>3 DEF ProcType, InWorker
<1>8. /\ proc'[p] = r /\ proc'[q] = c /\ q # Main
      /\ \A x \in Procs : x # p /\ x # q => proc'[x] = proc[x]
  <2>1. proc' = [proc EXCEPT ![p] = r, ![q] = c]
    BY <1>1
  <2> HIDE DEF r, c
  <2> QED
    BY <1>2, <1>3, <1>6, <1>7, <2>1 DEF ForkTypes
<1> HIDE DEF r, c
<1>9. ASSUME NEW x \in Procs PROVE CalmRec(x, proc'[x])
  <2>1. CASE x = p
    <3>1. CalmRec(p, proc[p])
      BY <1>4
    <3> QED
      BY <1>2, <1>3, <1>6, <1>8, <2>1, <3>1 DEF CalmRec, Where, InWorker, InParent
  <2>2. CASE x = q
    BY <1>3, <1>7, <1>8, <2>2 DEF CalmRec, Where, InWorker
  <2>3. CASE x # p /\ x # q
    BY <1>4, <1>8, <2>3
  <2> QED
    BY <2>1, <2>2, <2>3
<1>10. /\ reaped \subseteq Procs /\ p \notin reaped /\ q \notin reaped
       /\ \A j \in 1..Len(file) : file[j] \in Procs \ {p, q}
  BY <1>2, <1>3, <1>4 DEF CalmEnd, ForkTypes, Ended
<1>11. CalmEnd'
  <2>1. \A x \in reaped' : proc'[x].pc \in Ended
    BY <1>2, <1>4, <1>8, <1>10 DEF CalmEnd
  <2>2. ASSUME NEW j \in 1..Len(file) PROVE proc'[file[j]].pc \in {"w_unlock", "exit0"}
    BY <1>4, <1>8, <1>10 DEF CalmEnd
  <2>3. proc'[Main].pc \notin {"read", "done"}
    BY <1>3, <1>6, <1>8
  <2> QED
    BY <1>2, <2>1, <2>2, <2>3 DEF CalmEnd
<1> QED
  BY <1>9, <1>11 DEF Calm

\* A signal that is sent changes neither where anybody is nor who waits for whom.
LEMMA CalmKill ==
    ASSUME ForkInv, Calm, ints = 0, ints' = 0, NEW p \in Procs, Kill(p)
    PROVE  Calm'
<1>1. /\ proc[p] \in ProcType /\ proc[p].pids \in Seq(Procs) /\ proc[p].k \in Nat
      /\ proc[p].k >= 1 /\ ForkTypes /\ Main \in Procs
  BY ProcFields, ProcFacts DEF ForkInv, LoopInv
<1>2. /\ UNCHANGED <<file, total, reaped>> /\ ints' = ints
      /\ proc[p].pc \in {"kill", "x_kill"} /\ Alive(p)
      /\ proc[p].pc = "kill" => p = Main
  BY CalmPlaces DEF Kill, Alive, Ended, InParent
<1>3. CASE Goto(p, "wait") /\ At(p, "kill")
  BY <1>2, <1>3, CalmGoto DEF Labels, InParent, InWorker, Where, At
<1>4. CASE Goto(p, "raised")
  BY <1>2, <1>4, CalmGoto DEF Labels, Ended, InWorker, Where
<1>5. CASE /\ proc[p].k <= Len(proc[p].pids)
           /\ proc' = [proc EXCEPT ![p].k = proc[p].k + 1, ![proc[p].pids[proc[p].k]].term = TRUE]
  <2> DEFINE q == proc[p].pids[proc[p].k]
             r == [proc[p] EXCEPT !.k = proc[p].k + 1]
             f == [proc EXCEPT ![p] = r]
             c == [f[q] EXCEPT !.term = TRUE]
  <2>1. q \in Procs
    BY <1>1, <1>5
  <2>2. /\ r \in ProcType /\ r.pc = proc[p].pc /\ r.par = proc[p].par
        /\ (~ proc[p].int => ~ r.int) /\ (proc[p].handler => r.handler)
    BY <1>1 DEF ProcType
  <2>3. proc' = [f EXCEPT ![q] = c]
    BY <1>1, <1>5 DEF ForkTypes
  <2> HIDE DEF r, q
  <2>4. /\ f \in [Procs -> ProcType]
        /\ \A x \in Procs : /\ f[x].pc = proc[x].pc /\ f[x].par = proc[x].par
                            /\ (~ proc[x].int => ~ f[x].int) /\ (proc[x].handler => f[x].handler)
    BY <1>1, <2>2 DEF ForkTypes
  <2> HIDE DEF f
  <2>5. /\ c \in ProcType /\ c.pc = f[q].pc /\ c.par = f[q].par
        /\ (~ f[q].int => ~ c.int) /\ (f[q].handler => c.handler)
    BY <2>1, <2>4 DEF ProcType
  <2> HIDE DEF c
  <2>6. \A x \in Procs : /\ proc'[x].pc = proc[x].pc /\ proc'[x].par = proc[x].par
                         /\ (~ proc[x].int => ~ proc'[x].int)
                         /\ (proc[x].handler => proc'[x].handler)
    BY <2>1, <2>3, <2>4, <2>5
  <2>7. /\ (\A x \in Procs : CalmRec(x, proc[x])) /\ CalmEnd /\ reaped \subseteq Procs
        /\ \A j \in 1..Len(file) : file[j] \in Procs
    BY <1>1 DEF Calm, ForkTypes
  <2>8. \A x \in Procs : CalmRec(x, proc'[x])
    BY <2>6, <2>7 DEF CalmRec
  <2>9. CalmEnd'
    BY <1>1, <1>2, <2>6, <2>7 DEF CalmEnd
  <2> QED
    BY <2>8, <2>9 DEF Calm
<1> QED
  BY <1>1, <1>3, <1>4, <1>5 DEF Kill

\* os.wait() reaps only who has ended, and ends when there is nobody left.
LEMMA CalmWait ==
    ASSUME ForkInv, Calm, ints = 0, ints' = 0, NEW p \in Procs, Wait(p)
    PROVE  Calm'
<1>1. /\ p = Main /\ proc[p].pc = "wait" /\ proc[p] \in ProcType /\ ~ proc[p].int
      /\ UNCHANGED <<file, total>> /\ Main \in Procs /\ ForkTypes /\ reaped \subseteq Procs
      /\ \A j \in 1..Len(file) : file[j] \in Procs
  <2>1. proc[p].pc = "wait" /\ UNCHANGED <<file, total>>
    BY DEF Wait, At
  <2>2. /\ ForkTypes /\ reaped \subseteq Procs /\ proc[p] \in ProcType
        /\ \A j \in 1..Len(file) : file[j] \in Procs
    BY DEF ForkInv, ForkTypes
  <2> QED
    BY <2>1, <2>2, CalmPlaces, ProcFacts DEF InParent
<1>2. (\A x \in Procs : CalmRec(x, proc[x])) /\ CalmEnd
  BY DEF Calm
<1>3. CASE /\ \A q \in Procs \ reaped : proc[q].par # p
           /\ Goto(p, "read") /\ UNCHANGED reaped
  <2> DEFINE r == [proc[p] EXCEPT !.pc = "read"]
  <2>1. r \in ProcType /\ r.pc = "read" /\ r.par = proc[p].par /\ ~ r.int
    BY <1>1, GotoFields, RecKeeps DEF Labels, InParent
  <2>2. Set(p, r)
    BY <1>3 DEF Goto
  <2> HIDE DEF r
  <2>3. /\ proc'[p] = r
        /\ \A q \in Procs : q # p => proc'[q] = proc[q]
    BY <1>1, <2>1, <2>2, SetKeeps
  <2>4. ASSUME NEW x \in Procs PROVE CalmRec(x, proc'[x])
    <3>1. CalmRec(x, proc[x])
      BY <1>2
    <3> QED
      BY <1>1, <2>1, <2>3, <3>1 DEF CalmRec, Where, InWorker, InParent
  <2>5. p \notin reaped /\ \A j \in 1..Len(file) : file[j] # p
    BY <1>1, <1>2 DEF CalmEnd, Ended
  <2>6. CalmEnd'
    BY <1>1, <1>2, <1>3, <2>1, <2>3, <2>5 DEF CalmEnd
  <2> QED
    BY <2>4, <2>6 DEF Calm
<1>4. CASE \E q \in Procs \ reaped : /\ proc[q].par = p /\ ~ Alive(q) /\ reaped' = reaped \cup {q}
                                     /\ UNCHANGED proc
  <2>1. PICK q \in Procs : proc[q].par = p /\ ~ Alive(q) /\ reaped' = reaped \cup {q} /\ UNCHANGED proc
    BY <1>4
  <2>2. proc[q].pc \in Ended
    <3>1. CalmRec(q, proc[q]) /\ Main # NoProc
      BY <1>2 DEF Main, NoProc
    <3>2. proc[q].pc # "unborn"
      BY <1>1, <2>1, <3>1 DEF CalmRec, Where, InWorker
    <3> QED
      BY <2>1, <3>2 DEF Alive
  <2>3. CalmEnd'
    BY <1>1, <1>2, <2>1, <2>2 DEF CalmEnd
  <2> QED
    BY <1>2, <2>1, <2>3 DEF Calm
<1> QED
  BY <1>3, <1>4 DEF Wait

\* Main adds up the file.
LEMMA CalmRead ==
    ASSUME ForkInv, Calm, ints = 0, ints' = 0, NEW p \in Procs, Read(p)
    PROVE  Calm'
<1>1. /\ p = Main /\ proc[p].pc = "read" /\ proc[p] \in ProcType /\ ~ proc[p].int /\ Alive(p)
      /\ UNCHANGED <<file, reaped>> /\ Main \in Procs /\ ForkTypes /\ reaped \subseteq Procs
      /\ \A j \in 1..Len(file) : file[j] \in Procs
  <2>1. proc[p].pc = "read" /\ UNCHANGED <<file, reaped>>
    BY DEF Read, At
  <2>2. /\ ForkTypes /\ reaped \subseteq Procs /\ proc[p] \in ProcType
        /\ \A j \in 1..Len(file) : file[j] \in Procs
    BY DEF ForkInv, ForkTypes
  <2> QED
    BY <2>1, <2>2, CalmPlaces, ProcFacts DEF InParent, Alive, Ended
<1>2. (\A x \in Procs : CalmRec(x, proc[x])) /\ CalmEnd
  BY DEF Calm
<1>3. CASE Set(p, Raised(proc[p])) /\ UNCHANGED <<total, unlinked>>
  BY <1>1, <1>3, CalmRaise
<1>4. CASE Goto(p, "done") /\ total' = Len(file)
  <2> DEFINE r == [proc[p] EXCEPT !.pc = "done"]
  <2>1. r \in ProcType /\ r.pc = "done" /\ r.par = proc[p].par /\ ~ r.int
    BY <1>1, GotoFields, RecKeeps DEF Labels, Ended
  <2>2. Set(p, r)
    BY <1>4 DEF Goto
  <2> HIDE DEF r
  <2>3. /\ proc'[p] = r
        /\ \A q \in Procs : q # p => proc'[q] = proc[q]
    BY <1>1, <2>1, <2>2, SetKeeps
  <2>4. ASSUME NEW x \in Procs PROVE CalmRec(x, proc'[x])
    <3>1. CalmRec(x, proc[x])
      BY <1>2
    <3> QED
      BY <1>1, <2>1, <2>3, <3>1 DEF CalmRec, Where, InWorker, InParent
  <2>5. p \notin reaped /\ \A j \in 1..Len(file) : file[j] # p
    BY <1>1, <1>2 DEF CalmEnd, Ended
  <2>6. CalmEnd'
    BY <1>1, <1>2, <1>4, <2>1, <2>3, <2>5 DEF CalmEnd
  <2> QED
    BY <2>4, <2>6 DEF Calm
<1> QED
  BY <1>3, <1>4 DEF Read

\* SIGTERM stops nobody who has written, because he has a handler.
LEMMA CalmTerm ==
    ASSUME ForkInv, Calm, ints = 0, ints' = 0, NEW p \in Procs, DeliverTerm(p)
    PROVE  Calm'
<1>1. /\ proc[p] \in ProcType /\ ~ proc[p].int /\ Alive(p) /\ ForkTypes
      /\ UNCHANGED <<file, total, reaped, ints>>
      /\ proc[p].pc \in InWorker \ {"w_start", "w_ready"} => proc[p].handler
  BY CalmPlaces, ProcFields DEF DeliverTerm, ForkInv
<1>2. proc[p].pc \in Where(p)
  <2>1. CalmRec(p, proc[p])
    BY DEF Calm
  <2> QED
    BY <1>1, <2>1 DEF CalmRec, Alive
<1> DEFINE h == [proc[p] EXCEPT !.term = FALSE, !.worker_continue = FALSE]
           r == [proc[p] EXCEPT !.pc = "killed", !.term = FALSE]
<1>3. /\ h \in ProcType /\ h.pc = proc[p].pc /\ h.par = proc[p].par
      /\ (~ proc[p].int => ~ h.int) /\ (proc[p].handler => h.handler)
  BY <1>1 DEF ProcType
<1>4. r \in ProcType /\ r.pc = "killed" /\ r.par = proc[p].par /\ (~ proc[p].int => ~ r.int)
  BY <1>1 DEF ProcType, Ended
<1>5. \/ Set(p, h)
      \/ Set(p, Raised(h)) /\ proc[p].pc \in {"sleep", "wait", "w_lock"}
      \/ Set(p, r) /\ ~ proc[p].handler
  BY DEF DeliverTerm, At
<1> HIDE DEF h, r
<1>6. CASE Set(p, h)
  BY <1>1, <1>2, <1>3, <1>6, CalmOwn
<1>7. CASE Set(p, Raised(h)) /\ proc[p].pc \in {"sleep", "wait", "w_lock"}
  <2>1. /\ Raised(h) \in ProcType /\ Raised(h).pc = "x_kill" /\ Raised(h).par = proc[p].par
        /\ ~ Raised(h).int
    BY <1>1, <1>3, RaisedFields, RecKeeps
  <2> QED
    BY <1>1, <1>7, <2>1, CalmOwn DEF Where, InWorker
<1>8. CASE Set(p, r) /\ ~ proc[p].handler
  BY <1>1, <1>4, <1>8, CalmOwn DEF Where, InWorker
<1> QED
  BY <1>5, <1>6, <1>7, <1>8

\* Every step keeps it; the first Control-C ends it.
LEMMA CalmNext == ASSUME ForkInv, Calm, [Next]_vars PROVE Calm'
<1>1. ints \in Nat /\ ints' \in Nat /\ (ints' = 0 => ints = 0)
  <2>1. ints \in Nat /\ (ints' = ints \/ ints' = ints + 1)
    <3>1. ints \in 0..MaxInts /\ MaxInts \in Nat
      BY ProcFacts DEF ForkInv, ForkTypes
    <3>2. ASSUME NEW p \in Procs, Run(p) PROVE ints' = ints
      BY <3>2 DEF Run, Connect, Fork, Sleep, Kill, Wait, Read, WStart, WHandle, WConnect, WWork, WOpen, WLock,
            WSeek, WWrite, WUnlock, shared
    <3>3. ASSUME NEW p \in Procs, Error(p) \/ DeliverTerm(p) \/ DeliverInt(p) PROVE ints' = ints
      BY <3>3 DEF Error, DeliverTerm, DeliverInt
    <3> QED
      BY <3>1, <3>2, <3>3 DEF Next, ControlC, vars
  <2> QED
    BY <2>1
<1>2. CASE ints' # 0
  BY <1>2 DEF Calm
<1>3. CASE ints = 0 /\ ints' = 0
  <2>1. CASE UNCHANGED vars
    BY <2>1 DEF vars, Calm, CalmEnd
  <2>2. ASSUME NEW p \in Procs, Run(p) PROVE Calm'
    BY <1>3, <2>2, CalmParent, CalmFork, CalmKill, CalmWait, CalmRead, CalmWorker, CalmWrite DEF Run
  <2>3. ASSUME NEW p \in Procs, Error(p) \/ DeliverTerm(p) \/ DeliverInt(p) PROVE Calm'
    <3>1. ~ DeliverInt(p)
      BY <1>3, CalmPlaces DEF DeliverInt
    <3> QED
      BY <1>3, <2>3, <3>1, CalmParent, CalmTerm
  <2>4. ~ ControlC
    BY <1>3 DEF ControlC
  <2> QED
    BY <2>1, <2>2, <2>3, <2>4 DEF Next
<1> QED
  BY <1>1, <1>2, <1>3

\* Without Control-C, Main prints the number of workers that ended well, and by then
\* nobody runs any more.
THEOREM EverybodyCounted == Spec => []CountsEveryone
<1>1. ASSUME ForkInv, Calm PROVE CountsEveryone
  <2> SUFFICES ASSUME proc[Main].pc = "done", ints = 0
               PROVE  /\ total = Cardinality({p \in Procs : At(p, "exit0")})
                      /\ \A p \in Procs : ~ Alive(p)
    BY DEF CountsEveryone, At
  <2>1. (\A p \in Procs : CalmRec(p, proc[p])) /\ CalmEnd
    BY <1>1 DEF Calm
  <2>2. ASSUME NEW p \in Procs PROVE proc[p].pc \in Ended \cup {"unborn"}
    <3>1. CalmRec(p, proc[p])
      BY <2>1
    <3>2. CASE p = Main \/ proc[p].pc = "unborn"
      BY <3>2 DEF Ended
    <3>3. CASE p # Main /\ proc[p].pc # "unborn"
      BY <2>1, <3>1, <3>3 DEF CalmRec, CalmEnd
    <3> QED
      BY <3>2, <3>3
  <2>3. \A p \in Procs : ~ Alive(p)
    BY <2>2 DEF Alive
  <2> DEFINE good == {p \in Procs : At(p, "exit0")}
  <2>4. total = Len(file) /\ Len(file) \in Nat /\ file \in [1..Len(file) -> Procs] /\ Distinct(file)
    BY <1>1, <2>1 DEF CalmEnd, ForkInv, ForkTypes, FileInv
  <2>5. \A j \in 1..Len(file) : file[j] \in good
    BY <2>1, <2>2, <2>4 DEF CalmEnd, Ended, At
  <2>6. \A p \in good : \E j \in 1..Len(file) : file[j] = p
    BY <1>1 DEF ForkInv, FileInv, At
  <2>7. file \in Bijection(1..Len(file), good)
    <3> HIDE DEF good
    <3> QED
      BY <2>4, <2>5, <2>6 DEF Distinct, Bijection, Injection, Surjection, IsInjective
  <2>8. IsFiniteSet(1..Len(file)) /\ Cardinality(1..Len(file)) = Len(file)
    <3>1. PICK n \in Nat : n = Len(file)
      BY <2>4
    <3>2. IsFiniteSet(1..n) /\ Cardinality(1..n) = n
      BY FS_Interval
    <3> QED
      BY <3>1, <3>2
  <2>9. Cardinality(good) = Len(file)
    <3> HIDE DEF good
    <3>1. ExistsBijection(1..Len(file), good)
      BY <2>7 DEF ExistsBijection
    <3> QED
      BY <2>8, <3>1, FS_Bijection
  <2> QED
    BY <2>3, <2>4, <2>9
<1>2. Spec => []Calm
  BY CalmInit, CalmNext, ForkSpecInv, PTL DEF Spec
<1> QED
  BY <1>1, <1>2, ForkSpecInv, PTL

-----------------------------------------------------------------------------
(* concurrent_tx.py.                                                       *)

\* Behind the barrier: it is open, and open means that everybody came.
BehindBarrier ==
    /\ barrier = "open" => waiting = Everyone
    /\ \A w \in Workers : wpc[w] \in {"execute", "commit", "send", "exit"} => barrier = "open"

\* A transaction that has inserted the row holds it until it ends.
HoldsRow == \A w \in Workers : wpc[w] = "commit" => row = w

TxInv == TxTypeOK /\ BehindBarrier /\ HoldsRow /\ OneWinner

-----------------------------------------------------------------------------
\* Workers are positive numbers, unlike the marks of the row and the parent.
LEMMA TxNumbers ==
    /\ Row \notin Workers /\ NoRow \notin Workers /\ Row # NoRow
    /\ NWorkers \in Nat /\ MaxErrors \in Nat
BY WorkerPoolAssumption, PgForkAssumption DEF Row, NoRow, Workers

\* The invariant holds at the start.
LEMMA TxInitInv == TxInit => TxInv
BY TxNumbers DEF TxInit, TxInv, TxTypeOK, BehindBarrier, HoldsRow, OneWinner, WorkerEnded

\* A party that comes to the barrier leaves its types right, and opens it only
\* when it is the last.
LEMMA ArriveKeeps ==
    ASSUME NEW x \in Everyone, waiting \subseteq Everyone, Arrive(x)
    PROVE  /\ waiting' \subseteq Everyone /\ barrier' \in {"filling", "open"}
           /\ barrier = "filling" /\ (barrier' = "open" => waiting' = Everyone)
BY DEF Arrive

\* The parent and the timeout keep it.
LEMMA TxMainStep == ASSUME TxInv, TxMain \/ BarrierTimeout PROVE TxInv'
<1> USE DEF TxInv
<1>1. CASE BarrierTimeout
  BY <1>1 DEF BarrierTimeout, TxTypeOK, BehindBarrier, HoldsRow, OneWinner
<1>2. CASE PSetup
  BY <1>2 DEF PSetup, WorkersSame, TxTypeOK, BehindBarrier, HoldsRow, OneWinner
<1>3. CASE TxStart
  <2>1. PICK w \in Workers : /\ wpc' = [wpc EXCEPT ![w] = "connect"]
                             /\ main_pc' = IF w < NWorkers THEN "start" ELSE "barrier"
    BY <1>3 DEF TxStart, WGoto
  <2>2. UNCHANGED <<outcome, row, owner, failures, sent, read, waiting, barrier>>
    BY <1>3 DEF TxStart, WorkersSame
  <2> QED
    BY <2>1, <2>2 DEF TxTypeOK, BehindBarrier, HoldsRow, OneWinner
<1>4. CASE PBarrier
  <2>1. UNCHANGED <<wpc, outcome, row, owner, failures, sent, read>>
    BY <1>4 DEF PBarrier, WorkersSame
  <2>2. /\ waiting' \subseteq Everyone /\ barrier' \in {"filling", "open", "broken"}
        /\ main_pc' \in {"raised", "at_barrier"}
        /\ UNCHANGED <<waiting, barrier>> \/ barrier = "filling"
        /\ barrier' = "open" => waiting' = Everyone
    <3>1. MainParty \in Everyone
      BY DEF Everyone
    <3> QED
      BY <1>4, <3>1, ArriveKeeps DEF PBarrier, TxTypeOK, BehindBarrier
  <2> QED
    BY <2>1, <2>2 DEF TxTypeOK, BehindBarrier, HoldsRow, OneWinner
<1>5. CASE PReleased
  BY <1>5 DEF PReleased, WorkersSame, TxTypeOK, BehindBarrier, HoldsRow, OneWinner
<1>6. CASE PGetResult
  <2>1. read + 1 \in Workers
    BY <1>6 DEF PGetResult, TxTypeOK
  <2> QED
    BY <1>6, <2>1, TxNumbers
    DEF PGetResult, WorkersSame, Workers, TxTypeOK, BehindBarrier, HoldsRow, OneWinner
<1>7. CASE TxJoin
  BY <1>7 DEF TxJoin, WorkersSame, TxTypeOK, BehindBarrier, HoldsRow, OneWinner
<1> QED
  BY <1>1, <1>2, <1>3, <1>4, <1>5, <1>6, <1>7 DEF TxMain

\* The workers keep it.
LEMMA TxWorkerStep ==
    ASSUME TxInv, NEW w \in Workers, Worker(w) \/ WFails(w) \/ WExecuteRaises(w)
    PROVE  TxInv'
<1> USE TxNumbers DEF TxInv, WGoto, MainSame
<1>1. CASE TxConnect(w)
  BY <1>1 DEF TxConnect, TxTypeOK, BehindBarrier, HoldsRow, OneWinner
<1>2. CASE WBarrier(w)
  <2>1. UNCHANGED <<main_pc, read, outcome, sent, row, owner, failures>>
    BY <1>2 DEF WBarrier
  <2>2. /\ waiting' \subseteq Everyone /\ barrier' \in {"filling", "open", "broken"}
        /\ UNCHANGED <<waiting, barrier>> \/ barrier = "filling"
        /\ barrier' = "open" => waiting' = Everyone
    <3>1. w \in Everyone
      BY DEF Everyone
    <3> QED
      BY <1>2, <3>1, ArriveKeeps DEF WBarrier, TxTypeOK, BehindBarrier
  <2>3. PICK l \in {"raised", "at_barrier"} : wpc' = [wpc EXCEPT ![w] = l]
    BY <1>2 DEF WBarrier
  <2> QED
    BY <2>1, <2>2, <2>3 DEF TxTypeOK, BehindBarrier, HoldsRow, OneWinner, WorkerEnded
<1>3. CASE WReleased(w)
  BY <1>3 DEF WReleased, TxTypeOK, BehindBarrier, HoldsRow, OneWinner, WorkerEnded
<1>4. CASE WExecute(w)
  <2>1. UNCHANGED <<main_pc, read, sent, waiting, barrier, owner, failures>> /\ wpc[w] = "execute"
    BY <1>4 DEF WExecute
  <2>2. CASE row = NoRow /\ row' = w /\ wpc' = [wpc EXCEPT ![w] = "commit"] /\ UNCHANGED outcome
    BY <2>1, <2>2 DEF TxTypeOK, BehindBarrier, HoldsRow, OneWinner
  <2>3. CASE /\ row = Row /\ outcome' = [outcome EXCEPT ![w] = "exception"]
             /\ wpc' = [wpc EXCEPT ![w] = "send"] /\ UNCHANGED row
    BY <2>1, <2>3 DEF TxTypeOK, BehindBarrier, HoldsRow, OneWinner
  <2> QED
    BY <1>4, <2>2, <2>3 DEF WExecute
<1>5. CASE WCommit(w)
  BY <1>5 DEF WCommit, TxTypeOK, BehindBarrier, HoldsRow, OneWinner
<1>6. CASE WSend(w)
  BY <1>6 DEF WSend, TxTypeOK, BehindBarrier, HoldsRow, OneWinner, WorkerEnded
<1>7. CASE WFails(w)
  BY <1>7 DEF WFails, TxTypeOK, BehindBarrier, HoldsRow, OneWinner, WorkerEnded
<1>8. CASE WExecuteRaises(w)
  BY <1>8 DEF WExecuteRaises, TxTypeOK, BehindBarrier, HoldsRow, OneWinner, WorkerEnded
<1> QED
  BY <1>1, <1>2, <1>3, <1>4, <1>5, <1>6, <1>7, <1>8 DEF Worker

\* The invariant of concurrent_tx.py holds of it.
LEMMA TxSpecInv == TxSpec => []TxInv
<1>1. TxInv /\ [TxNext]_tx_vars => TxInv'
  <2>1. ASSUME TxInv, TxNext PROVE TxInv'
    BY <2>1, TxMainStep, TxWorkerStep DEF TxNext
  <2>2. ASSUME TxInv, UNCHANGED tx_vars PROVE TxInv'
    BY <2>2 DEF tx_vars, TxInv, TxTypeOK, BehindBarrier, HoldsRow, OneWinner
  <2> QED
    BY <2>1, <2>2
<1> QED
  BY <1>1, TxInitInv, PTL DEF TxSpec

-----------------------------------------------------------------------------
\* The types are kept, for any number of workers.
THEOREM TxTypeCorrect == TxSpec => []TxTypeOK
BY TxSpecInv, PTL DEF TxInv

\* For any number of workers, and wherever the barrier's timeout and failures
\* strike, no test starts before everybody is at the barrier.
THEOREM FairRace == TxSpec => []RaceIsFair
<1>1. TxInv => RaceIsFair
  BY DEF TxInv, BehindBarrier, RaceIsFair
<1> QED
  BY <1>1, TxSpecInv, PTL

\* For any number of workers only the one whose row is in the table is told that
\* its insert succeeded.
THEOREM SingleWinner == TxSpec => []OneWinner
BY TxSpecInv, PTL DEF TxInv

=============================================================================

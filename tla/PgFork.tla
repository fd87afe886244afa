------------------------------- MODULE PgFork -------------------------------
(***************************************************************************)
(* scripts/pg_forktest/pgfork.py: run_parent() forks workers, lets them    *)
(* query the database for a while, stops them with SIGTERM, waits for all  *)
(* of them and adds up what they have written to a shared result file.     *)
(*                                                                         *)
(* A forked worker is still inside run_parent()'s loop: it has a copy of   *)
(* the parent's variables, and what do_worker() raises travels through the *)
(* parent's code.  So every process is modelled as running the whole       *)
(* script, and a worker is a process that is inside do_worker().  Signals  *)
(* are delivered between any two steps.  It is Python 2: system calls that *)
(* a handled signal interrupts raise, and the traceback of a caught        *)
(* exception keeps do_worker()'s locals, the open file among them, alive.  *)
(***************************************************************************)
EXTENDS WorkerPool, Sequences, FiniteSets

CONSTANTS
    MaxProcs,   \* bound on the processes there can be
    MaxInts     \* bound on Control-C at the terminal

ASSUME PgForkAssumption ==
    MaxProcs \in Nat /\ MaxProcs > NWorkers /\ MaxInts \in Nat

Procs == 1..MaxProcs
Main == 1
NoProc == 0

InWorker == {"w_start", "w_ready", "w_connect", "w_work", "w_open", "w_lock", "w_seek", "w_write", "w_unlock"}
InParent == {"sleep", "kill", "wait", "read"}
Ended == {"exit0", "killed", "raised", "done"}

VARIABLES
    proc,       \* every process, a record; see TypeOK
    file,       \* the result file: the processes whose line is in it
    lock,       \* who holds the flock()
    unlinked,   \* the result file has been removed
    total,      \* how many lines were added up
    reaped,     \* processes the kernel has forgotten
    errs, ints  \* errors and Control-Cs so far

vars == <<proc, file, lock, unlinked, total, reaped, errs, ints>>
shared == <<file, lock, unlinked, total, reaped, errs, ints>>

TypeOK ==
    /\ proc \in [Procs -> [
            pc : {"unborn", "connect", "fork", "x_kill"} \cup InWorker \cup InParent \cup Ended,
            i : 0..NWorkers,            \* run_parent()'s loop variable
            pids : Seq(Procs),          \* the global `pids'
            k : Nat,                    \* the next pid kill_children() looks at
            par : Procs \cup {NoProc},  \* the process that forked this one
            handler : BOOLEAN,          \* handle_term() is installed
            worker_continue : BOOLEAN,
            closed : BOOLEAN,           \* result_file.close() was called
            off : Nat,                  \* where the next write goes
            term : BOOLEAN, int : BOOLEAN]]     \* pending signals
    /\ file \in Seq(Procs) /\ Len(file) <= MaxProcs
    /\ lock \in Procs \cup {NoProc}
    /\ unlinked \in BOOLEAN /\ total \in 0..MaxProcs /\ reaped \subseteq Procs
    /\ errs \in 0..MaxErrors /\ ints \in 0..MaxInts

Fresh(pc) ==
    [pc |-> pc, i |-> 0, pids |-> <<>>, k |-> 1, par |-> NoProc, handler |-> FALSE,
     worker_continue |-> TRUE, closed |-> FALSE, off |-> 0, term |-> FALSE, int |-> FALSE]

Init ==
    /\ proc = [p \in Procs |-> Fresh(IF p = Main THEN "connect" ELSE "unborn")]
    /\ file = <<>> /\ lock = NoProc /\ unlinked = FALSE /\ total = 0
    /\ reaped = {} /\ errs = 0 /\ ints = 0

-----------------------------------------------------------------------------

At(p, label) == proc[p].pc = label
Alive(p) == proc[p].pc \notin Ended \cup {"unborn"}
Set(p, new) == proc' = [proc EXCEPT ![p] = new]
Goto(p, label) == Set(p, [proc[p] EXCEPT !.pc = label])
\* The record of a process, r, after an exception that nothing catches before the
\* end of the script.
Raised(r) == [r EXCEPT !.pc = "x_kill", !.k = 1]
\* The end of a process releases its lock.
Release(p) == lock' = IF lock = p THEN NoProc ELSE lock
\* kill() finds no such process: its parent has waited for it, or is gone itself.
Gone(p) == p \in reaped \/ (~ Alive(p) /\ ~ Alive(proc[p].par))
\* run_parent()'s for statement, at index j.
MutForLoop(r, j) == [r EXCEPT !.i = j, !.pc = IF j <= NWorkers THEN "fork" ELSE "sleep"]
ForLoop(r, j) == [r EXCEPT !.i = j, !.pc = IF j < NWorkers THEN "fork" ELSE "sleep"]

\* psycopg2 or os.fork() raises.  Nothing in run_parent() catches it; the handler
\* at the end of the script calls kill_children(), in whichever process this is.
Error(p) ==
    /\ errs < MaxErrors /\ proc[p].pc \in {"connect", "fork", "w_connect", "w_work"}
    /\ Set(p, Raised(proc[p])) /\ errs' = errs + 1
    /\ UNCHANGED <<file, lock, unlinked, total, reaped, ints>>

(* run_parent()                                                            *)

Connect(p) == At(p, "connect") /\ Set(p, ForLoop(proc[p], 0)) /\ UNCHANGED shared

\* The child starts with a copy of everything, except its pending signals.
Fork(p) ==
    /\ At(p, "fork")
    /\ \E q \in Procs :
        /\ At(q, "unborn") /\ \A r \in 1..(q - 1) : ~ At(r, "unborn")
        /\ proc' = [proc EXCEPT
             ![p] = ForLoop([proc[p] EXCEPT !.pids = Append(@, q)], proc[p].i + 1),
             ![q] = [proc[p] EXCEPT !.pc = "w_start", !.par = p, !.term = FALSE, !.int = FALSE]]
    /\ UNCHANGED shared

Sleep(p) == At(p, "sleep") /\ Set(p, [proc[p] EXCEPT !.pc = "kill", !.k = 1]) /\ UNCHANGED shared

\* One iteration of kill_children(); a process that is gone ends the loop.
MutKill(p) ==
    /\ proc[p].pc \in {"kill", "x_kill"}
    /\ LET k == proc[p].k + 1 IN
        IF k > Len(proc[p].pids) \/ Gone(proc[p].pids[k])
        THEN IF At(p, "kill")
             THEN Goto(p, "wait") /\ UNCHANGED lock
             ELSE Goto(p, "raised") /\ Release(p)
        ELSE /\ proc' = [proc EXCEPT ![p].k = k, ![proc[p].pids[k]].term = TRUE]
             /\ UNCHANGED lock
    /\ UNCHANGED <<file, unlinked, total, reaped, errs, ints>>
Kill(p) ==
    /\ proc[p].pc \in {"kill", "x_kill"}
    /\ LET k == proc[p].k IN
        IF k > Len(proc[p].pids) \/ Gone(proc[p].pids[k])
        THEN IF At(p, "kill")
             THEN Goto(p, "wait") /\ UNCHANGED lock
             ELSE Goto(p, "raised") /\ Release(p)
        ELSE /\ proc' = [proc EXCEPT ![p].k = k + 1, ![proc[p].pids[k]].term = TRUE]
             /\ UNCHANGED lock
    /\ UNCHANGED <<file, unlinked, total, reaped, errs, ints>>

\* os.wait(), until there is no child left (ECHILD).
MutWait(p) ==
    /\ At(p, "wait")
    /\ \/ Goto(p, "read") /\ UNCHANGED reaped
       \/ \E q \in Procs \ reaped : proc[q].par = p /\ ~ Alive(q) /\ reaped' = reaped \cup {q} /\ UNCHANGED proc
    /\ UNCHANGED <<file, lock, unlinked, total, errs, ints>>
Wait(p) ==
    /\ At(p, "wait")
    /\ LET children == {q \in Procs \ reaped : proc[q].par = p} IN
        \/ children = {} /\ Goto(p, "read") /\ UNCHANGED reaped
        \/ \E q \in children : ~ Alive(q) /\ reaped' = reaped \cup {q} /\ UNCHANGED proc
    /\ UNCHANGED <<file, lock, unlinked, total, errs, ints>>

\* Add up and remove the file; a process that has closed it raises ValueError.
Read(p) ==
    /\ At(p, "read")
    /\ IF proc[p].closed
       THEN Set(p, Raised(proc[p])) /\ UNCHANGED <<total, unlinked>>
       ELSE Goto(p, "done") /\ total' = Len(file) /\ unlinked' = TRUE
    /\ UNCHANGED <<file, lock, reaped, errs, ints>>

(* do_worker()                                                             *)

WStart(p) ==
    /\ At(p, "w_start")
    /\ Set(p, [proc[p] EXCEPT !.pc = "w_ready", !.closed = TRUE])
    /\ UNCHANGED shared

WHandle(p) ==
    /\ At(p, "w_ready")
    /\ Set(p, [proc[p] EXCEPT !.pc = "w_connect", !.worker_continue = TRUE, !.handler = TRUE])
    /\ UNCHANGED shared

WConnect(p) == At(p, "w_connect") /\ Goto(p, "w_work") /\ UNCHANGED shared

\* The while loop ends; its iterations change nothing that is modelled.
WWork(p) ==
    /\ At(p, "w_work") /\ ~ proc[p].worker_continue
    /\ Goto(p, "w_open")
    /\ UNCHANGED shared

WOpen(p) ==
    /\ At(p, "w_open")
    /\ IF unlinked THEN Set(p, Raised(proc[p])) ELSE Goto(p, "w_lock")
    /\ UNCHANGED shared

MutLock(p) == At(p, "w_lock") /\ Goto(p, "w_seek") /\ UNCHANGED shared
WLock(p) ==
    /\ At(p, "w_lock") /\ lock = NoProc
    /\ lock' = p
    /\ Goto(p, "w_seek")
    /\ UNCHANGED <<file, unlinked, total, reaped, errs, ints>>

\* f.seek(0,2)
WSeek(p) == At(p, "w_seek") /\ Set(p, [proc[p] EXCEPT !.pc = "w_write", !.off = Len(file)]) /\ UNCHANGED shared

\* f.write() and f.flush(), at the offset of the seek.
WWrite(p) ==
    /\ At(p, "w_write")
    /\ file' = [j \in 1..Len(file) \cup {proc[p].off + 1} |-> IF j = proc[p].off + 1 THEN p ELSE file[j]]
    /\ Goto(p, "w_unlock")
    /\ UNCHANGED <<lock, unlinked, total, reaped, errs, ints>>

\* LOCK_UN, f.close() and sys.exit(0), which no handler catches.
WUnlock(p) ==
    /\ At(p, "w_unlock")
    /\ Release(p)
    /\ Goto(p, "exit0")
    /\ UNCHANGED <<file, unlinked, total, reaped, errs, ints>>

(* Signals.                                                                *)

\* SIGTERM: handle_term(), which makes time.sleep(), os.wait() and a flock() that
\* is waiting raise, or else the default action.
DeliverTerm(p) ==
    /\ Alive(p) /\ proc[p].term
    /\ LET interrupts == proc[p].pc \in {"sleep", "wait"} \/ (At(p, "w_lock") /\ lock # NoProc)
           handled == [proc[p] EXCEPT !.term = FALSE, !.worker_continue = FALSE] IN
        IF proc[p].handler
        THEN Set(p, IF interrupts THEN Raised(handled) ELSE handled) /\ UNCHANGED lock
        ELSE Set(p, [proc[p] EXCEPT !.pc = "killed", !.term = FALSE]) /\ Release(p)
    /\ UNCHANGED <<file, unlinked, total, reaped, errs, ints>>

\* SIGINT raises KeyboardInterrupt.  run_parent() catches it around do_worker() and
\* goes on with its loop; anywhere else it ends the process, without kill_children().
DeliverInt(p) ==
    /\ Alive(p) /\ proc[p].int
    /\ IF proc[p].pc \in InWorker
       THEN Set(p, ForLoop([proc[p] EXCEPT !.int = FALSE], proc[p].i + 1)) /\ UNCHANGED lock
       ELSE Set(p, [proc[p] EXCEPT !.int = FALSE, !.pc = "raised"]) /\ Release(p)
    /\ UNCHANGED <<file, unlinked, total, reaped, errs, ints>>

\* Control-C is sent to every process of the terminal's foreground group.
ControlC ==
    /\ ints < MaxInts /\ ints' = ints + 1
    /\ proc' = [p \in Procs |-> [proc[p] EXCEPT !.int = @ \/ Alive(p)]]
    /\ UNCHANGED <<file, lock, unlinked, total, reaped, errs>>

-----------------------------------------------------------------------------

Run(p) ==
    \/ Connect(p) \/ Fork(p) \/ Sleep(p) \/ Kill(p) \/ Wait(p) \/ Read(p)
    \/ WStart(p) \/ WHandle(p) \/ WConnect(p) \/ WWork(p) \/ WOpen(p) \/ WLock(p) \/ WSeek(p) \/ WWrite(p) \/ WUnlock(p)

Next ==
    \/ \E p \in Procs : Run(p) \/ Error(p) \/ DeliverTerm(p) \/ DeliverInt(p)
    \/ ControlC

Spec == Init /\ [][Next]_vars

\* Processes run, sleeps end and signals arrive; errors and Control-C need not come.
FairSpec ==
    /\ Spec
    /\ \A p \in Procs : WF_vars(Run(p)) /\ WF_vars(DeliverTerm(p)) /\ WF_vars(DeliverInt(p))

-----------------------------------------------------------------------------
(* Properties.                                                             *)

\* The lock does its work: a worker that has ended well has its line in the result
\* file, once, whoever else writes, dies or is interrupted meanwhile.
ResultsIntact ==
    \A p \in Procs : At(p, "exit0") => Cardinality({j \in DOMAIN file : file[j] = p}) = 1

\* Without Control-C the parent adds up when everybody has finished: the total is
\* that of all the workers that ended well, and nobody writes to the file any more.
CountsEveryone ==
    At(Main, "done") /\ ints = 0 =>
        /\ total = Cardinality({p \in Procs : At(p, "exit0")})
        /\ \A p \in Procs : ~ Alive(p)

\* Errors may strike any process, and workers may stop each other; without Control-C
\* every process still ends.
EveryoneEnds == <>(ints > 0 \/ \A p \in Procs : ~ Alive(p))
=============================================================================

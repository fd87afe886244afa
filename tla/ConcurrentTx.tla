---------------------------- MODULE ConcurrentTx ----------------------------
(***************************************************************************)
(* postgresql/concurrent_tx/concurrent_tx.py: worker processes connect,    *)
(* meet the parent at a Barrier, race to insert the same row, and send the *)
(* outcome back through a pipe.                                            *)
(*                                                                         *)
(* multiprocessing and the database are external.  A Barrier whose timeout *)
(* expires while somebody waits is broken for everybody, then and later.   *)
(* The parent keeps its own copy of a pipe's writing end, so it never      *)
(* reads EOF.  An insert of a key that another transaction has inserted    *)
(* waits for that transaction and fails if it commits.                     *)
(***************************************************************************)
EXTENDS WorkerPool

MainParty == 0
Everyone == Workers \cup {MainParty}   \* the parties of the Barrier
NoRow == 0                              \* the row is not in the table
Row == -1                               \* it is, by this run or an earlier one

VARIABLES
    wpc,        \* where each worker is in run()
    outcome,    \* its result or exception
    sent,       \* workers whose message is in their pipe
    main_pc,    \* where main() is
    read,       \* how many workers' results main() has read
    waiting,    \* who waits at the Barrier
    barrier,    \* "filling", "open" or "broken"
    row,        \* the row: NoRow, committed (Row), or written by a worker's transaction
    owner,      \* the worker whose insert was committed, or NoRow
    failures

tx_vars == <<wpc, outcome, sent, main_pc, read, waiting, barrier, row, owner, failures>>

WorkerEnded == {"exit", "raised"}

TxTypeOK ==
    /\ wpc \in [Workers -> {"new", "connect", "barrier", "at_barrier", "execute", "commit", "send"} \cup WorkerEnded]
    /\ outcome \in [Workers -> {"none", "silent", "exception"}]
    /\ sent \subseteq Workers /\ read \in 0..NWorkers
    /\ main_pc \in {"setup", "start", "barrier", "at_barrier", "results", "join", "done", "raised"}
    /\ waiting \subseteq Everyone
    /\ barrier \in {"filling", "open", "broken"}
    /\ row \in Workers \cup {Row, NoRow} /\ owner \in Workers \cup {NoRow}
    /\ failures \in 0..MaxErrors

TxInit ==
    /\ wpc = [w \in Workers |-> "new"] /\ outcome = [w \in Workers |-> "none"]
    /\ sent = {} /\ read = 0 /\ main_pc = "setup"
    /\ waiting = {} /\ barrier = "filling"
    /\ row \in {Row, NoRow} /\ owner = NoRow
    /\ failures = 0

-----------------------------------------------------------------------------
(* The Barrier.                                                            *)

\* wait() of one party: the last one to come opens the barrier.
Arrive(x) ==
    /\ barrier = "filling"
    /\ waiting' = waiting \cup {x}
    /\ barrier' = IF waiting' = Everyone THEN "open" ELSE "filling"

\* Ten seconds after the first wait() the barrier breaks.
BarrierTimeout ==
    /\ barrier = "filling" /\ waiting # {}
    /\ barrier' = "broken"
    /\ UNCHANGED <<wpc, outcome, sent, main_pc, read, waiting, row, owner, failures>>

-----------------------------------------------------------------------------
(* ConcurrentRunner.run()                                                  *)

WGoto(w, pc) == wpc' = [wpc EXCEPT ![w] = pc]
MainSame == UNCHANGED <<main_pc, read>>

TxConnect(w) ==
    /\ wpc[w] = "connect"
    /\ WGoto(w, "barrier")
    /\ MainSame /\ UNCHANGED <<outcome, sent, waiting, barrier, row, owner, failures>>

\* The connection is refused, or the process is killed: nobody is told.  What its
\* transaction wrote is rolled back.
WFails(w) ==
    /\ failures < MaxErrors /\ wpc[w] \notin {"new"} \cup WorkerEnded
    /\ failures' = failures + 1
    /\ row' = IF row = w THEN NoRow ELSE row
    /\ WGoto(w, "raised")
    /\ MainSame /\ UNCHANGED <<outcome, sent, waiting, barrier, owner>>

MutBarrier(w) ==
    /\ wpc[w] = "barrier"
    /\ IF barrier = "broken"
       THEN WGoto(w, "raised") /\ UNCHANGED <<waiting, barrier>>
       ELSE Arrive(w) /\ WGoto(w, "execute")
    /\ MainSame /\ UNCHANGED <<outcome, sent, row, owner, failures>>
WBarrier(w) ==
    /\ wpc[w] = "barrier"
    /\ IF barrier = "broken"
       THEN WGoto(w, "raised") /\ UNCHANGED <<waiting, barrier>>
       ELSE Arrive(w) /\ WGoto(w, "at_barrier")
    /\ MainSame /\ UNCHANGED <<outcome, sent, row, owner, failures>>

WReleased(w) ==
    /\ wpc[w] = "at_barrier" /\ barrier # "filling"
    /\ WGoto(w, IF barrier = "open" THEN "execute" ELSE "raised")
    /\ MainSame /\ UNCHANGED <<outcome, sent, waiting, barrier, row, owner, failures>>

\* curs.execute(): inserts, fails on the unique key, or (not enabled) waits for
\* the other transaction.
MutExecute(w) ==
    /\ wpc[w] = "execute"
    /\ \/ row # Row /\ row' = w /\ WGoto(w, "commit") /\ UNCHANGED outcome
       \/ row = Row /\ outcome' = [outcome EXCEPT ![w] = "exception"] /\ WGoto(w, "send") /\ UNCHANGED row
    /\ MainSame /\ UNCHANGED <<sent, waiting, barrier, owner, failures>>
WExecute(w) ==
    /\ wpc[w] = "execute"
    /\ \/ row = NoRow /\ row' = w /\ WGoto(w, "commit") /\ UNCHANGED outcome
       \/ row = Row /\ outcome' = [outcome EXCEPT ![w] = "exception"] /\ WGoto(w, "send") /\ UNCHANGED row
    /\ MainSame /\ UNCHANGED <<sent, waiting, barrier, owner, failures>>

WCommit(w) ==
    /\ wpc[w] = "commit"
    /\ row' = Row /\ owner' = w
    /\ outcome' = [outcome EXCEPT ![w] = "silent"]
    /\ WGoto(w, "send")
    /\ MainSame /\ UNCHANGED <<sent, waiting, barrier, failures>>

\* execute() or commit() raises for some other reason, which is caught; a commit
\* may have taken place nevertheless.
WExecuteRaises(w) ==
    /\ failures < MaxErrors /\ wpc[w] \in {"execute", "commit"}
    /\ failures' = failures + 1
    /\ \/ row' = (IF row = w THEN NoRow ELSE row) /\ UNCHANGED owner
       \/ wpc[w] = "commit" /\ row' = Row /\ owner' = w
    /\ outcome' = [outcome EXCEPT ![w] = "exception"]
    /\ WGoto(w, "send")
    /\ MainSame /\ UNCHANGED <<sent, waiting, barrier>>

\* conn.close(); self.writer.send(...)
MutSend(w) ==
    /\ wpc[w] = "send"
    /\ sent' = IF outcome[w] = "silent" THEN sent \cup {w} ELSE sent
    /\ WGoto(w, "exit")
    /\ MainSame /\ UNCHANGED <<outcome, waiting, barrier, row, owner, failures>>
WSend(w) ==
    /\ wpc[w] = "send"
    /\ sent' = sent \cup {w}
    /\ WGoto(w, "exit")
    /\ MainSame /\ UNCHANGED <<outcome, waiting, barrier, row, owner, failures>>

-----------------------------------------------------------------------------
(* main()                                                                  *)

WorkersSame == UNCHANGED <<outcome, row, owner, failures>>

PSetup ==
    /\ main_pc = "setup"
    /\ main_pc' \in {"start", "raised"}     \* the first connection may fail
    /\ WorkersSame /\ UNCHANGED <<wpc, sent, read, waiting, barrier>>

\* runner.start(), one after the other.
TxStart ==
    /\ main_pc = "start"
    /\ \E w \in Workers :
        /\ wpc[w] = "new" /\ \A v \in 1..(w - 1) : wpc[v] # "new"
        /\ WGoto(w, "connect")
        /\ main_pc' = IF w < NWorkers THEN "start" ELSE "barrier"
    /\ WorkersSame /\ UNCHANGED <<sent, read, waiting, barrier>>

PBarrier ==
    /\ main_pc = "barrier"
    /\ IF barrier = "broken"
       THEN main_pc' = "raised" /\ UNCHANGED <<waiting, barrier>>
       ELSE Arrive(MainParty) /\ main_pc' = "at_barrier"
    /\ WorkersSame /\ UNCHANGED <<wpc, sent, read>>

PReleased ==
    /\ main_pc = "at_barrier" /\ barrier # "filling"
    /\ main_pc' = IF barrier = "open" THEN "results" ELSE "raised"
    /\ WorkersSame /\ UNCHANGED <<wpc, sent, read, waiting, barrier>>

\* worker.get_result() of each worker in turn; recv() blocks until there is a
\* message.
PGetResult ==
    /\ main_pc = "results" /\ read + 1 \in sent
    /\ read' = read + 1 /\ sent' = sent \ {read + 1}
    /\ main_pc' = IF read' = NWorkers THEN "join" ELSE "results"
    /\ WorkersSame /\ UNCHANGED <<wpc, waiting, barrier>>

TxJoin ==
    /\ main_pc = "join" /\ \A w \in Workers : wpc[w] \in WorkerEnded
    /\ main_pc' = "done"
    /\ WorkersSame /\ UNCHANGED <<wpc, sent, read, waiting, barrier>>

TxMain == PSetup \/ TxStart \/ PBarrier \/ PReleased \/ PGetResult \/ TxJoin
Worker(w) == TxConnect(w) \/ WBarrier(w) \/ WReleased(w) \/ WExecute(w) \/ WCommit(w) \/ WSend(w)
TxNext == TxMain \/ BarrierTimeout \/ \E w \in Workers : Worker(w) \/ WFails(w) \/ WExecuteRaises(w)

TxSpec == TxInit /\ [][TxNext]_tx_vars

\* All processes run and the barrier's timeout expires; nothing has to fail.
TxFairSpec == TxSpec /\ WF_tx_vars(TxMain) /\ WF_tx_vars(BarrierTimeout) /\ \A w \in Workers : WF_tx_vars(Worker(w))

-----------------------------------------------------------------------------
(* Properties.                                                             *)

\* Nobody's test starts before everybody, the parent included, is at the barrier:
\* the barrier is not released until all workers have connected.
RaceIsFair ==
    (\E w \in Workers : wpc[w] \in {"execute", "commit", "send", "exit"}) =>
        waiting = Everyone

\* The race has one winner: no two workers are told their insert succeeded, and
\* the one that is told so is the one whose row is in the table.
OneWinner == \A w \in Workers : outcome[w] = "silent" => owner = w /\ row = Row

\* main() reports on every worker or raises, unless a worker was lost after it had
\* passed the barrier.
MainEnds ==
    <>(main_pc \in {"done", "raised"} \/ (barrier = "open" /\ \E w \in Workers : wpc[w] = "raised"))
=============================================================================

-------------------------------- MODULE PgMp --------------------------------
(***************************************************************************)
(* scripts/pg_forktest/pg_mp.py: the same load generator with Python's     *)
(* multiprocessing.  An Event starts the children and, cleared again,      *)
(* stops them; every child puts its result into a Queue and sets an Event  *)
(* of its own.                                                             *)
(*                                                                         *)
(* multiprocessing is external, modelled by what the script relies on:     *)
(* put() hands the item to a thread that writes it to a pipe later;        *)
(* get(False) raises Empty when the pipe is empty; a process that ends     *)
(* first lets its thread write, and a parent that ends first joins its     *)
(* children.                                                               *)
(***************************************************************************)
EXTENDS WorkerPool, Sequences, FiniteSets

ChildEnded == {"exit", "failed"}

VARIABLES
    ppc,        \* where parent_run() is
    at,         \* the child its current loop is at
    cpc,        \* where each child is
    start_lock, \* the Event that starts and stops the children
    done_event, \* children that have set their Event
    buffer,     \* children whose item is with the writing thread
    pipe,       \* the items in the pipe
    results,    \* the items the parent has
    mp_errs

mp_vars == <<ppc, at, cpc, start_lock, done_event, buffer, pipe, results, mp_errs>>

MpTypeOK ==
    /\ ppc \in {"start", "set", "sleep", "report", "read", "join", "done", "raised"}
    /\ at \in Workers
    /\ cpc \in [Workers -> {"new", "wait", "waiting", "connect", "work", "put", "set"} \cup ChildEnded]
    /\ start_lock \in BOOLEAN
    /\ done_event \subseteq Workers /\ buffer \subseteq Workers
    /\ pipe \in Seq(Workers) /\ results \in Seq(Workers)
    /\ mp_errs \in 0..MaxErrors

MpInit ==
    /\ ppc = "start" /\ at = 1
    /\ cpc = [w \in Workers |-> "new"]
    /\ start_lock = FALSE
    /\ done_event = {} /\ buffer = {} /\ pipe = <<>> /\ results = <<>> /\ mp_errs = 0

-----------------------------------------------------------------------------
(* child_run()                                                             *)

CGoto(w, pc) == cpc' = [cpc EXCEPT ![w] = pc]
ParentSame == UNCHANGED <<ppc, at, start_lock, results>>

\* start_lock.wait() returns if the Event is set, and goes to sleep otherwise.
CWait(w) ==
    /\ cpc[w] = "wait"
    /\ CGoto(w, IF start_lock THEN "connect" ELSE "waiting")
    /\ ParentSame /\ UNCHANGED <<done_event, buffer, pipe, mp_errs>>

CConnect(w) ==
    /\ cpc[w] = "connect"
    /\ CGoto(w, "work")
    /\ ParentSame /\ UNCHANGED <<done_event, buffer, pipe, mp_errs>>

\* while start_lock.is_set(): its iterations change nothing that is modelled.
CWork(w) ==
    /\ cpc[w] = "work" /\ ~ start_lock
    /\ CGoto(w, "put")
    /\ ParentSame /\ UNCHANGED <<done_event, buffer, pipe, mp_errs>>

MutPut(w) ==
    /\ cpc[w] = "put"
    /\ buffer' = buffer \cup {w} /\ pipe' = Append(pipe, w)
    /\ CGoto(w, "set")
    /\ ParentSame /\ UNCHANGED <<done_event, mp_errs>>
CPut(w) ==
    /\ cpc[w] = "put"
    /\ buffer' = buffer \cup {w}
    /\ CGoto(w, "set")
    /\ ParentSame /\ UNCHANGED <<done_event, pipe, mp_errs>>

\* done_event.set(), and the end of the process.
MutSet(w) ==
    /\ cpc[w] = "set"
    /\ CGoto(w, "exit")
    /\ ParentSame /\ UNCHANGED <<done_event, buffer, pipe, mp_errs>>
CSet(w) ==
    /\ cpc[w] = "set"
    /\ done_event' = done_event \cup {w}
    /\ CGoto(w, "exit")
    /\ ParentSame /\ UNCHANGED <<buffer, pipe, mp_errs>>

\* The database refuses a connection or a query: only KeyboardInterrupt is caught.
CFails(w) ==
    /\ mp_errs < MaxErrors /\ cpc[w] \in {"connect", "work"}
    /\ mp_errs' = mp_errs + 1
    /\ CGoto(w, "failed")
    /\ ParentSame /\ UNCHANGED <<done_event, buffer, pipe>>

\* The queue's thread writes the item to the pipe.
Feeder(w) ==
    /\ w \in buffer
    /\ buffer' = buffer \ {w}
    /\ pipe' = Append(pipe, w)
    /\ ParentSame /\ UNCHANGED <<cpc, done_event, mp_errs>>

-----------------------------------------------------------------------------
(* parent_run()                                                            *)

\* for child in children: ...
MutAdvance(next) ==
    IF at <= NWorkers THEN at' = at + 1 /\ UNCHANGED ppc ELSE at' = 1 /\ ppc' = next
Advance(next) ==
    IF at < NWorkers THEN at' = at + 1 /\ UNCHANGED ppc ELSE at' = 1 /\ ppc' = next

PStart ==
    /\ ppc = "start"
    /\ cpc' = [cpc EXCEPT ![at] = "wait"]
    /\ Advance("set")
    /\ UNCHANGED <<start_lock, done_event, buffer, pipe, results, mp_errs>>

\* start_lock.set() wakes whoever is waiting; a child that is not there yet will
\* find the Event set, unless it is cleared before.
PSet ==
    /\ ppc = "set"
    /\ start_lock' = TRUE
    /\ cpc' = [w \in Workers |-> IF cpc[w] = "waiting" THEN "connect" ELSE cpc[w]]
    /\ ppc' = "sleep"
    /\ UNCHANGED <<at, done_event, buffer, pipe, results, mp_errs>>

\* time.sleep(10); start_lock.clear()
PClear ==
    /\ ppc = "sleep"
    /\ start_lock' = FALSE
    /\ ppc' = "report"
    /\ UNCHANGED <<at, cpc, done_event, buffer, pipe, results, mp_errs>>

\* child.done_event.wait()
PReport ==
    /\ ppc = "report" /\ at \in done_event
    /\ Advance("read")
    /\ UNCHANGED <<cpc, start_lock, done_event, buffer, pipe, results, mp_errs>>

\* result_queue.get(False), as often as there are children.
PRead ==
    /\ ppc = "read"
    /\ IF pipe = <<>>
       THEN ppc' = "raised" /\ UNCHANGED <<at, pipe, results>>
       ELSE /\ results' = Append(results, Head(pipe))
            /\ pipe' = Tail(pipe)
            /\ Advance("join")
    /\ UNCHANGED <<cpc, start_lock, done_event, buffer, mp_errs>>

\* child.join(): the child has ended and its item is written.
PJoin ==
    /\ ppc = "join" /\ cpc[at] \in ChildEnded /\ at \notin buffer
    /\ Advance("done")
    /\ UNCHANGED <<cpc, start_lock, done_event, buffer, pipe, results, mp_errs>>

Parent == PStart \/ PSet \/ PClear \/ PReport \/ PRead \/ PJoin
Child(w) == CWait(w) \/ CConnect(w) \/ CWork(w) \/ CPut(w) \/ CSet(w)
MpNext == Parent \/ \E w \in Workers : Child(w) \/ Feeder(w) \/ CFails(w)

MpSpec == MpInit /\ [][MpNext]_mp_vars

\* All processes and the queue's threads run, and the parent's sleep ends.
MpFairSpec == MpSpec /\ WF_mp_vars(Parent) /\ \A w \in Workers : WF_mp_vars(Child(w)) /\ WF_mp_vars(Feeder(w))

-----------------------------------------------------------------------------
(* Properties.                                                             *)

\* The statistics are over every child, and over each child once.
EachResultOnce ==
    ppc \in {"join", "done"} =>
        /\ Len(results) = NWorkers
        /\ \A w \in Workers : \E j \in DOMAIN results : results[j] = w

\* A child that came to wait() when the Event had been cleared again.
Late(w) == cpc[w] = "waiting" /\ ppc \notin {"start", "set", "sleep"}

\* The parent comes to an end, unless a child fails or is late.
EndsUnlessLateOrFailed ==
    <>(ppc \in {"done", "raised"} \/ \E w \in Workers : Late(w) \/ cpc[w] = "failed")
=============================================================================

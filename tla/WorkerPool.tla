---------------------------- MODULE WorkerPool ------------------------------
(***************************************************************************)
(* What pgfork.py, pg_mp.py and concurrent_tx.py have in common: a number  *)
(* of worker processes, and a bound on what goes wrong in them.  The three *)
(* modules extend this one, and their names differ where a module extends  *)
(* more than one of them.                                                  *)
(***************************************************************************)
EXTENDS Integers

CONSTANTS
    NWorkers,   \* n_workers
    MaxErrors   \* bound on errors from the database and on processes lost

ASSUME WorkerPoolAssumption == NWorkers \in Nat \ {0} /\ MaxErrors \in Nat

Workers == 1..NWorkers
=============================================================================

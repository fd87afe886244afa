-------------------------- MODULE MCLwlockTracker ---------------------------
(* LwlockTracker with settings that differ in what the handlers test.      *)
EXTENDS LwlockTracker, TLC

Set(holds, blockers, pids) ==
    [track_holds |-> holds, track_blockers |-> blockers, track_per_process |-> pids,
     track_application_names |-> TRUE, cumulative |-> ~ pids]

\* Everything on, with a summary for every interval; or waits and blockers only, over
\* all processes and from the beginning.
SomeOptions == {Set(TRUE, TRUE, TRUE), Set(FALSE, TRUE, FALSE)}

\* Where a setting is changed one call less is enough to see what it does.
FewerCalls == ops + tweaks <= MaxOps

Symmetry == Permutations(Pids) \cup Permutations(Locks)
=============================================================================

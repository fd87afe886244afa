--------------------------- MODULE LwlockTracker ----------------------------
(***************************************************************************)
(* postgresql/systemtap/lwlock_stats/lwlock_hold_durations.stp: probes on  *)
(* PostgreSQL's lightweight locks that measure how long locks are waited   *)
(* for and held, per process and over all.                                 *)
(*                                                                         *)
(* The server is external and modelled by the events the probes are placed *)
(* on and their order: four ways to ask for a lock, of which LWLockAcquire *)
(* may wait several times, and the other two that wait return without the  *)
(* lock.  A lock is taken before its "acquired" event and free before its  *)
(* "release" event.  A probe handler holds the locks of the arrays it uses *)
(* and is one step; two handlers of one event are two.                     *)
(*                                                                         *)
(* Every lock is a tranche of its own.  Of a duration the model keeps when *)
(* it began: lock_wait_start_us holds the number of the wait, within its   *)
(* acquire, at which the clock was read, 0 if there is no entry.           *)
(***************************************************************************)
EXTENDS Integers, FiniteSetsExt

CONSTANTS
    Pids, Locks, NoPid, NoLock,
    Options,        \* settings the script may be started with
    MaxOps,         \* bound on calls of the lock functions
    MaxWaits,       \* bound on the waits of one acquire
    Tweakable,      \* settings that may be changed while the script runs
    MaxTweaks       \* bound on these changes

OptionType == [track_holds : BOOLEAN, track_blockers : BOOLEAN, track_per_process : BOOLEAN,
               track_application_names : BOOLEAN, cumulative : BOOLEAN]

SettingNames == {"track_holds", "track_blockers", "track_per_process",
                 "track_application_names", "cumulative"}

ASSUME LwlockAssumption ==
    /\ IsFiniteSet(Pids) /\ NoPid \notin Pids /\ NoLock \notin Locks /\ Options \subseteq OptionType
    /\ Tweakable \subseteq SettingNames
    /\ MaxOps \in Nat /\ MaxWaits \in Nat /\ MaxTweaks \in Nat

VARIABLES
    pc, op, mine,           \* each process: where it is, its call, the locks it has
    nwaits,                 \* waits of its call that the script has seen
    ops,                    \* calls so far
    tracing, late,          \* the script: off, on or aborted; whether the server was there first
    opt, tweaks,            \* its settings, and how often they were changed
    off,                    \* history: settings that are off or have been
    locks_held_by_pid,
    arrays,                 \* what the other arrays hold for each pid
    allprocs,               \* samples in the two allprocs arrays
    failed,                 \* the assertion that has aborted the script
    \* History of samples: removed by print_stats(), in reports of exited
    \* processes, and of calls that have waited.
    dropped, printed, contended,
    \* History of the server: locks given back while the script collects holds.
    released

server == <<pc, op, mine, nwaits, ops, released>>
stats == <<allprocs, dropped, printed, contended>>
script == <<locks_held_by_pid, arrays, failed, tracing, stats>>
vars == <<server, late, opt, tweaks, off, script>>

Funcs == {"acquire", "condacquire", "acquire_or_wait", "waitforvar"}
Modes == {"E", "S"}
Lives == {"idle", "queue", "sleep", "got", "got2", "end", "fail", "release"}
InAcquire == {"queue", "sleep", "got", "got2", "fail"}
Entry(p, l, m) == [pid |-> p, lock |-> l, mode |-> m]
Samples == 0..MaxOps

TypeOK ==
    /\ pc \in [Pids -> Lives \cup {"exit", "exit2", "dead"}]
    /\ op \in [Pids -> [func : Funcs, lock : Locks \cup {NoLock}, mode : Modes]]
    /\ mine \in [Pids -> SUBSET (Locks \X Modes)]
    /\ nwaits \in [Pids -> 0..MaxWaits] /\ ops \in 0..MaxOps
    /\ tracing \in {"off", "on", "aborted"} /\ late \in BOOLEAN
    /\ opt \in OptionType /\ tweaks \in 0..MaxTweaks
    /\ off \subseteq SettingNames /\ (\A o \in SettingNames : opt[o] \/ o \in off)
    /\ locks_held_by_pid \subseteq [pid : Pids, lock : Locks, mode : Modes]
    /\ arrays \in [Pids -> [
            lock_wait_start_us : 0..MaxWaits,
            lock_wait_lwlock_p : Locks \cup {NoLock},
            lock_wait_blocker : Pids \cup {NoPid, "none"},  \* "none": no entry; NoPid: 0
            acquire_func : BOOLEAN,         \* has an entry
            application_names : BOOLEAN,    \* likewise, and backend_types
            held_durations_pid : Samples, wait_durations_pid : Samples]]
    /\ failed \in {"none", "busy", "blocker", "mismatch", "unfinished"}
    /\ {allprocs, dropped} \subseteq [held : Samples, wait : Samples]
    /\ printed \in Samples /\ contended \in Samples /\ released \in Nat

NoCall == [func |-> "acquire", lock |-> NoLock, mode |-> "E"]
NoEntries == [lock_wait_start_us |-> 0, lock_wait_lwlock_p |-> NoLock, lock_wait_blocker |-> "none",
              acquire_func |-> FALSE, application_names |-> FALSE,
              held_durations_pid |-> 0, wait_durations_pid |-> 0]

Init ==
    /\ pc = [p \in Pids |-> "dead"] /\ op = [p \in Pids |-> NoCall]
    /\ mine = [p \in Pids |-> {}] /\ nwaits = [p \in Pids |-> 0] /\ ops = 0
    /\ late \in BOOLEAN /\ tracing = (IF late THEN "off" ELSE "on")
    /\ opt \in Options /\ tweaks = 0 /\ off = {o \in SettingNames : ~ opt[o]}
    /\ locks_held_by_pid = {} /\ arrays = [p \in Pids |-> NoEntries] /\ failed = "none"
    /\ allprocs = [held |-> 0, wait |-> 0] /\ dropped = allprocs
    /\ printed = 0 /\ contended = 0 /\ released = 0

-----------------------------------------------------------------------------
(* The script's handlers, each of an event of process p.                   *)

Aborts(assertion) ==
    /\ failed' = assertion /\ tracing' = "aborted"
    /\ UNCHANGED <<locks_held_by_pid, arrays, stats>>
Change(p, new) == arrays' = [arrays EXCEPT ![p] = new]
TracksHeld == opt.track_holds \/ opt.track_blockers

\* lwlock__acquired, hold tracking.
MutAcquiredHold(p) ==
    /\ locks_held_by_pid' = IF opt.track_blockers
                            THEN locks_held_by_pid \cup {Entry(p, op[p].lock, op[p].mode)}
                            ELSE locks_held_by_pid
    /\ UNCHANGED <<arrays, failed, tracing, stats>>
AcquiredHold(p) ==
    /\ locks_held_by_pid' = IF TracksHeld
                            THEN locks_held_by_pid \cup {Entry(p, op[p].lock, op[p].mode)}
                            ELSE locks_held_by_pid
    /\ UNCHANGED <<arrays, failed, tracing, stats>>

\* append_stats: one more sample for the process, if processes are tracked.
MutAppended(count) == IF opt.track_per_process THEN count + 2 ELSE count
Appended(count) == IF opt.track_per_process THEN count + 1 ELSE count

\* lwlock__release: a sample, if the acquire was seen and holds are wanted.
ReleaseProbe(p) ==
    IF ~ TracksHeld
    THEN UNCHANGED script
    ELSE /\ locks_held_by_pid' = {e \in locks_held_by_pid : e.pid # p \/ e.lock # op[p].lock}
         /\ IF opt.track_holds /\ Entry(p, op[p].lock, op[p].mode) \in locks_held_by_pid
            THEN /\ allprocs' = [allprocs EXCEPT !.held = @ + 1]
                 /\ arrays' = [arrays EXCEPT ![p].held_durations_pid = Appended(@)]
            ELSE UNCHANGED <<allprocs, arrays>>
         /\ UNCHANGED <<failed, tracing, dropped, printed, contended>>

\* track_blocker_info_for_wait(): the loop stops at an entry of the lock.  If it
\* finds none it ends with the last entry it has looked at, or with 0.
Blockers(l, shared) ==
    LET looked == {e \in locks_held_by_pid : shared => e.mode = "E"}
        found == {e \in looked : e.lock = l}
    IN  IF looked = {} THEN {NoPid} ELSE {e.pid : e \in IF found # {} THEN found ELSE looked}

\* lwlock__wait__start: only the first wait of an acquire is recorded.
Started(p, b) ==
    [arrays[p] EXCEPT !.lock_wait_start_us = nwaits[p] + 1, !.lock_wait_lwlock_p = op[p].lock,
                      !.lock_wait_blocker = IF opt.track_blockers THEN b ELSE @]
MutWaitStartProbe(p) ==
    /\ Change(p, Started(p, NoPid))
    /\ UNCHANGED <<locks_held_by_pid, failed, tracing, stats>>
WaitStartProbe(p) ==
    IF arrays[p].lock_wait_start_us # 0
    THEN IF arrays[p].lock_wait_lwlock_p = op[p].lock THEN UNCHANGED script ELSE Aborts("mismatch")
    ELSE /\ \E b \in Blockers(op[p].lock, op[p].func = "acquire" /\ op[p].mode = "S") :
                Change(p, Started(p, b))
         /\ UNCHANGED <<locks_held_by_pid, failed, tracing, stats>>

\* The end of all waits of a call: lwlock__acquired, lwlock__waitforvar__done and
\* the two __fail events.  Cleared is what it leaves of the entries a.
MutCleared(a) ==
    IF a.lock_wait_start_us # 0
    THEN [a EXCEPT !.lock_wait_start_us = 0, !.lock_wait_lwlock_p = NoLock, !.acquire_func = FALSE]
    ELSE a
Cleared(a) ==
    [a EXCEPT !.lock_wait_start_us = 0, !.lock_wait_lwlock_p = NoLock, !.acquire_func = FALSE,
              !.lock_wait_blocker = IF opt.track_blockers THEN "none" ELSE @]
WaitDoneProbe(p) ==
    LET waited == arrays[p].lock_wait_start_us # 0 IN
    IF waited /\ arrays[p].lock_wait_lwlock_p # op[p].lock
    THEN Aborts("mismatch")
    ELSE /\ allprocs' = IF waited THEN [allprocs EXCEPT !.wait = @ + 1] ELSE allprocs
         /\ Change(p, [Cleared(arrays[p]) EXCEPT !.wait_durations_pid = IF waited THEN Appended(@) ELSE @])
         /\ contended' = IF nwaits[p] > 0 THEN contended + 1 ELSE contended
         /\ UNCHANGED <<locks_held_by_pid, failed, tracing, dropped, printed>>

\* SANITY CHECK: the start of a call, but for LWLockAcquireOrWait().
AcquireStartProbe(p, func) ==
    LET a == arrays[p]
        busy == a.acquire_func \/ a.lock_wait_start_us # 0 \/ a.lock_wait_lwlock_p # NoLock
        stale == opt.track_blockers /\ a.lock_wait_blocker # "none"
    IN  CASE func = "acquire_or_wait" -> UNCHANGED script
          [] func # "acquire_or_wait" /\ busy -> Aborts("busy")
          [] func # "acquire_or_wait" /\ ~ busy /\ stale -> Aborts("blocker")
          [] OTHER -> /\ Change(p, [a EXCEPT !.acquire_func = TRUE])
                      /\ UNCHANGED <<locks_held_by_pid, failed, tracing, stats>>

\* SANITY CHECK: the end of a call that got the lock.
AcquireEndProbe(p) == IF arrays[p].acquire_func THEN Aborts("unfinished") ELSE UNCHANGED script

\* backend__type and guc__application__name__assigned: the process has a name.
BackendTypeProbe(p) ==
    /\ arrays' = [arrays EXCEPT ![p].application_names = @ \/ opt.track_application_names]
    /\ UNCHANGED <<locks_held_by_pid, failed, tracing, stats>>

\* postgres.end, the first: print and forget the samples of the process.  Its wait
\* samples are printed with them, and not forgotten.
ReportProbe(p) ==
    /\ IF opt.track_per_process
       THEN /\ printed' = printed + arrays[p].held_durations_pid
            /\ Change(p, [arrays[p] EXCEPT !.held_durations_pid = 0])
       ELSE UNCHANGED <<printed, arrays>>
    /\ UNCHANGED <<locks_held_by_pid, failed, tracing, allprocs, dropped, contended>>

\* postgres.end, the second: delete_per_pid_entries().
Forgotten(a) ==
    [Cleared(a) EXCEPT !.application_names = IF opt.track_application_names THEN FALSE ELSE @]
MutDeletePerPidEntries(p) ==
    /\ locks_held_by_pid' = IF opt.track_holds THEN {e \in locks_held_by_pid : e.pid # p} ELSE locks_held_by_pid
    /\ Change(p, Forgotten(arrays[p]))
    /\ UNCHANGED <<failed, tracing, stats>>
DeletePerPidEntries(p) ==
    /\ locks_held_by_pid' = IF TracksHeld THEN {e \in locks_held_by_pid : e.pid # p} ELSE locks_held_by_pid
    /\ Change(p, Forgotten(arrays[p]))
    /\ UNCHANGED <<failed, tracing, stats>>

-----------------------------------------------------------------------------
(* The server's processes and the events they fire.                        *)

Goto(p, l) == pc' = [pc EXCEPT ![p] = l]
\* An event is seen only while the script runs.
Fires(handler) == IF tracing = "on" THEN handler ELSE UNCHANGED script
Settings == <<late, opt, tweaks, off>>

Free(l, m) == \A p \in Pids : \A e \in mine[p] : e[1] = l => m = "S" /\ e[2] = "S"

\* One attempt at the lock: take it if it is free, else wait or give up.
Attempt(p, call) ==
    IF Free(call.lock, call.mode) /\ call.func # "waitforvar"
    THEN Goto(p, "got") /\ mine' = [mine EXCEPT ![p] = @ \cup {<<call.lock, call.mode>>}]
    ELSE /\ UNCHANGED mine
         /\ Goto(p, IF Free(call.lock, call.mode) \/ call.func = "condacquire" THEN "fail" ELSE "queue")

BackendStarts(p) ==
    /\ pc[p] = "dead" /\ ops < MaxOps
    /\ Goto(p, "idle")
    /\ Fires(BackendTypeProbe(p))
    /\ UNCHANGED <<op, mine, nwaits, ops, released, Settings>>

\* application_name is set; only the first time changes which entries there are.
NameAssigned(p) ==
    /\ pc[p] = "idle" /\ ~ arrays[p].application_names
    /\ Fires(BackendTypeProbe(p))
    /\ UNCHANGED <<server, Settings>>

\* A process calls one of the lock functions for a lock it does not have.  Only
\* LWLockAcquire() is called in shared mode, where waits look at it.
Call(p) ==
    /\ pc[p] = "idle" /\ ops < MaxOps
    /\ \E call \in [func : Funcs, lock : Locks, mode : Modes] :
        /\ call.mode = "S" => call.func = "acquire"
        /\ \A e \in mine[p] : e[1] # call.lock
        /\ op' = [op EXCEPT ![p] = call]
        /\ Fires(AcquireStartProbe(p, call.func))
        /\ Attempt(p, call)
    /\ ops' = ops + 1 /\ nwaits' = [nwaits EXCEPT ![p] = 0]
    /\ UNCHANGED <<released, Settings>>

WaitStart(p) ==
    /\ pc[p] = "queue" /\ nwaits[p] < MaxWaits
    /\ Goto(p, "sleep")
    /\ Fires(WaitStartProbe(p))
    /\ nwaits' = IF tracing = "on" THEN [nwaits EXCEPT ![p] = @ + 1] ELSE nwaits
    /\ UNCHANGED <<op, mine, ops, released, Settings>>

\* Woken up: try again, or return without the lock.
Wake(p) ==
    /\ pc[p] = "sleep"
    /\ IF op[p].func = "acquire_or_wait" THEN Goto(p, "fail") /\ UNCHANGED mine ELSE Attempt(p, op[p])
    /\ UNCHANGED <<op, nwaits, ops, released, Settings, script>>

Acquired(p) ==
    /\ pc[p] = "got"
    /\ Goto(p, "got2")
    /\ Fires(AcquiredHold(p))
    /\ UNCHANGED <<op, mine, nwaits, ops, released, Settings>>

WaitDone(p) ==
    /\ pc[p] \in {"got2", "fail"}
    /\ Goto(p, IF pc[p] = "got2" THEN "end" ELSE "idle")
    /\ Fires(WaitDoneProbe(p))
    /\ UNCHANGED <<op, mine, nwaits, ops, released, Settings>>

AcquireEnd(p) ==
    /\ pc[p] = "end"
    /\ Goto(p, "idle")
    /\ Fires(AcquireEndProbe(p))
    /\ UNCHANGED <<op, mine, nwaits, ops, released, Settings>>

Unlock(p) ==
    /\ pc[p] = "idle"
    /\ \E e \in mine[p] :
        /\ mine' = [mine EXCEPT ![p] = @ \ {e}]
        /\ op' = [op EXCEPT ![p].lock = e[1], ![p].mode = e[2]]
    /\ Goto(p, "release")
    /\ UNCHANGED <<nwaits, ops, released, Settings, script>>

Release(p) ==
    /\ pc[p] = "release"
    /\ Goto(p, "idle")
    /\ Fires(ReleaseProbe(p))
    /\ released' = IF tracing = "on" /\ opt.track_holds THEN released + 1 ELSE released
    /\ UNCHANGED <<op, mine, nwaits, ops, Settings>>

Exit(p) ==
    /\ pc[p] = "idle" /\ mine[p] = {}
    /\ Goto(p, "exit")
    /\ UNCHANGED <<op, mine, nwaits, ops, released, Settings, script>>

\* One process is killed, and the postmaster kills all the others.
ServerCrash ==
    /\ \E p \in Pids : pc[p] \in Lives
    /\ pc' = [p \in Pids |-> IF pc[p] \in Lives THEN "exit" ELSE pc[p]]
    /\ mine' = [p \in Pids |-> {}]
    /\ UNCHANGED <<op, nwaits, ops, released, Settings, script>>

ExitReported(p) ==
    /\ pc[p] = "exit"
    /\ Goto(p, "exit2")
    /\ Fires(ReportProbe(p))
    /\ UNCHANGED <<op, mine, nwaits, ops, released, Settings>>

ExitForgotten(p) ==
    /\ pc[p] = "exit2"
    /\ Goto(p, "dead")
    /\ Fires(DeletePerPidEntries(p))
    /\ op' = [op EXCEPT ![p] = NoCall] /\ nwaits' = [nwaits EXCEPT ![p] = 0]
    /\ UNCHANGED <<mine, ops, released, Settings>>

(* The script as a whole.                                                  *)

ScriptStarts ==
    /\ tracing = "off" /\ tracing' = "on"
    /\ UNCHANGED <<server, Settings, locks_held_by_pid, arrays, failed, stats>>

\* timer.ms(5000): print_stats().
Timer ==
    /\ tracing = "on" /\ ~ opt.cumulative
    /\ dropped' = [held |-> dropped.held + allprocs.held, wait |-> dropped.wait + allprocs.wait]
    /\ allprocs' = [held |-> 0, wait |-> 0]
    /\ UNCHANGED <<server, Settings, locks_held_by_pid, arrays, failed, tracing, printed, contended>>

\* stap --monitor: a setting is changed.
Tweak ==
    /\ tracing = "on" /\ tweaks < MaxTweaks /\ tweaks' = tweaks + 1
    /\ \E o \in Tweakable : opt' = [opt EXCEPT ![o] = ~ @]
    /\ off' = off \cup {o \in SettingNames : ~ opt'[o]}
    /\ UNCHANGED <<server, late, script>>

Backend(p) ==
    \/ BackendStarts(p) \/ NameAssigned(p) \/ Call(p) \/ WaitStart(p) \/ Wake(p) \/ Acquired(p) \/ WaitDone(p)
    \/ AcquireEnd(p) \/ Unlock(p) \/ Release(p) \/ Exit(p) \/ ExitReported(p) \/ ExitForgotten(p)

\* Nothing is left to model when an assertion has aborted the script.
Next ==
    /\ failed = "none"
    /\ (\E p \in Pids : Backend(p)) \/ ServerCrash \/ ScriptStarts \/ Timer \/ Tweak

Spec == Init /\ [][Next]_vars

-----------------------------------------------------------------------------
(* Properties.                                                             *)

\* The script's SANITY CHECKs hold, also when it starts in the middle of things,
\* when calls wait several times and when processes die and pids are used again.
\* The one about blockers fails only if track_blockers is turned off and on again.
SanityHolds == failed = "none" \/ (failed = "blocker" /\ tweaks > 1)

\* All along, holds were tracked: for their own sake or to find blockers.
Tracked == ~ {"track_holds", "track_blockers"} \subseteq off

\* The arrays follow the server.  A wait is measured from the first wait of its
\* call that the script could see, whatever the settings, not longer than the call,
\* and for the lock of this call.  locks_held_by_pid has the locks of a process from
\* the acquired event to the release event, or fewer when the script came late; but
\* only as long as holds are tracked: the events that come while they are not are
\* missed, and what they leave in the array is wrong when tracking is on again.
TablesAgree ==
    tracing = "on" => \A p \in Pids : pc[p] \in Lives =>
        LET waiting == pc[p] \in InAcquire /\ nwaits[p] > 0
            this == {<<op[p].lock, op[p].mode>>}
            seen == {<<e.lock, e.mode>> : e \in {x \in locks_held_by_pid : x.pid = p}}
            real == CASE pc[p] = "got" -> mine[p] \ this
                      [] pc[p] = "release" -> mine[p] \cup this
                      [] OTHER -> mine[p]
        IN  /\ arrays[p].lock_wait_start_us = IF waiting THEN 1 ELSE 0
            /\ arrays[p].lock_wait_lwlock_p = IF waiting THEN op[p].lock ELSE NoLock
            /\ Tracked => seen \subseteq real /\ (late \/ real \subseteq seen)

\* delete_per_pid_entries(), "to ensure we don't leak and fill the arrays": what
\* belongs to a wait or a call goes in any case.  The rest goes only if its setting
\* is on at that moment, so an entry that was made before a setting was turned off
\* stays, and the next process with this pid inherits it; that is the only way for
\* one to stay.  wait_durations_pid, not looked at here, is never cleared.
ExitForgets ==
    tracing = "on" => \A p \in Pids : pc[p] = "dead" =>
        /\ arrays[p].lock_wait_start_us = 0 /\ arrays[p].lock_wait_lwlock_p = NoLock
        /\ ~ arrays[p].acquire_func
        /\ arrays[p].lock_wait_blocker # "none" => "track_blockers" \in off
        /\ arrays[p].application_names => "track_application_names" \in off
        /\ arrays[p].held_durations_pid # 0 => "track_per_process" \in off
        /\ (\E e \in locks_held_by_pid : e.pid = p) => ~ Tracked

\* Every lock that is given back while holds are collected is one sample in the
\* summaries, unless it was taken before the script started or while holds were not
\* tracked, and as long as processes are tracked this sample is in the report of its
\* process once, or will be.  Every call that has waited is one sample, however
\* often it was woken up.
SamplesAddUp ==
    LET held == allprocs.held + dropped.held IN
    /\ contended = allprocs.wait + dropped.wait
    /\ Tracked => held <= released /\ (late \/ held = released)
    /\ "track_per_process" \notin off =>
            held = printed + MapThenSumSet(LAMBDA p : arrays[p].held_durations_pid, Pids)
=============================================================================

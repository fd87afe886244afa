------------------------------ MODULE ForkCow ------------------------------
(***************************************************************************)
(* postgresql/memory_accounting_demos/fork_cow_demo.c: a parent that forks *)
(* a child, waits for the child's SIGUSR1, reports the memory use of both  *)
(* and then serves the user, at a terminal or as a service, until it ends. *)
(*                                                                         *)
(* The two processes run concurrently.  kill() makes a signal pending; it  *)
(* is delivered at some later moment, between any two steps of the         *)
(* receiver, and runs a handler, is ignored, or ends the process.  The     *)
(* build is gcc with its defaults, so signal() installs handlers that      *)
(* restart an interrupted read() and let sleep() return early.             *)
(***************************************************************************)
EXTENDS Integers

CONSTANTS MaxSignals    \* bound on the signals that come from outside

ASSUME ForkCowAssumption == MaxSignals \in Nat

Procs == {"parent", "child"}
Signals == {"USR1", "INT", "HUP", "TERM"}
\* The command line, and whether standard input is a terminal.
Options == [shm : BOOLEAN, fork : BOOLEAN, pageout : BOOLEAN, wait : BOOLEAN, tty : BOOLEAN]

ParentEnded == {"exited", "killed"}
TtyLoop == {"loop", "getc", "report2"}
HupLoop == {"hloop", "hreport", "hreset", "hnap", "hsleep"}
AfterWait == {"pageout", "report", "waiting", "sigint", "sighup", "kill"} \cup TtyLoop \cup HupLoop
\* "nap" and "hnap" are between the test of the flag and the start of sleep().
Waiting == {"reset", "test", "nap", "sleep"}
ParentStates == {"setup", "fork", "sigusr1"} \cup Waiting \cup AfterWait \cup ParentEnded
ChildStates == {"none", "assert", "prctl", "sighup", "dirty", "pageout", "signal", "sleep", "dead"}

VARIABLES
    opt,        \* the options of this run
    ppc, cpc,   \* where parent and child are
    child_pid,  \* main()'s variable: "zero", "pid", or "minus1" when fork() failed
    pending,    \* the signals sent to each process and not delivered
    got_sigusr1, parent_waiting_for_user, parent_stats_update_requested,
    pdeath,     \* the signal the kernel sends the child when this parent ends
    ignhup,     \* the child ignores SIGHUP
    cow,        \* who wrote last to the child's copy of the heap_cow chunk
    everyone,   \* kill(-1, SIGTERM) was called
    unanswered, \* the SIGHUP handler has run and no report has begun since
    sigs        \* signals from outside so far

flags == <<got_sigusr1, parent_waiting_for_user, parent_stats_update_requested, unanswered>>
childVars == <<cpc, pdeath, ignhup, cow>>
vars == <<opt, ppc, child_pid, pending, flags, childVars, everyone, sigs>>

TypeOK ==
    /\ opt \in Options
    /\ ppc \in ParentStates /\ cpc \in ChildStates
    /\ child_pid \in {"zero", "pid", "minus1"}
    /\ pending \in [Procs -> SUBSET Signals] /\ "USR1" \notin pending["child"]
    /\ {got_sigusr1, parent_waiting_for_user, parent_stats_update_requested, unanswered,
        ignhup, everyone} \subseteq BOOLEAN
    /\ pdeath \in {"none", "INT", "HUP", "TERM"}
    /\ cow \in {"parent", "child"}
    /\ sigs \in 0..MaxSignals

\* The fourth argument needs the second: no page-out without shared memory.
Init ==
    /\ opt \in {o \in Options : o.pageout => o.shm}
    /\ ppc = "setup" /\ cpc = "none" /\ child_pid = "zero"
    /\ pending = [p \in Procs |-> {}]
    /\ got_sigusr1 = FALSE /\ parent_waiting_for_user = FALSE
    /\ parent_stats_update_requested = FALSE /\ unanswered = FALSE
    /\ pdeath = "none" /\ ignhup = FALSE /\ cow = "parent"
    /\ everyone = FALSE /\ sigs = 0

-----------------------------------------------------------------------------
(* Signals.                                                                *)

ParentAlive == ppc \notin ParentEnded
ChildAlive == cpc \notin {"none", "dead"}

\* The pending signals after sig is sent to the processes in ps.
Send(ps, sig) == [p \in Procs |-> IF p \in ps THEN pending[p] \cup {sig} ELSE pending[p]]

\* The parent ends: the kernel signals a child that asked for it with prctl().
ParentEnds(state) ==
    /\ ppc' = state
    /\ pending' = IF pdeath # "none" /\ ChildAlive THEN Send({"child"}, pdeath) ELSE pending

\* The signals for which the parent has a handler in place.
Handled ==
    (IF ppc \in Waiting \cup AfterWait /\ opt.fork THEN {"USR1"} ELSE {})
        \cup (IF ppc \in TtyLoop THEN {"INT"} ELSE {})
        \cup (IF ppc \in HupLoop THEN {"HUP"} ELSE {})

\* A signal reaches the parent: the handler sets its flag and a sleep() that has
\* begun returns, or the default action ends the process.
DeliverToParent(sig) ==
    /\ ParentAlive /\ sig \in pending["parent"]
    /\ IF sig \in Handled
       THEN /\ pending' = [pending EXCEPT !["parent"] = @ \ {sig}]
            /\ ppc' = IF ppc = "sleep" THEN "test" ELSE IF ppc = "hsleep" THEN "hloop" ELSE ppc
            /\ got_sigusr1' = (got_sigusr1 \/ sig = "USR1")
            /\ parent_waiting_for_user' = (parent_waiting_for_user /\ sig # "INT")
            /\ parent_stats_update_requested' = (parent_stats_update_requested \/ sig = "HUP")
            /\ unanswered' = (unanswered \/ sig = "HUP")
       ELSE ParentEnds("killed") /\ UNCHANGED flags
    /\ UNCHANGED <<opt, child_pid, childVars, everyone, sigs>>

\* system(), called in main() and report_memory_use(), ignores SIGINT while its
\* command runs.
IntIgnored ==
    /\ ppc \in {"setup", "report", "report2", "hreport"} /\ "INT" \in pending["parent"]
    /\ pending' = [pending EXCEPT !["parent"] = @ \ {"INT"}]
    /\ UNCHANGED <<opt, ppc, child_pid, flags, childVars, everyone, sigs>>

\* A signal reaches the child, which has no handlers.
DeliverToChild(sig) ==
    /\ ChildAlive /\ sig \in pending["child"]
    /\ pending' = [pending EXCEPT !["child"] = @ \ {sig}]
    /\ cpc' = IF sig = "HUP" /\ ignhup THEN cpc ELSE "dead"
    /\ UNCHANGED <<opt, ppc, child_pid, flags, pdeath, ignhup, cow, everyone, sigs>>

\* Control-C goes to both processes, "systemctl kill --signal=SIGHUP" to every
\* process of the service, a plain kill to the parent alone.
Outside(sig) ==
    /\ sigs < MaxSignals /\ ParentAlive
    /\ \/ sig = "INT" /\ opt.tty
       \/ sig = "HUP" /\ ~ opt.tty
       \/ sig = "TERM"
    /\ sigs' = sigs + 1
    /\ pending' = Send({"parent"} \cup (IF ChildAlive /\ sig # "TERM" THEN {"child"} ELSE {}), sig)
    /\ UNCHANGED <<opt, ppc, child_pid, flags, childVars, everyone>>

-----------------------------------------------------------------------------
(* The parent: main().                                                     *)

\* Every step below leaves these alone, unless it says otherwise.
PGoto(state) == ppc' = state /\ UNCHANGED pending
Quiet == UNCHANGED <<opt, everyone, sigs>>

\* setup_shmem(), then the chunks are allocated and written.  (The fd is 0 when
\* there is no shared memory, and mapping it fails without being noticed.)
PSetup ==
    /\ ppc = "setup"
    /\ PGoto("fork")
    /\ Quiet /\ UNCHANGED <<child_pid, flags, childVars>>

\* shm_open(), ftruncate() or oom_adjust() fails: exit(1).
PSetupFails ==
    /\ ppc = "setup"
    /\ PGoto("exited")
    /\ Quiet /\ UNCHANGED <<child_pid, flags, childVars>>

\* fork() may fail; -1 is not told apart from a child's pid.
PFork ==
    /\ ppc = "fork"
    /\ IF opt.fork
       THEN /\ PGoto("sigusr1")
            /\ \/ child_pid' = "pid" /\ cpc' = "assert"
               \/ child_pid' = "minus1" /\ UNCHANGED cpc
       ELSE PGoto("pageout") /\ UNCHANGED <<child_pid, cpc>>
    /\ Quiet /\ UNCHANGED <<flags, pdeath, ignhup, cow>>

\* wait_for_sigusr1(): install the handler, ...
PSigusr1 ==
    /\ ppc = "sigusr1"
    /\ PGoto("reset")
    /\ Quiet /\ UNCHANGED <<child_pid, flags, childVars>>

\* ... then clear the flag, ...
PReset ==
    /\ ppc = "reset"
    /\ got_sigusr1' = FALSE
    /\ PGoto("test")
    /\ Quiet /\ UNCHANGED <<child_pid, parent_waiting_for_user, parent_stats_update_requested,
                            unanswered, childVars>>

\* ... and while it is not set, sleep.  A signal that arrives between the test and
\* the sleep sets the flag, and the parent sleeps all the same.
MutTest ==
    /\ ppc = "test"
    /\ \E state \in {"pageout", "nap"} : PGoto(state)
    /\ Quiet /\ UNCHANGED <<child_pid, flags, childVars>>
PTest ==
    /\ ppc = "test"
    /\ PGoto(IF got_sigusr1 THEN "pageout" ELSE "nap")
    /\ Quiet /\ UNCHANGED <<child_pid, flags, childVars>>

\* sleep(1000) in wait_for_sigusr1(), sleep(3600) in the service loop, ...
PSleep ==
    /\ ppc \in {"nap", "hnap"}
    /\ PGoto(IF ppc = "nap" THEN "sleep" ELSE "hsleep")
    /\ Quiet /\ UNCHANGED <<child_pid, flags, childVars>>

\* ... and its time is up.
MutSleepExpires ==
    /\ ppc = "hsleep"
    /\ PGoto("hloop")
    /\ Quiet /\ UNCHANGED <<child_pid, flags, childVars>>
SleepExpires ==
    /\ ppc \in {"sleep", "hsleep"}
    /\ PGoto(IF ppc = "sleep" THEN "test" ELSE "hloop")
    /\ Quiet /\ UNCHANGED <<child_pid, flags, childVars>>

\* pageout_chunk() exits when madvise() fails; the child is left to the kernel.
PPageout ==
    /\ ppc = "pageout"
    /\ \/ PGoto("report")
       \/ opt.pageout /\ ParentEnds("exited")
    /\ Quiet /\ UNCHANGED <<child_pid, flags, childVars>>

\* report_memory_use(), the first time.
PReport ==
    /\ ppc = "report"
    /\ PGoto(IF ~ opt.wait THEN "kill" ELSE IF opt.tty THEN "waiting" ELSE "sighup")
    /\ Quiet /\ UNCHANGED <<child_pid, flags, childVars>>

\* The /proc files of a child that has died may be unreadable: the result of
\* fopen() is used unchecked.
PReportFails ==
    /\ ppc \in {"report", "report2", "hreport"} /\ cpc = "dead"
    /\ ParentEnds("killed")
    /\ Quiet /\ UNCHANGED <<child_pid, flags, childVars>>

\* At a terminal: set the flag, then install the handler that clears it.
PWaiting ==
    /\ ppc = "waiting"
    /\ parent_waiting_for_user' = TRUE
    /\ PGoto("sigint")
    /\ Quiet /\ UNCHANGED <<child_pid, got_sigusr1, parent_stats_update_requested, unanswered,
                            childVars>>

PSigint ==
    /\ ppc = "sigint"
    /\ PGoto("loop")
    /\ Quiet /\ UNCHANGED <<child_pid, flags, childVars>>

PLoop ==
    /\ ppc = "loop"
    /\ PGoto(IF parent_waiting_for_user THEN "getc" ELSE "kill")
    /\ Quiet /\ UNCHANGED <<child_pid, flags, childVars>>

\* getc() returns a character: refresh, quit, or anything else (EOF too).
PGetc ==
    /\ ppc = "getc"
    /\ \/ PGoto("report2") /\ UNCHANGED parent_waiting_for_user
       \/ PGoto("loop") /\ parent_waiting_for_user' \in {FALSE, parent_waiting_for_user}
    /\ Quiet /\ UNCHANGED <<child_pid, got_sigusr1, parent_stats_update_requested, unanswered,
                            childVars>>

PReport2 ==
    /\ ppc = "report2"
    /\ PGoto("loop")
    /\ Quiet /\ UNCHANGED <<child_pid, flags, childVars>>

\* As a service: report whenever SIGHUP has asked for it.
PSighup ==
    /\ ppc = "sighup"
    /\ PGoto("hloop")
    /\ Quiet /\ UNCHANGED <<child_pid, flags, childVars>>

MutHloop ==
    /\ ppc = "hloop"
    /\ PGoto(IF parent_stats_update_requested THEN "hreset" ELSE "hnap")
    /\ Quiet /\ UNCHANGED <<child_pid, flags, childVars>>
PHloop ==
    /\ ppc = "hloop"
    /\ IF parent_stats_update_requested
       THEN PGoto("hreport") /\ unanswered' = FALSE
       ELSE PGoto("hnap") /\ UNCHANGED unanswered
    /\ Quiet /\ UNCHANGED <<child_pid, got_sigusr1, parent_waiting_for_user,
                            parent_stats_update_requested, childVars>>

PHreport ==
    /\ ppc = "hreport"
    /\ PGoto("hreset")
    /\ Quiet /\ UNCHANGED <<child_pid, flags, childVars>>

PHreset ==
    /\ ppc = "hreset"
    /\ parent_stats_update_requested' = FALSE
    /\ PGoto("hnap")
    /\ Quiet /\ UNCHANGED <<child_pid, got_sigusr1, parent_waiting_for_user, unanswered,
                            childVars>>

\* kill(child_pid, SIGTERM) if child_pid is not 0, and the end of main().
PKill ==
    /\ ppc = "kill"
    /\ ppc' = "exited"
    /\ pending' = IF child_pid = "pid" /\ ChildAlive THEN Send({"child"}, "TERM") ELSE pending
    /\ everyone' = (child_pid = "minus1")
    /\ UNCHANGED <<opt, sigs, child_pid, flags, childVars>>

-----------------------------------------------------------------------------
(* The child: child_main().                                                *)

CGoto(state) == cpc' = state
ParentSame == UNCHANGED <<opt, ppc, child_pid, flags, everyone, sigs>>

\* assert(parent_pid == getppid())
CAssert ==
    /\ cpc = "assert"
    /\ CGoto(IF ParentAlive THEN "prctl" ELSE "dead")
    /\ ParentSame /\ UNCHANGED <<pending, pdeath, ignhup, cow>>

\* prctl(PR_SET_PDEATHSIG, SIGTERM) is about the parent the child has by now.
MutPrctl ==
    /\ cpc = "prctl"
    /\ pdeath' = IF ParentAlive THEN "HUP" ELSE "none"
    /\ CGoto("sighup")
    /\ ParentSame /\ UNCHANGED <<pending, ignhup, cow>>
CPrctl ==
    /\ cpc = "prctl"
    /\ pdeath' = IF ParentAlive THEN "TERM" ELSE "none"
    /\ CGoto("sighup")
    /\ ParentSame /\ UNCHANGED <<pending, ignhup, cow>>

CSighup ==
    /\ cpc = "sighup"
    /\ ignhup' = ~ opt.tty
    /\ CGoto("dirty")
    /\ ParentSame /\ UNCHANGED <<pending, pdeath, cow>>

MutDirty ==
    /\ cpc = "dirty"
    /\ cow' \in {cow, "child"}
    /\ CGoto("pageout")
    /\ ParentSame /\ UNCHANGED <<pending, pdeath, ignhup>>
CDirty ==
    /\ cpc = "dirty"
    /\ cow' = "child"
    /\ CGoto("pageout")
    /\ ParentSame /\ UNCHANGED <<pending, pdeath, ignhup>>

\* pageout_chunk() exits when madvise() fails, and the parent is not told.
CPageout ==
    /\ cpc = "pageout"
    /\ \/ CGoto("signal")
       \/ opt.pageout /\ CGoto("dead")
    /\ ParentSame /\ UNCHANGED <<pending, pdeath, ignhup, cow>>

\* kill(parent_pid, SIGUSR1), and sleep until killed.
CSignal ==
    /\ cpc = "signal"
    /\ pending' = IF ParentAlive THEN Send({"parent"}, "USR1") ELSE pending
    /\ CGoto("sleep")
    /\ ParentSame /\ UNCHANGED <<pdeath, ignhup, cow>>

-----------------------------------------------------------------------------

ParentRuns ==
    \/ PSetup \/ PSetupFails \/ PFork \/ PSigusr1 \/ PReset \/ PTest \/ PSleep \/ SleepExpires \/ PPageout
    \/ PReport \/ PReportFails \/ PWaiting \/ PSigint \/ PLoop \/ PReport2
    \/ PSighup \/ PHloop \/ PHreport \/ PHreset \/ PKill
ChildRuns == CAssert \/ CPrctl \/ CSighup \/ CDirty \/ CPageout \/ CSignal
Delivery == \E sig \in Signals : DeliverToParent(sig) \/ DeliverToChild(sig)
FromOutside == PGetc \/ \E sig \in Signals : Outside(sig)

Next == ParentRuns \/ ChildRuns \/ Delivery \/ IntIgnored \/ FromOutside

Spec == Init /\ [][Next]_vars

\* The scheduler runs both processes, sleep() ends and pending signals arrive;
\* nobody has to type, and nobody has to send a signal.
FairSpec ==
    /\ Spec
    /\ WF_vars(ParentRuns) /\ WF_vars(ChildRuns)
    /\ \A sig \in Signals : WF_vars(DeliverToParent(sig)) /\ WF_vars(DeliverToChild(sig))

-----------------------------------------------------------------------------
(* Properties.                                                             *)

\* The parent measures only what it means to measure: with a child asked for,
\* no report is made before the child has rewritten its copy-on-write chunk,
\* whatever wakes the parent up in wait_for_sigusr1().
MeasuresDirtyChild == ppc \in AfterWait /\ opt.fork => cow = "child"

\* The SIGTERM at the end of main() never goes to every process of the user: a
\* parent whose fork() failed does not get there.
NeverSignalsEveryone == ~ everyone

\* Once the child has called prctl() it does not outlive its parent, however the
\* parent ends.
ChildFollowsParent == pdeath # "none" /\ ~ ParentAlive ~> cpc = "dead"

\* "print info on SIGHUP": a SIGHUP whose flag is still set once no report is being
\* made is answered by a report that begins after it, unless the parent ends.  One
\* that arrives after the test and before sleep(3600) begins waits until the hour
\* is over, but is not lost.  One that arrives during a report is: the flag is
\* cleared after the report, and nothing is printed for it.
SighupIsAnswered ==
    unanswered /\ ppc \notin {"hreport", "hreset"} /\ parent_stats_update_requested
        ~> ~ unanswered \/ ~ ParentAlive

\* "Will be woken early by signals": not by one that arrives after the test of the
\* flag and before sleep(1000) begins; but a child's signal that wait_for_sigusr1()
\* has seen since it cleared its flag ends the wait at the latest when the time is
\* up, unless the parent ends.
SignalEndsWait ==
    got_sigusr1 /\ ppc \in Waiting \ {"reset"} ~> ppc \in AfterWait \/ ~ ParentAlive

\* What the program's comment says and it does not do.  "Child process will
\* signal us when it has done its memory allocations": with nobody interfering,
\* the parent gets past wait_for_sigusr1() after that.
ChildReadyIsSeen == cpc = "signal" ~> ppc \in AfterWait
=============================================================================

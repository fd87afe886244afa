# TLA+ models of the programs in scrapcode

scrapcode is a collection of small independent programs: demonstrations, test
tools and helpers around PostgreSQL, Linux and some hardware.  There is no
single system, but many of the programs are concurrent (processes, threads,
signals, sockets, shared files) and several exist to show how hard some piece of
operating-system behaviour is to get right.  This directory models those
programs, checks them with TLC and proves the central safety properties of all
of them with TLAPS.

Contents: [Inventory](#inventory) · [Modules](#the-modules-and-the-code) ·
[Runs](#runs) · [Findings](#findings) · [Proofs](#proofs) ·
[Limits](#what-is-not-covered) · [Plan](#plan)

To check: `tlc -config X.cfg M` for a run of module `M`, `tlapm M.tla` for a
proof module.  `PROJECT.json` lists runs, properties, the source lines each
definition stands for, the hazards and the findings.

## Inventory

### Programs with concurrent or crash-sensitive logic

| Program | State | Operations | Interacts through | What is hard | What makes it correct |
|---|---|---|---|---|---|
| SCO print spooler, `scripts/sco_openserver505_replacement_lp/` (`printserver.py` is the client, `lp.py` the server) | spool file, TCP streams, one thread per client, `main()`'s `ct` | handshake, job data, filter, `lp`, ack, move to `PRINTED` | TCP, accept backlog, `os.system()` | partial reads, resets, timeouts, who keeps a socket open | a job cut short is never printed; the ack is that of the client's own job; nobody hangs |
| fsync test program, `testcases/fsync-error-clear/standalone/` | file offset, retry flag, errors so far | write, close/sync/open, fsync, fsync again, rewind | page cache, writeback | an error is reported once; the flusher runs at any time | a lost block is told from a harmless success; it stops |
| fsync test environment, `fsync_test_setup.sh`, `pg_fsync_error.py` | device-mapper tables | set-up; reconnect loop | shell, PostgreSQL | device I/O | – |
| secret store, `python/libsecret_abstraction/secret_store.py` | credentials file, temporary file, list of providers | look-up, store, atomic overwrite | file system, libsecret | machine crashes, overlapping stores | old or new contents after any crash, never an empty file |
| fork/copy-on-write demo, `postgresql/memory_accounting_demos/fork_cow_demo.c` | three flags set by handlers, child pid, shared memory | fork, wait for SIGUSR1, report, serve user or service manager | signals, `PR_SET_PDEATHSIG` | signals between any two statements | measures only the finished child; never leaks or mis-signals |
| overcommit demo, `overcommit.c` | child pids | fork, kill, wait | signals | failed `fork()` | signals only its children |
| load generator with `fork()`, `scripts/pg_forktest/pgfork.py` | list of pids, loop index, result file | fork, SIGTERM all, wait, add up | signals, `flock()`, inherited state | exceptions travel through the parent's code in a child | every finished worker counted once; everybody ends |
| load generator with multiprocessing, `pg_mp.py` | start event, done events, queue | start, set, clear, wait, read, join | events, queue feeder threads | events overtake data; a gate that closes again | every child counted once; everybody ends |
| concurrent transaction demo, `postgresql/concurrent_tx/concurrent_tx.py` | barrier, row, pipes | connect, barrier, insert, commit, send | barrier, database locks, pipes | barrier timeout, lost workers | a fair race with one winner; the report ends |
| libpq session sample, `postgresql/blog_libpq_pipeline/async_sample.c` | query queue per session, session state | push, pop, service, callbacks | poll loop, libpq | callbacks that re-enqueue the item being freed | the list stays a list; a result goes to the query it was sent for |
| LWLock tracker, `postgresql/systemtap/lwlock_stats/lwlock_hold_durations.stp` | arrays by pid and by lock | one handler per event | server events, array locks | many waits per call, late start, dying processes, reused pids | tables agree with the server; what is kept of a process goes with it; every hold and every wait is one sample |
| return-stack guards, `c/clang_return_stack_checks/` | stack of guards | push, pop, check | longjmp, early return | unwinding past a guard | an escape is caught |
| RHT03 sensor driver, `arduino_avr/RHT03_DHT22_humidity_temp_sensor.c` | pulse times and their index, error flag | request, interrupt handler, decode | interrupts | handler against main loop, lost and added pulses, array bound, what a failed reading leaves behind | what is printed is what the sensor has sent; every reading ends |
| memhog, `go/memhog/` | allocations | allocate, wait, signals | signals | – | – |
| promtorture, `testcases/promtorture/` | metric registry | generate series, serve, kill | HTTP | index arithmetic | the right number of distinct series |

### The rest

Namespace and weather tools (`scripts/nspid`, `rpi/weather`), PostgreSQL C
functions, shell helpers, Java EE and PHP test cases, container and
configuration files: sequential I/O, pure functions over server types, or data.
They keep no state of their own over which a property could be stated.

## The modules and the code

Definitions keep the names of the source where TLA+ allows.  Program counters
name the statement that comes next.  Wherever another process, thread, handler
or crash can come in between, two statements are two actions; a run of
statements nobody else can observe is one.  Kernel, TCP, Python's
multiprocessing and the database are modelled by what the programs rely on, and
such definitions are marked external in `PROJECT.json`.

| Module | Models | Notes |
|---|---|---|
| `PrintSpool` | client (`C…` actions) and server (`S…` actions) of the print spooler | A job is its size, what `stat` says, whether it is filtered out, and what becomes of the handshake: by how many bytes it is too long (`extra`), and what the server then takes the size to be (`parses`, `parsed`). Bytes are counted, so that partial reads and writes are visible. `hs`, `up`, `down` are the two directions of the connection. A dead thread's socket stays open while `ct` refers to it (`ServerClosed`). |
| `PrintJob` | what a run of `lp` promises | One verdict, told to the client, file moved after. `PrintSpool` implements it with `verdict <- lp, told <- ack, place <- file`. |
| `MCPrintSpool` | the jobs of the TLC instances | |
| `FsyncClear` | `main()`, `reopen_fd()`, `write_another_file()` and the kernel | `Writeback` decides which pages fail; `Fsync` reports and clears; `kernel` distinguishes kernels where a fresh descriptor inherits an unreported error from those where it does not. `dropped` is a history variable: an error existed that the program will never act on. |
| `SecretStore` | `YamlConfLookup.store()`, `atomic_overwrite()`, `store_secret()`'s look-up | Two directory names, inodes, what is synced and what a crash may keep. `overlap`, chosen at the start, says whether stores run one after the other or at the same time. Machine crashes, killed processes and I/O errors at every call, the `unlink()` of the `finally` clause included; `leftover` remembers that one of them left a temporary file. |
| `ForkCow` | both processes, all handlers | Signals are sets of pending signals; `Deliver…` runs a handler or ends the process between any two steps; between the test of a flag and the sleep that follows there is a state (`nap`, `hnap`), where a signal wakes nobody up. |
| `LwlockTracker` | every handler of the SystemTap script that changes an array | The server is external: four lock functions, exits, crashes, reused pids. `arrays` has one record per pid; a time is the number of the wait at which the clock was read. `off` is the history of the settings (those that are or were off), `released` of the server (locks given back while the script collects holds). |
| `MCLwlockTracker` | the settings and the symmetry of the TLC instance | |
| `WorkerPool` | what `PgFork`, `PgMp` and `ConcurrentTx` have in common | The number of workers. The three modules are extended together by `WorkersProofs`, hence names such as `MpSpec` and `TxSpec`. |
| `PgFork` | the whole script in every process | A worker is a process inside `do_worker()`; what it raises goes on through `run_parent()`. Closing the inherited file (`WStart`) and installing the handler (`WHandle`) are two steps. |
| `PgMp` | `child_run()` and `parent_run()` | `Feeder` is the queue's thread. |
| `ConcurrentTx` | `ConcurrentRunner.run()` and `main()` | The barrier, the row lock and the pipe are explicit. |
| `AsyncSession` | `main()`, the event loop, `service_session()`, the list and the callbacks of `async_sample.c` | Pointers are item numbers, `NULL` or `Wild`; `Init` chooses what uninitialised memory holds. `sent` is a history variable. The module's head says how it reads the slips of a file that no compiler accepts. `TypeOK` is there for the reader. |
| `SensorDriver` | `loop()`, `readSensor()`, the interrupt handler and the decoder of the sensor driver | Time is the length of pulses; a reading comes with the lengths of all its pulses, anywhere in the ranges the comments give. `Noise`, `OddChange`, `MissedChange`, `SensorStops` and `LineNotHigh` are faults of the line, counted by `faults` and, for the reading under way, by `disturbed`. `leftover` says whether the interrupt was attached with a change from before. A byte has `ByteBits` bits. |
| `MCSensorDriver` | the readings and the odd pulses of the TLC instance | |
| `PrintSpoolProofs`, `FsyncClearProofs`, `ForkCowProofs`, `SecretStoreProofs`, `AsyncSessionProofs`, `SensorDriverProofs`, `LwlockTrackerProofs` | – | Theorems and their lemmas. |
| `WorkersProofs` | – | The same for `PgFork`, `PgMp` and `ConcurrentTx`, all of which it extends. |

Data that no property tells apart is left out: printer and queue names, texts,
SQL, memory sizes and the reports themselves.  A definition whose name begins
with `Mut` is a wrong version of the definition after it; it is used only to see
that a property notices the mistake.

## Runs

One run per question.  All programs may stop, so deadlock is not checked; that
they stop only where they should is stated as liveness.

| Run | Configuration | Bounds | Shows |
|---|---|---|---|
| `print` | `PrintSpool.cfg` | 2 clients, five kinds of spool file of up to 2 bytes, two of them with a handshake one byte too long, backlog 1 | `JobIsComplete`: no part of a job reaches the filter or `lp`, and the whole file when the handshake keeps to its 45 bytes; `AckMatchesVerdict`: a client hears the verdict on its own job, but for an `lp` killed by a signal; `ImplementsPrintJob`; `ThreadsEnd`; `ClientsEndUnlessLast`: a client ends unless its thread has died and is the one `ct` still refers to |
| `fsync` | `FsyncClear.cfg` | 5 blocks, one always failing, three that may fail, both modes, both kernels | `NeverGood`: the second `fsync()` always succeeds; `BadMeansLost`: BAD is no false alarm; `LossIsNoticed`: every lost block is noticed unless `reopen_fd()` dropped its error; `Terminates` |
| `secret` | `SecretStore.cfg` | 3 stores, serial or overlapping, 2 crashes or kills, an I/O error at any call | for serial stores `OriginalsSurvive`, `DoneIsDurable`, `NoSpuriousFailure`; for all `NoTmpLeftBehind`: no temporary file stays but one that a crash, a kill or a failed `unlink()` left |
| `forkcow` | `ForkCow.cfg` | every option, 3 signals from outside | `MeasuresDirtyChild`: no report before the child has rewritten its memory; `NeverSignalsEveryone`: never `kill(-1)`; `ChildFollowsParent`; `SighupIsAnswered`; `SignalEndsWait`: a signal of the child's that was seen ends the wait, at the latest when the time is up |
| `pgfork` | `PgFork.cfg` | 2 workers, 4 processes, 1 error, 1 Control-C | `TypeOK`; `ResultsIntact`: the line of every worker that ended well is in the file; and, without Control-C, `CountsEveryone` and `EveryoneEnds` |
| `pgmp` | `PgMp.cfg` | 4 children, 1 error | `MpTypeOK`; `EachResultOnce`; `EndsUnlessLateOrFailed` |
| `concurrent_tx` | `ConcurrentTx.cfg` | 3 workers, 2 failures | `RaceIsFair`: nobody inserts before all are at the barrier; `OneWinner`; `MainEnds` unless a worker is lost behind the barrier |
| `lwlock` | `LwlockTracker.cfg` | 2 processes, 2 locks, 3 calls, 2 waits per call, `track_blockers` changed once (with one call less) | `TypeOK`; `SanityHolds`: the script's own assertions; `TablesAgree`: waits are measured from the first wait, the table of held locks is that of the server as long as holds are tracked; `ExitForgets`: what stays of a dead process stays because its setting was off; `SamplesAddUp`: every lock given back is one sample, and every call that waited |
| `async` | `AsyncSession.cfg` | 2 commands and the INSERT as in `main()`, 2 notifications | `QueueIntact`: whatever memory held, the list has the enqueued items in order, up to its tail; `GarbageIsCaught`: the assertions stop the program before it follows a pointer nobody has set, except when `dbconnect()` fails, and they never fail otherwise; `OneQueryOnly`: a result is only given to the item whose query was sent, and only one ever is |
| `sensor` | `SensorDriver.cfg` | bytes of 2 bits, 3 readings (pulses at the limits of what is accepted, of the datasheet, and one beyond), 2 faults, odd pulses that look like a zero or a one, gaps of 20 and 65562 microseconds | `PrintedIsAnswer`: after one fault nothing but the sensor's answer is printed; `RoomForOneFault`: `timings` is overrun only after two; `CleanIsPrinted`: an undisturbed reading is printed if and only if the code accepts its pulses, whatever happened before, and one with a change left over never; `ReadingsGoOn` |

The largest are `lwlock` (3.0 million distinct states, about two and a half minutes),
`sensor` (1.2 million, two minutes), `secret` (690,000, half a minute), `pgfork` (470,000,
a bit over one minute) and `print` (230,000, one and a half); the others take seconds.

The type invariant is a theorem for every module but `AsyncSession`, where it is neither
proved nor in a run; those of `PgFork`, `PgMp` and `LwlockTracker` bound a length or
a count and are checked in the runs too.

Why these bounds are enough to be interesting:

* Two clients make `ct` move from one thread to the next; two bytes make a partial
  read and a partial write possible; a backlog of one makes the server end with a
  connection not yet accepted.  Of the handshakes that are too long one makes the
  server take too little for the job and one too much.
* A file of five blocks has good, failing and possibly failing blocks, a retry
  after an error and a full file system.
* Two crashes or kills let a machine crash again while a store recovers from what
  the first has left; three processes let one remove what a second has made while
  a third renames.
* Three signals allow a second signal during the handling of the first, and one
  more that ends the process.
* Four processes let an interrupted worker fork a worker of its own.
* Three calls of the lock functions let one process hold a lock, another wait for
  it twice and then make its next call; two locks let a wait be told from that for
  another lock.  With a setting changed on the way, which multiplies the states,
  two calls are left: enough for a hold or a wait that begins under one setting
  and ends under the other, and for a process that leaves something to the next
  one with its pid.  That more changes do no other harm is proved, not checked.
* Four children of `pg_mp.py` let one fail, one be late and two report in either
  order; three workers of `concurrent_tx.py` leave a race of two when one fails.
* In `async` the two commands and the INSERT are what `main()` enqueues; with two
  notifications one can be left over, since only one is taken per call.
* A reading of two-bit bytes has 26 line changes instead of 86, among them both
  words, both signs of the temperature and the sum, and pulses of all three
  lengths; two faults are the first number at which `timings` is overrun and a
  wrong reading can pass, and put the one fault that is allowed into the reading
  itself or into an earlier one. 65562 microseconds are 26, a zero bit, in an
  `int` of 16 bits.

### Fairness

Fairness is weak and is assumed of what a scheduler, a clock or the kernel does:
a process or thread that can run does run, `sleep()` and socket timeouts expire,
a pending signal is delivered, the queue's thread writes its item, the accept
loop takes what is in its backlog.  Nothing has to fail, nobody has to type,
send a signal or press Control-C, and background writeback need never happen.
In `PrintSpool` the thread's fairness includes the 30-second timeout, which the
code sets on every socket operation of the thread.  `FairSpec` asks nothing of the
clients, so that `ThreadsEnd` also covers a client that falls silent; the client
has no timeout, and `ClientsEndUnlessLast` is about clients that run, with their
fairness as its hypothesis.  In `SensorDriver` the processor goes on and a
sensor that has pulses to send sends them; that it has any is not assumed.

## Findings

Each of these is a run in which TLC refutes what a comment in the program says.

| Run | Configuration | The program says | The model shows |
|---|---|---|---|
| `secret_overlap` | `SecretStore_OverwriteIsAtomic.cfg` | "Atomically overwrite file at destpath" | with two stores at once, the rename of one can publish the other's still empty file |
| `forkcow_lost_wakeup` | `ForkCow_ChildReadyIsSeen.cfg` | "Child process will signal us" | a signal before `wait_for_sigusr1()` has installed the handler is fatal, one before it clears the flag is forgotten |

`forkcow_lost_wakeup` has no signals from outside, so nobody but the two
processes is to blame; its counterexample is under the fairness above.

Other oddities of the code are in the models as they are, and appear in the
conditions of the properties that hold:

* `printserver.py` drops the result of `spool()` and moves the file to `PRINTED`
  after a FAILURE too: `PrintJob` lets the file move after either verdict.
* `"SPOOL%30s%10s"` (`printserver.py:61`) pads and never cuts, and the server
  reads 45 bytes.  A queue name or a size that is too long shifts the size field:
  what the server takes for the size may fail to parse, and then the job is
  refused, or be another number, and then the end of the handshake is printed as
  the beginning of the job and the job is cut off, or nothing is printed.
  `JobIsComplete` claims the whole file only for a handshake that fits (`extra =
  0`), and of the others only that `lp` gets as many bytes as the server means to
  read.
* `ret >> 8 == 0` (`lp.py:168`) is also true of an `lp` killed by a signal: such a
  job is acknowledged with SUCCESS (`AckMsg`), although by line 45 the server
  "informs the client of the result".  `AckMatchesVerdict` and `PrintJob` leave
  open what is said of such an `lp`; they do not catch this.
* `printserver.py` takes `finfo[5]`, the group id, for the size: empty files are
  offered to the server, which refuses them (`CCheckFile`, `SHandshake`).
* After an error of `close()` ("Treating error on close() same as write() error")
  nothing sets `write_err`; that is one of the three ways to set `dropped` in
  `LossIsNoticed`.
* The child of `fork_cow_demo.c` can outlive a parent that ends between the
  child's `assert` and its `prctl()` (`ChildFollowsParent` starts after it and
  does not catch this).
* A SIGHUP or SIGUSR1 between the test of its flag and the `sleep()` after it
  wakes nobody: "Will be woken early by signals" holds of the others only, and
  these are answered when the time is up, after an hour or 1000 seconds
  (`SighupIsAnswered`, `SignalEndsWait`).  A SIGHUP during a report is forgotten,
  because the flag is cleared after it (`SighupIsAnswered` says which ones are
  answered).
* "Press q or CTRL-C to quit" (lines 349 and 366): `getc()` is restarted after the
  handler has run, so that Control-C has no effect until a key is pressed, and is
  followed by one more report if that key is Return.  `PGetc` and `PLoop` have it;
  no property is about it, for nobody has to type.
* `kill_children()` in `pgfork.py` has its `try` around the loop, so a process
  that is gone saves the later ones from the signal.  Without Control-C that does
  no harm (`EveryoneEnds`): the parent's children that have ended are zombies
  until it waits for them, which is later, and a zombie can be signalled.
* In the LWLock script `wait_durations_pid` is not cleared when a process exits
  (`ExitForgets` does not look at it).  `delete_per_pid_entries` tests each
  setting (lines 451, 461, 467) as it is at that moment, and lines 86 and 87 allow
  to change them: what was made while one was on and is to be deleted while it is
  off stays, in spite of "ensure we don't leak", and the next process with the pid
  inherits it. `ExitForgets` and `TablesAgree` say that nothing but that is the
  matter: `off` and `Tracked` tell whether a setting was off at any time.  A
  search of the table that finds no holder ends with an unrelated process, which
  becomes the blocker (`Blockers`); a `track_blockers` that is turned off and on
  again during a wait makes an assertion fail (`SanityHolds` excepts it).  The
  report at the end of the script indexes the per-process array with a variable
  that was never set and prints nothing.
* In `pgfork.py` an interrupted worker goes on with the parent's code, in spite of
  "Never returns" (line 102) and "only parent ever reaches here" (line 108): it
  forks workers of its own, which is why `PgFork` runs the whole script in every
  process and `CountsEveryone` and `EveryoneEnds` exclude Control-C.
* In `pg_mp.py` a child's event can be set before the queue's thread has written
  its result, so that `get(False)` raises `Empty` although the parent did "Wait
  until all children have reported in" (line 96); `PRead` has that step.
* In `pg_mp.py` a child that reaches `start_lock.wait()` after `clear()` waits for
  ever, hence the name of `EndsUnlessLateOrFailed`.
* `async_sample.c`: after the NULL that ends a query's results the loop at line
  433 goes on, because an idle connection is not busy, and pops items whose query
  was never sent, up to the INSERT, which it pops and pushes for ever.  Their
  result callbacks are called with NULL, although lines 61 and 62 call them
  callbacks "to process the results from a matching query send callback", lines
  454 to 456 mean to wait for the next `poll()`, and the INSERT of lines 622 to
  625 should run again and again. No second query is ever sent.  `OneQueryOnly`
  says so; that a result is only given to the item it belongs to is therefore seen
  with one query only. `PQflush()` returns 0 when everything is sent and 1 when
  not, and lines 400-413 have it the other way round: a query that was flushed at
  once leaves the session in `SESSION_QUEUED`, and its results are never read.
  `kill_sessions()` does not end once the INSERT is on the list, because
  `insert_query_free()` puts it back.  `insert_query_result()` dies of every row:
  `RETURNING (id, dummyval)` is one field.  Only one notification is taken per
  call.  The texts and comments of the commands in `main()` are swapped.
* The sensor driver checks neither the index of `timings` nor the header's pulses:
  after two faults it can write behind the array, or print a wrong reading (hence
  `disturbed <= 1` and `faults >= 2`).  After a failed request the interrupt stays
  attached until the next reading; `initState()` clears the record, but not a
  change that the controller still holds when `attachInterrupt()` is called: it is
  counted with the next reading, which then is never printed (second half of
  `CleanIsPrinted`). The limits of lines 205 to 220 are tighter than the comments:
  a 1 may last 55 to 85 microseconds (line 154), a 0 up to 40 (204), a low pulse
  35 to 75 (218), and the tests refuse 55 to 60 and 85, 40, and 35 and 75.
  `CleanIsPrinted` therefore says "if and only if the pulses are accepted" and not
  "always". The message at line 221 gives other limits than the test at line 220.
* `store_secret()` reads the map and writes it back later: of two overlapping
  stores the second to rename drops the secret of the first.  Nothing says that
  overlapping stores are supported, beyond what `secret_overlap` quotes.

## Proofs

The proofs hold for every value of the constants under the modules' named
assumptions (`PrintSpoolAssumption`, `FsyncAssumption` and so on),
which say of which type the constants are, and of a spool file or a reading
how its parts fit together: a handshake that fits is read as it was sent, and the
pulses of the sensor have the lengths the comments allow.  Each proof has an inductive
invariant `IInv`, with one step per action.

**`PrintSpoolProofs`** – any set of clients, any jobs, any backlog.
`IInv` is `TypeOK` and, for each client, `PairOK`: `BytesOK` (what was sent is in
flight or read, and never exceeds the job), `ServerOK` (a verdict exists exactly
from the state on in which the thread has the whole job), `StreamOK` (what can
be in `down`, given both program counters) and `ClientOK` (what the client holds
agrees with the verdict).  `JobIsComplete` is not inductive by itself, since it
does not say why `got` equals the job's size when `lp` runs; `AckMatchesVerdict`
is not, since the ack travels through `down`.  `OthersStep` and `PairFrame` show
that the steps of one client leave every other pair alone.  Theorems:
`TypeCorrect`, `OnlyCompleteJobs`, `AcksMatch`, and `Refinement`: every step is
a step of `PrintJob` or a stutter.  What the client has written beyond the first 45
bytes counts as job data in `BytesOK`, as it does for the server.

**`FsyncClearProofs`** – any file size, any sets of failing blocks.  `KernelOK`
says where a dirty page or an unreported error can exist and that both are about
the current block; `LossOK` ties verdict, `fsync_err` and the state of that block
together; `NoticeOK` says which blocks are on the disk at each statement as long
as no error was dropped, and that only `reopen` mode can drop one.
`LossIsNoticed` speaks of one statement only and needs `NoticeOK` at all the
others.  Theorems: `SecondFsyncSucceeds`, `BadIsLoss`, `LossesNoticed`.

**`ForkCowProofs`** – any number of signals.  `SignalMeansDirty` (a SIGUSR1
pending or seen implies that the child has rewritten its chunk), `ChildDirties`
and `ForkResult` (a failed `fork()` leaves no child that could ever signal)
explain why no other signal gets the parent out of `wait_for_sigusr1()`, and why
a parent whose `fork()` failed never reaches `kill()`.  Theorems:
`ReportsAfterChild`, `NotEveryone`.

**`SecretStoreProofs`** – any processes, any number of crashes and I/O errors.
`IInv` has a half for stores that run one at a time, `OneByOne`: `Stage` says for
each statement of `atomic_overwrite()` what the directory, the temporary file and
the disk look like while one process is there, and `Safe` that whatever
`credentials` may be after a crash is a complete, synced map with everything
stored before.  The safety properties look at one moment; `Stage` is what makes
the rename safe (the file it publishes was written and synced) and the next
store's `unlink` harmless.  The other half, `TmpIsOwned`, holds for overlapping
stores too: a temporary file exists only while somebody is between creating it and
`finally`, or `leftover` says that it was left.  Theorems: `TypeCorrect`,
`OriginalsAreSafe`, `StoresAreDurable`, `LeftoversAreHarmless`, `TmpIsRemoved`.

**`WorkersProofs`** – any number of processes, errors and interrupts.
*`concurrent_tx.py`*: `BehindBarrier` (a worker is past the barrier only if it is
open, and it is open only if everybody has arrived) and `HoldsRow` (until a
transaction that has inserted the row ends, the row is its own); theorems
`TxTypeCorrect`, `FairRace`, `SingleWinner`.  *`pg_mp.py`*: `OnePlace` (a child's
result is in at most one of the feeder's buffer, the pipe and the parent's list,
once), `WasPut` and `Turns` (the list is as long as the loop has made turns).
`EachResultOnce` counts and says that everybody is there; it follows because
`NWorkers` different children are all of them (`FS_PigeonHole`).  Theorems
`MpTypeCorrect`, `EveryResultOnce`.  *`pgfork.py`*: `LockInv` (who seeks, writes or
unlocks has the lock) and `FileInv` (no two lines of one process, none before it
was written, and who is about to write has the end of the file as its offset) give
`LinesIntact`, also with Control-C, when an interrupted worker forks workers of its
own.  `Calm` is about runs without Control-C: then only `Main` is in
`run_parent()`, every worker is its child, whoever has written cannot be stopped
any more, and `Main` reads the file after it has waited for all of them; that is
`EverybodyCounted`.  `ForkTypeCorrect` needs `FileInv` for the length of the file.

**`LwlockTrackerProofs`** – any processes and locks, any number of calls, waits,
changes of settings, exits and crashes.  The invariant is in three parts, each
shown with the ones before it.  `ServerInv` is what the script may rely on: a
process has a lock once, not the one it is asking for.  `TraceInv` says for each
process, at every event and not only where the properties look, what its entries
are: `Waits` for the wait that is going on and for what must be gone after it,
`Holds` for the table of held locks, both ways.  `SanityHolds` is not inductive,
since an assertion fails because of entries left by some earlier event;
`TablesAgree` is not, since it says nothing of a process that is between its
last event and its exit.  `StatInv` adds the samples: each call still waiting, or
still to be recorded, leaves at most one, hence never more than there are calls.
`RelInv` relates the samples of holds to the locks given back, which the server counts and
the script does not: the release handler takes a sample if the lock is in the table,
and `TraceInv` says that it is, if holds were tracked all along and the script came first.
`SamplesAddUp` also has a sum over all processes, defined by a fold; that the sum
changes by what one process's summand does (`HeldSumDiffers`)
is an induction on finite sets, which is done here by taking a least
counterexample.  Theorems: `TrackerTypeCorrect`, `SanityChecksHold`, `ArraysFollow`,
`NothingIsLeft`, `HoldsCounted`, `NoSampleLost`.

**`AsyncSessionProofs`** – any number of commands and notifications and every
content of uninitialised memory.  `Links` says what `next` of each item is (the
item after it once that was enqueued, else what it was at the start), `Progress`
how far `main()` is and with it where the list's ends are. `GarbageIsCaught` needs
`Links` at the moment the INSERT is popped.  `OneQueryOnly` needs `Progress`,
because the loop over the results must find an item, and the invariant `OneInv` of
its own: only the first item is ever sent, and it is off the list once libpq is
idle again.  `QueueIntact` follows `next` from the head and says which items it
meets; `WalkAhead` proves, by taking the first step at which it would not, that
step `k` meets the `k`-th item of those that `Shape` says are queued. Theorems:
`OnlyGarbageStops`, `OnlyOneQueryRuns`, `ListIsIntact`.

**`SensorDriverProofs`** – bytes of any size, any pulses, any number of faults and
readings.  The invariant is a `Budget`: the changes recorded so far, those still
on the wire and one that the controller holds back are together at most `Expected`
and two more for each fault this reading has met (a change left over in the
controller counts as one).  It needs `Silent`: the sensor sends nothing between
readings.  So the index exceeds the two spare elements only after the second
fault.  `TypeCorrect` includes that what is stored fits 16 bits. Theorems:
`TypeCorrect`, `NoOverrun`, and `RecordIsStable`: the record does not change
between the check of the count and the end of the decoding.

What is printed rests on a second invariant, `DInv`, about a reading that has met
one fault at most.  Its `Course` is one of three: `Right` (the count will be
complete, the pulses recorded are the sensor's but for one at most, those on the
wire are the rest of its pulses), `Missed` (the controller still holds a change
back, which only helps if it was the last) and `Off` (the count will be wrong).  A
late change can lead from `Missed` to `Right`; nothing leads back from `Off`, so
that only `Right` gets past the count.  The rest is about decoding: `Number` is
what a part of a message means as a number, `ReadAsNumber` shows that `readnbits`
computes it, `MessageSpells` that the bits on the wire are the reading's words and
their sum, `OneByteSpoilt` that one wrong pulse touches one of the five bytes, and
`OneAddendOff` that a sum modulo a power of two tells when a single addend has
changed; `DecodesRight` and `CleanPasses` put them together.  The lengths of
pulses are not needed for the first: for one fault the count and the checksum are
enough.  For the second they are all: without a fault the count is right, and what
the decoder compares with its limits is what the sensor sent.  Induction is over
sets of naturals (`Induction`, from the well-foundedness of `<`). Theorems:
`AnswersOnly` (`PrintedIsAnswer`) and `CleanReadings` (`CleanIsPrinted`).

## What is not covered

* Only model-checked: everything about liveness (the prover has no support for
  fairness and `ENABLED` here).
* Left out of modelled programs: `spool_lpd()` (never called), the other secret
  providers, `KeyboardInterrupt` in `pg_mp.py` (it just ends a process), a `kill
  -9` from outside but for the secret store.
* Not caught: some of the hazards in `PROJECT.json` do happen in the code, so that
  no property of a passing run can exclude them, and no text of the repository
  says that they do not.  The models have the steps, and the properties name them
  as exceptions: an `lp` killed by a signal, an over-long handshake, an error of
  `close()` in `reopen_fd()`, a parent that ends before `prctl()`, Control-C
  during `getc()`, an event of `pg_mp.py` that overtakes its result, a late or a
  failed child there, a worker lost behind the barrier of `concurrent_tx.py`, the
  error path of `dbconnect()`, settings that are off when a process exits.  For
  these a property says only that there are no others.
* `async_sample.c` is modelled as its comments say it was meant; another reading
  of its slips is another program.
* The return-stack guards are decided by the compiler: the demo shows what its
  attributes and macros reject or warn about.  What runs is sequential and
  deterministic, and its Makefile runs every combination of arguments.
* Overcommit, memhog, promtorture and the reconnect loop of `pg_fsync_error.py`
  are sequential or one loop; `overcommit.c` has the same flaw as
  `NeverSignalsEveryone` is about (a failed `fork()` is stored as -1 and line 117
  signals it) without the code that saves `fork_cow_demo.c` from it.
* Kernel, TCP, database and libraries are external; their models are as strong as
  the programs need and no stronger.  Whether a particular kernel behaves like
  `FsyncClear`'s is what that program was written to find out.
* Out of reach or without content: device set-up scripts, the formatting of
  reports, pure functions over PostgreSQL types, Java EE and PHP test cases.

## Plan

Done: all ten models, and the proof of every safety property the runs check.
Next, in this order:

1. `SecretStore`'s providers, their initialisation and order of look-up.
2. `Overcommit` and the index arithmetic of promtorture.

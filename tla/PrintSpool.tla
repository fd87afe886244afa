----------------------------- MODULE PrintSpool -----------------------------
(***************************************************************************)
(* The replacement "lp" command for SCO OpenServer and its print server.   *)
(* (The two files carry each other's name: scripts/sco_openserver505_      *)
(* replacement_lp/printserver.py is the client, lp.py is the server.)      *)
(*                                                                         *)
(* Every client is one run of the lp command with one spool file.  The     *)
(* server's main loop accepts connections and starts a ClientThread for    *)
(* each.  A TCP connection is a byte stream in each direction: `hs' and    *)
(* `up' hold what the client has written and the server not yet read,      *)
(* `down' what the server has written and the client not yet read.         *)
(*                                                                         *)
(* A socket that is not closed explicitly stays open as long as something  *)
(* references it: the thread itself while it runs, and the server's        *)
(* variable `ct', which names the most recently accepted thread.           *)
(***************************************************************************)
EXTENDS Integers, Sequences, FiniteSets

CONSTANTS
    Clients,        \* runs of the lp command
    Jobs,           \* the spool files a run may be given
    ListenBacklog,  \* connections the listening socket queues (s.listen(5))
    NoClient        \* the value of ct before the first accept

\* What distinguishes runs: the size of the spool file in bytes, whether os.stat
\* succeeds and shows group 0, whether the text that reaches the server holds
\* "Cannot get TTY", and what becomes of the handshake.  "SPOOL%30s%10s" pads
\* and never cuts, so a queue name of more than 30 characters or a size of more
\* than 10 digits makes it `extra' bytes longer than the 45 the server reads.
\* The characters the server takes for the size are then others: int() raises
\* (~ parses), or returns some number, a negative one included.
JobType == [size : Nat, stat : {"ok", "gid0", "missing"}, tty : BOOLEAN,
            extra : Nat, parses : BOOLEAN, parsed : Int]

ASSUME PrintSpoolAssumption ==
    /\ Jobs \subseteq JobType
    /\ \A j \in Jobs : j.extra = 0 => j.parses /\ j.parsed = j.size
    /\ ListenBacklog \in Nat \ {0}
    /\ NoClient \notin Clients

VARIABLES
    job,    \* the spool file of each client
    cpc,    \* where each client is in main() / spool_socket()
    sent,   \* bytes the client has written after the first 45
    ack,    \* the ack message the client has received
    file,   \* where the spool file is
    hs,     \* the first 45 bytes of the handshake are in flight
    up,     \* bytes in flight after them
    down,   \* messages from the server in flight
    spc,    \* where each client's server thread is in run()
    got,    \* bytes the server thread has read as job data
    lp,     \* what became of the job on the server
    main,   \* the server's main loop
    ct      \* main()'s local variable: the last thread started

clientVars == <<cpc, sent, ack, file>>
serverVars == <<spc, got, lp, main, ct>>
wireVars == <<hs, up, down>>
vars == <<job, clientVars, wireVars, serverVars>>

\* "norun" is a run that ended before it had a connection.
ClientEnded == {"done", "fail", "norun"}
ClientStates == {"start", "connect", "handshake", "wait_ready", "sending",
                 "wait_ack", "shutdown", "rename"} \cup ClientEnded
ThreadEnded == {"done", "dead", "deadfin"}
ThreadStates == {"none", "handshake", "ready", "read", "job", "ack", "shutdown"}
                    \cup ThreadEnded
\* How the command run by os.system() ended; "fork" is os.system() == -1.
LpResults == {"exit0", "exitN", "signal", "fork"}
Verdicts == LpResults \cup {"ignored"}

TypeOK ==
    /\ job \in [Clients -> Jobs]
    /\ cpc \in [Clients -> ClientStates]
    /\ sent \in [Clients -> Nat]
    /\ ack \in [Clients -> {"none", "SUCCESS", "FAILURE"}]
    /\ file \in [Clients -> {"spool", "PRINTED"}]
    /\ hs \in [Clients -> BOOLEAN]
    /\ up \in [Clients -> Nat]
    /\ down \in [Clients -> Seq({"READY", "SUCCESS", "FAILURE"})]
    /\ spc \in [Clients -> ThreadStates]
    /\ got \in [Clients -> Nat]
    /\ lp \in [Clients -> Verdicts \cup {"none"}]
    /\ main \in {"accepting", "ended"}
    /\ ct \in Clients \cup {NoClient}

Init ==
    /\ job \in [Clients -> Jobs]
    /\ cpc = [c \in Clients |-> "start"]
    /\ sent = [c \in Clients |-> 0]
    /\ ack = [c \in Clients |-> "none"]
    /\ file = [c \in Clients |-> "spool"]
    /\ hs = [c \in Clients |-> FALSE]
    /\ up = [c \in Clients |-> 0]
    /\ down = [c \in Clients |-> <<>>]
    /\ spc = [c \in Clients |-> "none"]
    /\ got = [c \in Clients |-> 0]
    /\ lp = [c \in Clients |-> "none"]
    /\ main = "accepting"
    /\ ct = NoClient

-----------------------------------------------------------------------------
(* The connection, as each end sees it.                                    *)

Connected(c) == cpc[c] \notin {"start", "connect", "norun"}

\* Connections the kernel has set up and accept() has not yet returned.
Backlog == {c \in Clients : spc[c] = "none" /\ Connected(c)}

\* The client has shut down or closed its sending side: the server reads EOF
\* once it has read everything in flight.
ClientEOF(c) == cpc[c] \in {"wait_ack", "shutdown", "rename"} \cup ClientEnded

\* The server's end is closed: by shutdown_connection(), because the thread
\* that owns it ended in an exception and `ct' no longer refers to it, or
\* because main() ended with the connection still in the backlog.
MutServerClosed(c) == spc[c] = "done"
ServerClosed(c) ==
    \/ spc[c] = "done"
    \/ spc[c] \in {"dead", "deadfin"} /\ (ct # c \/ main = "ended")
    \/ spc[c] = "none" /\ main = "ended"

\* The server's sending side is finished, so the client reads EOF after `down'.
ServerEOF(c) == ServerClosed(c) \/ spc[c] \in {"shutdown", "deadfin"}

-----------------------------------------------------------------------------
(* The client: printserver.py.                                             *)

CGoto(c, pc) == cpc' = [cpc EXCEPT ![c] = pc]

\* main(): the spool file is checked.  finfo[5] is the group id, so a file of
\* group 0 ends the run and the size is not looked at.
CCheckFile(c) ==
    /\ cpc[c] = "start"
    /\ CGoto(c, IF job[c].stat = "ok" THEN "connect" ELSE "norun")
    /\ UNCHANGED <<job, sent, ack, file, wireVars, serverVars>>

CConnect(c) ==
    /\ cpc[c] = "connect"
    /\ main = "accepting" /\ Cardinality(Backlog) < ListenBacklog
    /\ CGoto(c, "handshake")
    /\ UNCHANGED <<job, sent, ack, file, wireVars, serverVars>>

\* Refused because nobody listens, or timed out against a full backlog.
CConnectFails(c) ==
    /\ cpc[c] = "connect"
    /\ main = "ended" \/ Cardinality(Backlog) >= ListenBacklog
    /\ CGoto(c, "norun")
    /\ UNCHANGED <<job, sent, ack, file, wireVars, serverVars>>

CSendHandshake(c) ==
    /\ cpc[c] = "handshake"
    /\ CGoto(c, "wait_ready")
    /\ hs' = [hs EXCEPT ![c] = TRUE]
    /\ sent' = [sent EXCEPT ![c] = job[c].extra]
    /\ up' = [up EXCEPT ![c] = job[c].extra]
    /\ UNCHANGED <<job, ack, file, down, serverVars>>

\* What the client has written once it has sent the file.
Total(c) == job[c].extra + job[c].size

\* An empty file is sent by sending nothing.
CRecvReady(c) ==
    /\ cpc[c] = "wait_ready" /\ down[c] # <<>>
    /\ CGoto(c, IF Head(down[c]) # "READY" THEN "fail"
                ELSE IF job[c].size = 0 THEN "wait_ack" ELSE "sending")
    /\ down' = [down EXCEPT ![c] = Tail(@)]
    /\ UNCHANGED <<job, sent, ack, file, hs, up, serverVars>>

\* One send() of _send_fixed_msg(), which may take only part of what is left;
\* after the last one, sock.shutdown(1).
CSendData(c) ==
    /\ cpc[c] = "sending"
    /\ \E k \in 1..(Total(c) - sent[c]) :
        /\ sent' = [sent EXCEPT ![c] = @ + k]
        /\ up' = [up EXCEPT ![c] = @ + k]
        /\ CGoto(c, IF sent[c] + k = Total(c) THEN "wait_ack" ELSE "sending")
    /\ UNCHANGED <<job, ack, file, hs, down, serverVars>>

\* The file shrank after the stat: "Job size mismatch", before any data is sent.
CShortFile(c) ==
    /\ cpc[c] = "sending" /\ sent[c] = job[c].extra
    /\ CGoto(c, "fail")
    /\ UNCHANGED <<job, sent, ack, file, wireVars, serverVars>>

\* expect_job_ack() keeps whether the ack was SUCCESS; spool() drops it.
CRecvAck(c) ==
    /\ cpc[c] = "wait_ack" /\ down[c] # <<>>
    /\ ack' = [ack EXCEPT ![c] = IF Head(down[c]) = "SUCCESS" THEN "SUCCESS" ELSE "FAILURE"]
    /\ down' = [down EXCEPT ![c] = Tail(@)]
    /\ CGoto(c, "shutdown")
    /\ UNCHANGED <<job, sent, file, hs, up, serverVars>>

\* A send() or recv() on a connection the server has closed raises; nothing
\* in main() catches it.  Closing a socket with unread bytes resets the
\* connection, and what the server had sent may be lost.
CSocketError(c) ==
    /\ \/ cpc[c] \in {"handshake", "sending"} /\ ServerClosed(c)
       \/ cpc[c] \in {"wait_ready", "wait_ack"} /\ down[c] = <<>> /\ ServerEOF(c)
       \/ cpc[c] \in {"wait_ready", "wait_ack"} /\ ServerClosed(c) /\ (hs[c] \/ up[c] > 0)
    /\ CGoto(c, "fail")
    /\ UNCHANGED <<job, sent, ack, file, wireVars, serverVars>>

\* shutdown_connection(); shutdown(0) may raise ENOTCONN once both sides have
\* finished sending.
CShutdown(c) ==
    /\ cpc[c] = "shutdown"
    /\ \/ CGoto(c, "rename")
       \/ ServerEOF(c) /\ CGoto(c, "fail")
    /\ UNCHANGED <<job, sent, ack, file, wireVars, serverVars>>

\* main() moves the spool file, whatever the ack was.
CRename(c) ==
    /\ cpc[c] = "rename"
    /\ file' = [file EXCEPT ![c] = "PRINTED"]
    /\ CGoto(c, "done")
    /\ UNCHANGED <<job, sent, ack, wireVars, serverVars>>

\* The lp command is killed, its machine dies, or an exception that main() does
\* not catch, such as one from os.rename(), ends it.
CCrash(c) ==
    /\ cpc[c] \notin ClientEnded
    /\ CGoto(c, IF Connected(c) THEN "fail" ELSE "norun")
    /\ UNCHANGED <<job, sent, ack, file, wireVars, serverVars>>

ClientStep(c) ==
    \/ CCheckFile(c) \/ CConnect(c) \/ CConnectFails(c) \/ CSendHandshake(c)
    \/ CRecvReady(c) \/ CSendData(c) \/ CShortFile(c) \/ CRecvAck(c)
    \/ CSocketError(c) \/ CShutdown(c) \/ CRename(c)

-----------------------------------------------------------------------------
(* The server: lp.py.                                                      *)

SGoto(c, pc) == spc' = [spc EXCEPT ![c] = pc]

\* main(): ct = ClientThread(s.accept()); ct.start().  Assigning ct drops the
\* reference to the thread it named before.
SAccept(c) ==
    /\ main = "accepting" /\ c \in Backlog
    /\ ct' = c
    /\ SGoto(c, "handshake")
    /\ UNCHANGED <<job, clientVars, wireVars, got, lp, main>>

\* expect_handshake(): the 45 bytes are there; a size that does not parse and a
\* zero size raise.  What the client sent after the 45 bytes stays in flight.
SHandshake(c) ==
    /\ spc[c] = "handshake" /\ hs[c]
    /\ hs' = [hs EXCEPT ![c] = FALSE]
    /\ SGoto(c, IF job[c].parses /\ job[c].parsed # 0 THEN "ready" ELSE "dead")
    /\ UNCHANGED <<job, clientVars, up, down, got, lp, main, ct>>

\* The bytes _recv_fixed_msg(jobsize) waits for: none if the size is negative.
Wanted(c) == IF job[c].parsed > 0 THEN job[c].parsed ELSE 0

SReady(c) ==
    /\ spc[c] = "ready"
    /\ down' = [down EXCEPT ![c] = Append(@, "READY")]
    /\ SGoto(c, IF Wanted(c) = 0 THEN "job" ELSE "read")
    /\ UNCHANGED <<job, clientVars, hs, up, got, lp, main, ct>>

\* One recv() of read_job_data()'s _recv_fixed_msg(jobsize).
SRead(c) ==
    /\ spc[c] = "read"
    /\ \E k \in 1..(Wanted(c) - got[c]) :
        /\ k <= up[c]
        /\ got' = [got EXCEPT ![c] = @ + k]
        /\ up' = [up EXCEPT ![c] = @ - k]
        /\ SGoto(c, IF got[c] + k = Wanted(c) THEN "job" ELSE "read")
    /\ UNCHANGED <<job, clientVars, hs, down, lp, main, ct>>

Readable(c) == CASE spc[c] = "handshake" -> hs[c]
                 [] spc[c] = "read" -> up[c] > 0
                 [] OTHER -> FALSE

\* recv() returns "" at EOF and _recv_fixed_msg() raises; a client that died
\* may also reset the connection and what was in flight.
MutRecvFails(c) ==
    /\ spc[c] \in {"handshake", "read"}
    /\ (~ Readable(c) /\ ClientEOF(c)) \/ cpc[c] = "fail"
    /\ SGoto(c, IF spc[c] = "read" THEN "job" ELSE "dead")
    /\ UNCHANGED <<job, clientVars, wireVars, got, lp, main, ct>>
SRecvFails(c) ==
    /\ spc[c] \in {"handshake", "read"}
    /\ (~ Readable(c) /\ ClientEOF(c)) \/ cpc[c] = "fail"
    /\ SGoto(c, "dead")
    /\ UNCHANGED <<job, clientVars, wireVars, got, lp, main, ct>>

\* Nothing arrives for 30 seconds: recv() raises socket.timeout.
MutTimeout(c) ==
    /\ spc[c] = "handshake" /\ ~ Readable(c) /\ ~ ClientEOF(c)
    /\ SGoto(c, "dead")
    /\ UNCHANGED <<job, clientVars, wireVars, got, lp, main, ct>>
STimeout(c) ==
    /\ spc[c] \in {"handshake", "read"} /\ ~ Readable(c) /\ ~ ClientEOF(c)
    /\ SGoto(c, "dead")
    /\ UNCHANGED <<job, clientVars, wireVars, got, lp, main, ct>>

\* The temporary file cannot be created or written.
STempFileFails(c) ==
    /\ spc[c] = "job"
    /\ SGoto(c, "dead")
    /\ UNCHANGED <<job, clientVars, wireVars, got, lp, main, ct>>

\* _should_ignore_job() is true and spool_job() is skipped.
SIgnoreJob(c) ==
    /\ spc[c] = "job" /\ job[c].tty
    /\ lp' = [lp EXCEPT ![c] = "ignored"]
    /\ SGoto(c, "ack")
    /\ UNCHANGED <<job, clientVars, wireVars, got, main, ct>>

SSpoolJob(c) ==
    /\ spc[c] = "job" /\ ~ job[c].tty
    /\ \E r \in LpResults : lp' = [lp EXCEPT ![c] = r]
    /\ SGoto(c, "ack")
    /\ UNCHANGED <<job, clientVars, wireVars, got, main, ct>>

\* The wait status os.system() returns: the exit code in the high byte, the
\* signal in the low one, or -1.
OsSystem(r) == CASE r = "exit0" -> 0 [] r = "exitN" -> 256 [] r = "signal" -> 9 [] r = "fork" -> -1

\* status_ok: True for an ignored job, else ret >> 8 == 0, which holds of 0..255.
StatusOk(v) == v = "ignored" \/ OsSystem(v) \in 0..255

MutAckMsg(v) == IF v # "exitN" THEN "SUCCESS" ELSE "FAILURE"
AckMsg(v) == IF StatusOk(v) THEN "SUCCESS" ELSE "FAILURE"

\* send_job_ack(): the ack, then sock.shutdown(1).
MutSendAck(c) ==
    /\ spc[c] \in {"job", "ack"}
    /\ down' = [down EXCEPT ![c] = Append(@, IF lp[c] = "none" THEN "SUCCESS" ELSE AckMsg(lp[c]))]
    /\ SGoto(c, "shutdown")
    /\ UNCHANGED <<job, clientVars, hs, up, got, lp, main, ct>>
SSendAck(c) ==
    /\ spc[c] = "ack"
    /\ down' = [down EXCEPT ![c] = Append(@, AckMsg(lp[c]))]
    /\ SGoto(c, "shutdown")
    /\ UNCHANGED <<job, clientVars, hs, up, got, lp, main, ct>>

\* A send to a client that is gone may raise.
SSendFails(c) ==
    /\ spc[c] \in {"ready", "ack"} /\ cpc[c] = "fail"
    /\ SGoto(c, "dead")
    /\ UNCHANGED <<job, clientVars, wireVars, got, lp, main, ct>>

\* shutdown_connection(); shutdown(0) may raise ENOTCONN, and close() is then
\* not reached.
SShutdown(c) ==
    /\ spc[c] = "shutdown"
    /\ SGoto(c, "done") \/ SGoto(c, "deadfin")
    /\ UNCHANGED <<job, clientVars, wireVars, got, lp, main, ct>>

\* accept() or thread creation fails, or the server is interrupted: main()
\* returns and the listening socket is closed.  Running threads go on.
SMainEnds ==
    /\ main = "accepting"
    /\ main' = "ended"
    /\ UNCHANGED <<job, clientVars, wireVars, spc, got, lp, ct>>

ThreadStep(c) ==
    \/ SHandshake(c) \/ SReady(c) \/ SRead(c) \/ SRecvFails(c) \/ STimeout(c)
    \/ STempFileFails(c) \/ SIgnoreJob(c) \/ SSpoolJob(c) \/ SSendAck(c)
    \/ SSendFails(c) \/ SShutdown(c)

Next ==
    \/ \E c \in Clients : ClientStep(c) \/ CCrash(c) \/ SAccept(c) \/ ThreadStep(c)
    \/ SMainEnds

Spec == Init /\ [][Next]_vars

\* The server's threads run when they can, including the socket timeout, and the
\* main loop accepts what is in its backlog.  Crashes, resets and the end of the
\* server are never required, and neither is anything of the clients.
FairSpec ==
    /\ Spec
    /\ \A c \in Clients : WF_vars(ThreadStep(c)) /\ WF_vars(SAccept(c))

-----------------------------------------------------------------------------
(* Properties.                                                             *)

\* What reaches lp, or the filter that stands in for it, is as many bytes as the
\* server takes the job to have, never a part of them cut short by EOF, a reset
\* or the timeout.  When the handshake keeps to its 45 bytes these are the whole
\* file: every byte of it, and nothing before or after.  When it does not,
\* nothing more can be said, and a wrong job may print: what the server reads
\* begins with the end of the handshake and is cut off at the misread size.
JobIsComplete ==
    \A c \in Clients : lp[c] # "none" =>
        /\ got[c] = Wanted(c)
        /\ job[c].extra = 0 => sent[c] = job[c].size /\ got[c] = sent[c] /\ got[c] > 0

\* The client is told what became of its own job: FAILURE if lp refused it or
\* could not be started, SUCCESS if lp took it or the filter dropped it.  What
\* it is told of an lp that a signal killed is left open: the protocol's text
\* calls the message the result, and the code, which looks only at the exit code
\* in the high byte, says SUCCESS.
AckMatchesVerdict ==
    \A c \in Clients : ack[c] # "none" =>
        /\ lp[c] \in Verdicts
        /\ lp[c] \in {"exitN", "fork"} => ack[c] = "FAILURE"
        /\ lp[c] \in {"exit0", "ignored"} => ack[c] = "SUCCESS"

\* What the two programs promise together, and PrintSpool implements it.
PJ == INSTANCE PrintJob WITH verdict <- lp, told <- ack, place <- file

\* Seen from outside, a run is a job that gets at most one verdict, a client that
\* is told that verdict and no other, and a spool file that moves only after.
ImplementsPrintJob == PJ!Spec

\* The 30-second timeout does its work: no server thread runs for ever, whatever
\* the client does, and also if it stops doing anything.
ThreadsEnd == \A c \in Clients : (spc[c] = "handshake") ~> (spc[c] \in ThreadEnded)

\* A client that runs, which has no timeout of its own, always ends, unless its
\* thread died while `ct' still names it: then its socket stays open until the
\* next connection is accepted.
ClientsEndUnlessLast ==
    \A c \in Clients : WF_vars(ClientStep(c)) =>
        Connected(c) ~> (cpc[c] \in ClientEnded \/ (ct = c /\ spc[c] = "dead"))
=============================================================================

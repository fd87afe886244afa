---------------------------- MODULE AsyncSession ----------------------------
(***************************************************************************)
(* postgresql/blog_libpq_pipeline/async_sample.c: an event loop that sends *)
(* the queries of a linked list over one libpq connection.  main() puts    *)
(* NCommands simple commands and one INSERT on the list; the INSERT's free *)
(* callback puts it back on the list.                                      *)
(*                                                                         *)
(* The file is a draft that no compiler accepts.  Its slips are read as    *)
(* its comments say: a missing brace (line 171), conn for session->conn,   *)
(* QUERY_SENT for SESSION_QUEUED, the callbacks taken from the queue item, *)
(* one sesspoll per session, argc counted without the program's name, and  *)
(* error_die() without the conn that nothing declares.                     *)
(*                                                                         *)
(* libpq, the server and poll() are external.  Pointers are item numbers,  *)
(* NULL, or Wild: what malloc() or the stack happens to hold.              *)
(***************************************************************************)
EXTENDS Integers, Sequences

CONSTANTS
    NCommands,      \* the simple commands main() enqueues: 2
    MaxNotes        \* bound on the server's notifications

ASSUME AsyncAssumption == NCommands \in Nat \ {0} /\ MaxNotes \in Nat

Insert == NCommands + 1
Items == 1..Insert
NULL == 0
Wild == -1
Pointers == Items \cup {NULL, Wild}
Ended == {"exited", "aborted", "crashed"}

VARIABLES
    pc,             \* where the program is
    todo,           \* the next item that main() enqueues
    queue,          \* [head, tail, next]: the session's list
    session_state,
    readable,       \* sesspoll.revents & POLLIN
    conn,           \* libpq's side of the connection, see ConnType
    server,         \* what the server does with the query: "idle", "busy", "answered"
    sock,           \* what the server has sent and libpq has not read
    alive,          \* the server has not closed the connection
    notes,          \* notifications so far
    garbage,        \* the items whose next is not zero before it is set
    freed,          \* the items given to free()
    sent            \* the items whose query was sent since they were enqueued

backend == <<server, sock, alive, notes>>
memory == <<queue, garbage, freed, sent, todo>>
vars == <<pc, session_state, readable, conn, backend, memory>>

\* query: the item whose query libpq is executing, NULL when it is idle;
\* unsent: part of it is still in the send buffer; input: the answers received;
\* noted: the notifications received.
ConnType == [query : Items \cup {NULL}, unsent : BOOLEAN,
             input : Seq({"ok", "error", "ready"}), noted : 0..MaxNotes]

\* malloc() in simple_command_enqueue() and the local variable of main() leave
\* next as it is, and the list's ends are not set before dbconnect() is done.
Init ==
    /\ pc = "connect" /\ todo = 1
    /\ garbage \in SUBSET Items
    /\ \E p \in {NULL, Wild} :
         queue = [head |-> p, tail |-> p,
                  next |-> [i \in Items |-> IF i \in garbage THEN Wild ELSE NULL]]
    /\ session_state = "IDLE" /\ readable \in BOOLEAN
    /\ conn = [query |-> NULL, unsent |-> FALSE, input |-> <<>>, noted |-> 0]
    /\ server = "idle" /\ sock = <<>> /\ alive = TRUE /\ notes = 0
    /\ freed = {} /\ sent = {}

Goto(state) == pc' = state
Quiet == UNCHANGED <<session_state, readable, conn, backend, memory>>

-----------------------------------------------------------------------------
(* libpq and the server.                                                   *)

\* Without a query there is nothing to wait for.
PQisBusy == conn.query # NULL /\ conn.input = <<>>

\* NULL when there is no query or the server is ready for the next one.
PQgetResult ==
    IF conn.query = NULL THEN "NULL"
    ELSE IF Head(conn.input) = "ready" THEN "NULL" ELSE Head(conn.input)
AfterGetResult ==
    IF conn.query = NULL THEN conn
    ELSE [conn EXCEPT !.input = Tail(@), !.query = IF PQgetResult = "NULL" THEN NULL ELSE @]

\* The connection c with its send buffer empty or not.  The server starts when
\* it has the whole query.
Flushed(c, unsent) ==
    /\ unsent => c.unsent
    /\ conn' = [c EXCEPT !.unsent = unsent]
    /\ server' = IF c.unsent /\ ~ unsent THEN "busy" ELSE server

\* The answer, after which the server is ready for another query; notifications
\* at any time; or the end of the connection.
Send(message, state) ==
    /\ alive /\ pc \notin Ended
    /\ sock' = Append(sock, message) /\ server' = state
    /\ UNCHANGED <<pc, session_state, readable, conn, alive, memory>>

ServerAnswers == server = "busy" /\ UNCHANGED notes /\ \E m \in {"ok", "error"} : Send(m, "answered")
ServerReady == server = "answered" /\ UNCHANGED notes /\ Send("ready", "idle")
ServerNotifies == notes < MaxNotes /\ notes' = notes + 1 /\ Send("note", server)

ServerCloses ==
    /\ alive /\ pc \notin Ended \cup {"connect"}
    /\ alive' = FALSE
    /\ UNCHANGED <<pc, session_state, readable, conn, server, sock, notes, memory>>

-----------------------------------------------------------------------------
(* The list.                                                               *)

\* assert() of a build without NDEBUG.
Assert(e) == e

\* push_query_queue_item(): next of the new item is not set.
PushAsserts(q) ==
    IF q.head = NULL THEN Assert(q.tail = NULL)
    ELSE Assert(q.tail # NULL) /\ Assert(q.next[q.tail] = NULL)

MutPush(q, item) ==
    IF q.head = NULL THEN [q EXCEPT !.head = item, !.tail = item]
    ELSE [q EXCEPT !.next[q.tail] = item]
Push(q, item) ==
    IF q.head = NULL THEN [q EXCEPT !.head = item, !.tail = item]
    ELSE [q EXCEPT !.next[q.tail] = item, !.tail = item]

\* The item leaves the list before its free callback is called.
MutUnlink(q) == [q EXCEPT !.head = q.next[q.head]]
Unlink(q) ==
    LET head == q.next[q.head]
    IN  [q EXCEPT !.head = head, !.tail = IF head = NULL THEN NULL ELSE @]

\* The free callbacks, for an item that is no longer on the list q: a command is
\* freed, the INSERT is enqueued again.
simple_command_free(item, q, state) ==
    Goto(state) /\ queue' = q /\ freed' = freed \cup {item}

insert_query_free(item, q, state) ==
    /\ IF Assert(q.head # item) /\ Assert(q.tail # item) /\ PushAsserts(q)
       THEN Goto(state) /\ queue' = Push(q, item)
       ELSE Goto("aborted") /\ queue' = q
    /\ UNCHANGED freed

\* pop_query_queue_item().
Pop(state) ==
    LET item == queue.head
        q == Unlink(queue)
    IN  IF item = Wild THEN Goto("crashed") /\ UNCHANGED <<queue, freed, sent>>
        ELSE /\ sent' = sent \ {item}
             /\ IF item # Insert THEN simple_command_free(item, q, state)
                ELSE insert_query_free(item, q, state)

-----------------------------------------------------------------------------
(* main() and the event loop.                                              *)

\* dbconnect().  When it fails, error_die() finds the session registered and
\* its list not initialised.
Connect ==
    /\ pc = "connect"
    /\ \/ Goto("enqueue") /\ queue' = [queue EXCEPT !.head = NULL, !.tail = NULL]
       \/ Goto("die") /\ UNCHANGED queue
    /\ UNCHANGED <<session_state, readable, conn, backend, garbage, freed, sent, todo>>

\* simple_command_enqueue() and, last, insert_query_enqueue().
Enqueue ==
    /\ pc = "enqueue"
    /\ IF PushAsserts(queue)
       THEN /\ queue' = Push(queue, todo) /\ todo' = todo + 1
            /\ Goto(IF todo = Insert THEN "service" ELSE "enqueue")
       ELSE Goto("aborted") /\ UNCHANGED <<queue, todo>>
    /\ UNCHANGED <<session_state, readable, conn, backend, garbage, freed, sent>>

\* service_session() drains the socket, which flushes the send buffer too, and
\* takes one notification.
ReadInput ==
    /\ pc = "service"
    /\ \E unsent \in BOOLEAN, broken \in {~ alive, FALSE} :
         IF readable /\ broken THEN Goto("die") /\ UNCHANGED <<conn, backend>>
         ELSE LET IsNote(m) == m = "note"
                  IsAnswer(m) == m # "note"
                  noted == conn.noted + (IF readable THEN Len(SelectSeq(sock, IsNote)) ELSE 0)
                  input == conn.input \o (IF readable THEN SelectSeq(sock, IsAnswer) ELSE <<>>)
              IN  /\ Goto("switch")
                  /\ ~ readable => unsent = conn.unsent
                  /\ Flushed([conn EXCEPT !.input = input,
                                          !.noted = IF noted = 0 THEN 0 ELSE noted - 1], unsent)
                  /\ sock' = IF readable THEN <<>> ELSE sock
                  /\ UNCHANGED <<alive, notes>>
    /\ UNCHANGED <<session_state, readable, memory>>

\* SESSION_IDLE falls through to SESSION_QUEUED.  PQflush() returns 0 when it
\* has sent everything and 1 when it has not, and 1 makes the session FLUSHED.
SendQuery ==
    /\ pc = "switch" /\ session_state \in {"IDLE", "QUEUED"}
    /\ LET sends == session_state = "IDLE" /\ queue.head # NULL
           c == [conn EXCEPT !.query = queue.head, !.unsent = TRUE]
       IN  IF sends /\ conn.query # NULL
           THEN Goto("die") /\ UNCHANGED <<conn, server, session_state, sent>>
           ELSE /\ sent' = IF sends THEN sent \cup {queue.head} ELSE sent
                /\ \/ /\ ~ alive /\ Goto("die")
                      /\ UNCHANGED <<conn, server, session_state>>
                   \/ \E unsent \in BOOLEAN :
                        /\ Flushed(IF sends THEN c ELSE conn, unsent)
                        /\ session_state' = IF unsent THEN "FLUSHED"
                                            ELSE IF sends THEN "QUEUED" ELSE session_state
                        /\ Goto("poll")
    /\ UNCHANGED <<readable, sock, alive, notes, queue, garbage, freed, todo>>

\* The result callbacks die of an error.  A command must return PGRES_COMMAND_OK;
\* RETURNING (id, dummyval) is one field, and the INSERT expects two.
simple_command_result(res) == res = "error"
insert_query_result(res) == res # "NULL"
ResultDies(item, res) == IF item = Insert THEN insert_query_result(res) ELSE simple_command_result(res)

MutPopsAt(res) == TRUE
PopsAt(res) == res = "NULL"

\* At the head of the loop.
AtResults == (pc = "switch" /\ session_state = "FLUSHED") \/ pc = "results"

\* One turn of the loop over the results.
Results ==
    /\ AtResults
    /\ IF PQisBusy
       THEN Goto("poll") /\ UNCHANGED <<session_state, conn, queue, freed, sent>>
       ELSE /\ conn' = AfterGetResult
            /\ IF queue.head \notin Items
               THEN Goto("crashed") /\ UNCHANGED <<session_state, queue, freed, sent>>
               ELSE IF ResultDies(queue.head, PQgetResult)
               THEN Goto("die") /\ UNCHANGED <<session_state, queue, freed, sent>>
               ELSE IF PopsAt(PQgetResult) THEN Pop("results") /\ session_state' = "IDLE"
               ELSE Goto("results") /\ UNCHANGED <<session_state, queue, freed, sent>>
    /\ UNCHANGED <<readable, backend, garbage, todo>>

\* sample_mainloop() waits to read, and to write if there is something to send;
\* poll() may also be interrupted.
WantsToWrite == session_state = "QUEUED" \/ (session_state = "IDLE" /\ queue.head # NULL)

Poll ==
    /\ pc = "poll" /\ (WantsToWrite \/ sock # <<>> \/ ~ alive)
    /\ Goto("service")
    /\ readable' = (sock # <<>> \/ ~ alive)
    /\ UNCHANGED <<session_state, conn, backend, memory>>

PollFails == pc = "poll" /\ Goto("die") /\ Quiet

\* error_die(): kill_sessions() empties the list, closes the connection; exit().
KillSession ==
    /\ pc = "die"
    /\ IF queue.head # NULL THEN Pop("die") ELSE Goto("exited") /\ UNCHANGED <<queue, freed, sent>>
    /\ UNCHANGED <<session_state, readable, conn, backend, garbage, todo>>

Program ==
    \/ Connect \/ Enqueue \/ ReadInput \/ SendQuery \/ Results \/ Poll \/ KillSession

Next ==
    \/ Program \/ PollFails
    \/ ServerAnswers \/ ServerReady \/ ServerNotifies \/ ServerCloses

Spec == Init /\ [][Next]_vars

-----------------------------------------------------------------------------
(* Properties.                                                             *)

\* The state is in its types; in particular the answers libpq holds are those of
\* its query.
TypeOK ==
    /\ pc \in {"connect", "enqueue", "service", "switch", "results", "poll", "die"} \cup Ended
    /\ queue \in [head : Pointers, tail : Pointers, next : [Items -> Pointers]]
    /\ session_state \in {"IDLE", "QUEUED", "FLUSHED"}
    /\ conn \in ConnType /\ server \in {"idle", "busy", "answered"}
    /\ sock \in Seq({"ok", "error", "ready", "note"}) /\ notes \in 0..MaxNotes
    /\ garbage \subseteq Items /\ freed \subseteq Items /\ sent \subseteq Items
    /\ todo \in 1..(Insert + 1) /\ {readable, alive} \subseteq BOOLEAN

\* The items met on the way from the head of the list, in order.
Walk ==
    LET step[k \in 0..Insert] ==
            IF k = 0 THEN queue.head
            ELSE IF step[k - 1] \in Items THEN queue.next[step[k - 1]] ELSE NULL
    IN  step

\* From dbconnect() until an assertion fails, whatever memory held at the start: the
\* items met on the way from the head are those that were enqueued and are not freed,
\* in the order in which they were enqueued; the last of them is the tail, and next of
\* the tail is NULL or what malloc() or the stack left there.  The INSERT, which its
\* free callback enqueues again, is the only item left when it does so: with the
\* queue that main() makes, that callback never meets another item.
QueueIntact ==
    (pc = "enqueue" \/ todo > 1) /\ pc \notin Ended =>
        LET queued == (1..(todo - 1)) \ freed
            met == {k \in 0..Insert : Walk[k] \in Items}
        IN  /\ {Walk[k] : k \in met} = queued
            /\ \A k \in met : k > 0 => Walk[k - 1] < Walk[k]
            /\ queued = {} => queue.head = NULL /\ queue.tail = NULL
            /\ \A k \in met : k + 1 \notin met =>
                    /\ queue.tail = Walk[k]
                    /\ queue.next[Walk[k]] # NULL => Walk[k] \in garbage

\* Memory that nobody has initialised is caught: the assertions stop the program
\* before it follows such a pointer, and nothing else makes an assertion fail, not
\* even an item that is pushed by its own free callback.  The exception, todo = 1, is
\* the error path of dbconnect(): there nothing is in the way of the pointer.
GarbageIsCaught ==
    /\ pc = "crashed" => todo = 1
    /\ pc = "aborted" => garbage # {}

\* The query libpq is executing is that of the first item of the list, until an error
\* ends the program, so a result that is not NULL only goes to the item it belongs to.
\* But only one query is ever sent.  The loop over the results ends when libpq is busy,
\* which it is not without a query: after the first query's NULL the session is idle
\* and the loop goes on, giving a NULL to the first item of the list, which was never
\* sent, and taking it off.  So result callbacks are not only called after "a matching
\* query send callback" (lines 61 and 62), "we'll wait for the next poll() cycle" (454
\* to 456) is not what happens, and the INSERTs that "keep re-running forever" (622 to
\* 625) do not run at all.
OneQueryOnly ==
    /\ sent \subseteq {1}
    /\ (conn.query # NULL /\ pc \notin {"die"} \cup Ended) =>
            queue.head = conn.query /\ conn.query \in sent /\ session_state # "IDLE"
    /\ (conn.query = NULL /\ pc = "results") =>
            queue.head \notin sent /\ session_state = "IDLE"

=============================================================================

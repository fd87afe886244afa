------------------------- MODULE AsyncSessionProofs -------------------------
(***************************************************************************)
(* Proofs about AsyncSession, for every number of commands and             *)
(* notifications and every content of the memory that is not initialised.  *)
(***************************************************************************)
EXTENDS AsyncSession, TLAPS, WellFoundedInduction

Running == {"service", "switch", "results", "poll"}

\* queue and conn are records.
Records ==
    /\ queue \in [head : Pointers, tail : Pointers, next : [Items -> Pointers]]
    /\ conn = [query |-> conn.query, unsent |-> conn.unsent, input |-> conn.input,
               noted |-> conn.noted]

\* An item that was followed by another is linked to it; the next of all others is
\* what it was when the program started.
Links ==
    \A i \in Items :
        queue.next[i] = IF i + 1 < todo THEN i + 1 ELSE IF i \in garbage THEN Wild ELSE NULL

\* How far main() is, and with it the list's ends.
Progress ==
    /\ todo \in 1..(Insert + 1)
    /\ pc = "connect" => todo = 1 /\ queue.head \in {NULL, Wild}
    /\ pc = "enqueue" => todo <= Insert /\ (todo = 1 => queue.head = NULL /\ queue.tail = NULL)
    /\ pc \in Running => todo = Insert + 1
    /\ pc = "die" => todo = Insert + 1 \/ (todo = 1 /\ queue.head \in {NULL, Wild})
    /\ todo >= 2 /\ pc \notin Ended => queue.head \in 1..(todo - 1) /\ queue.tail = todo - 1

\* libpq executes nothing before the event loop, and then the first item.
Agree ==
    conn.query # NULL =>
        /\ pc \notin {"connect", "enqueue"}
        /\ pc \in {"die"} \cup Ended \/ (queue.head = conn.query /\ conn.query \in sent /\ session_state # "IDLE")

IInv == Records /\ Links /\ Progress /\ Agree /\ GarbageIsCaught

-----------------------------------------------------------------------------
\* The items are numbered from 1, and there are two at least.
LEMMA ItemFacts ==
    /\ Insert \in Nat /\ Insert >= 2 /\ Items = 1..Insert
    /\ NULL \notin Items /\ Wild \notin Items /\ NULL # Wild
    /\ NULL \in Pointers /\ Wild \in Pointers /\ Items \subseteq Pointers
BY AsyncAssumption DEF Insert, Items, NULL, Wild, Pointers

\* A complete list is taken off item by item: the next item becomes the first and the
\* command is freed, or INSERT is put back, or the assertion about the tail meets what
\* malloc() left in the next of INSERT.
LEMMA PopKeeps ==
    ASSUME Records, Links, todo = Insert + 1, queue.head \in Items, queue.tail = Insert,
           NEW state, Pop(state)
    PROVE  /\ queue' \in [head : Pointers, tail : Pointers, next : [Items -> Pointers]]
           /\ queue'.next = queue.next /\ sent' = sent \ {queue.head}
           /\ \/ /\ pc' = state /\ queue'.head \in Items /\ queue'.tail = Insert
                 /\ queue'.head = IF queue.head = Insert THEN Insert ELSE queue.head + 1
                 /\ freed' = IF queue.head = Insert THEN freed ELSE freed \cup {queue.head}
              \/ pc' = "aborted" /\ garbage # {}
<1> DEFINE item == queue.head
           after == queue.next[item]
           q == Unlink(queue)
<1>1. after = IF item + 1 < Insert + 1 THEN item + 1 ELSE IF item \in garbage THEN Wild ELSE NULL
  BY DEF Links
<1>2. /\ queue \in [head : Pointers, tail : Pointers, next : [Items -> Pointers]]
      /\ item \in 1..Insert /\ item # Wild /\ Insert \in Nat /\ Insert \in Items /\ Insert \in Pointers
  BY ItemFacts DEF Records
<1>3. /\ q \in [head : Pointers, tail : Pointers, next : [Items -> Pointers]]
      /\ q.head = after /\ q.next = queue.next
      /\ q.tail = IF after = NULL THEN NULL ELSE Insert
  BY <1>2, ItemFacts DEF Unlink
<1>0. sent' = sent \ {item}
  BY <1>2 DEF Pop
<1>4. CASE item # Insert
  <2>1. pc' = state /\ queue' = q /\ freed' = freed \cup {item}
    BY <1>2, <1>4 DEF Pop, simple_command_free, insert_query_free, Goto
  <2>2. after \in Items /\ after # NULL /\ after = item + 1
    BY <1>1, <1>2, <1>4, ItemFacts
  <2> QED
    BY <1>0, <1>3, <1>4, <2>1, <2>2
<1>5. CASE item = Insert /\ Insert \in garbage
  <2>1. after = Wild /\ q.tail = item
    BY <1>1, <1>2, <1>3, <1>5, ItemFacts
  <2>2. pc' = "aborted" /\ queue' = q
    BY <1>2, <1>5, <2>1 DEF Pop, simple_command_free, insert_query_free, Goto, Assert
  <2> QED
    BY <1>0, <1>3, <1>5, <2>2
<1>6. CASE item = Insert /\ Insert \notin garbage
  <2>1. q.head = NULL /\ q.tail = NULL
    BY <1>1, <1>2, <1>3, <1>6, ItemFacts
  <2>2. q.head # item /\ q.tail # item /\ PushAsserts(q)
    BY <1>6, <2>1, ItemFacts DEF PushAsserts, Assert
  <2>3. pc' = state /\ queue' = Push(q, Insert) /\ freed' = freed
    BY <1>2, <1>6, <2>2 DEF Pop, simple_command_free, insert_query_free, Goto, Assert
  <2>4. Push(q, Insert) = [q EXCEPT !.head = Insert, !.tail = Insert]
    BY <2>1 DEF Push
  <2> QED
    BY <1>0, <1>2, <1>3, <1>6, <2>3, <2>4
<1> QED
  BY <1>4, <1>5, <1>6

\* The links only depend on the list, todo and the garbage.
LEMMA LinksKept ==
    ASSUME Links, queue'.next = queue.next, todo' = todo, garbage' = garbage
    PROVE  Links'
BY DEF Links

-----------------------------------------------------------------------------
\* The invariant holds at the start.
LEMMA InitIInv == Init => IInv
<1> SUFFICES ASSUME Init PROVE IInv
  OBVIOUS
<1>1. PICK p \in {NULL, Wild} :
         queue = [head |-> p, tail |-> p,
                  next |-> [i \in Items |-> IF i \in garbage THEN Wild ELSE NULL]]
  BY DEF Init
<1>2. Records
  BY <1>1, ItemFacts DEF Init, Records
<1>3. Links
  BY <1>1, ItemFacts DEF Init, Links
<1>4. Progress /\ Agree /\ GarbageIsCaught
  BY ItemFacts DEF Init, Progress, Agree, GarbageIsCaught, Running, Ended
<1> QED
  BY <1>2, <1>3, <1>4 DEF IInv

\* dbconnect() keeps it.
LEMMA ConnectStep == ASSUME IInv, Connect PROVE IInv'
<1>1. /\ pc = "connect" /\ pc' \in {"enqueue", "die"}
      /\ queue' \in [head : Pointers, tail : Pointers, next : [Items -> Pointers]]
      /\ queue'.next = queue.next
      /\ pc' = "enqueue" => queue'.head = NULL /\ queue'.tail = NULL
      /\ pc' = "die" => queue' = queue
  BY ItemFacts DEF Connect, Goto, IInv, Records
<1>2. UNCHANGED <<session_state, conn, garbage, todo>>
  BY DEF Connect
<1>3. todo = 1 /\ conn.query = NULL
  BY <1>1 DEF IInv, Progress, Agree
<1>4. Records' /\ Links'
  BY <1>1, <1>2, LinksKept DEF IInv, Records
<1> QED
  BY <1>1, <1>2, <1>3, <1>4, ItemFacts
  DEF IInv, Progress, Agree, GarbageIsCaught, Running, Ended

\* main() keeps it when it enqueues an item.
LEMMA EnqueueStep == ASSUME IInv, Enqueue PROVE IInv'
<1>1. /\ pc = "enqueue" /\ todo \in 1..Insert /\ conn.query = NULL
      /\ UNCHANGED <<session_state, conn, garbage>>
      /\ todo = 1 => queue.head = NULL /\ queue.tail = NULL
      /\ todo >= 2 => queue.head \in 1..(todo - 1) /\ queue.tail = todo - 1
  BY ItemFacts DEF Enqueue, IInv, Progress, Agree, Ended
<1>2. /\ queue \in [head : Pointers, tail : Pointers, next : [Items -> Pointers]]
      /\ todo \in Items /\ todo \in Pointers /\ Insert \in Nat
  BY <1>1, ItemFacts DEF IInv, Records
<1>3. CASE ~ PushAsserts(queue)
  <2>1. pc' = "aborted" /\ UNCHANGED <<queue, todo>>
    BY <1>3 DEF Enqueue, Goto
  <2>2. todo >= 2
    BY <1>1, <1>3, ItemFacts DEF PushAsserts, Assert
  <2>3. queue.head # NULL /\ queue.tail # NULL /\ queue.tail = todo - 1 /\ queue.tail \in Items
    BY <1>1, <1>2, <2>2, ItemFacts
  <2>4. queue.next[queue.tail] # NULL
    BY <1>3, <2>3 DEF PushAsserts, Assert
  <2>5. queue.tail \in garbage
    BY <1>1, <2>3, <2>4 DEF IInv, Links
  <2>6. Links'
    BY <1>1, <2>1, LinksKept DEF IInv
  <2> QED
    BY <1>1, <2>1, <2>5, <2>6, ItemFacts
    DEF IInv, Records, Progress, Agree, GarbageIsCaught, Running, Ended
<1>4. CASE PushAsserts(queue)
  <2>1. /\ queue' = Push(queue, todo) /\ todo' = todo + 1
        /\ pc' = IF todo = Insert THEN "service" ELSE "enqueue"
    BY <1>4 DEF Enqueue, Goto
  <2>2. CASE todo = 1
    <3>1. queue' = [queue EXCEPT !.head = 1, !.tail = 1]
      BY <1>1, <2>1, <2>2 DEF Push
    <3>2. /\ queue' \in [head : Pointers, tail : Pointers, next : [Items -> Pointers]]
          /\ queue'.next = queue.next /\ queue'.head = 1 /\ queue'.tail = 1
      BY <1>2, <2>2, <3>1
    <3>3. Links'
      BY <1>1, <2>1, <2>2, <3>2, ItemFacts DEF IInv, Links
    <3> QED
      BY <1>1, <2>1, <2>2, <3>2, <3>3, ItemFacts
      DEF IInv, Records, Progress, Agree, GarbageIsCaught, Running, Ended
  <2>3. CASE todo >= 2
    <3>1. /\ queue.head # NULL /\ queue.tail = todo - 1 /\ queue.tail \in Items
          /\ queue.head \in 1..(todo - 1)
      BY <1>1, <1>2, <2>3, ItemFacts
    <3>2. queue' = [queue EXCEPT !.next[queue.tail] = todo, !.tail = todo]
      BY <2>1, <3>1 DEF Push
    <3>3. /\ queue' \in [head : Pointers, tail : Pointers, next : [Items -> Pointers]]
          /\ queue'.head = queue.head /\ queue'.tail = todo
          /\ queue'.next = [queue.next EXCEPT ![todo - 1] = todo]
      BY <1>2, <3>1, <3>2
    <3>4. Links'
      <4> SUFFICES ASSUME NEW i \in Items
                   PROVE  queue'.next[i] = IF i + 1 < todo' THEN i + 1
                                           ELSE IF i \in garbage THEN Wild ELSE NULL
        BY <1>1 DEF Links
      <4>1. /\ i \in Nat /\ todo \in Nat /\ todo' = todo + 1
            /\ queue.next \in [Items -> Pointers] /\ todo - 1 \in Items
            /\ queue'.next = [queue.next EXCEPT ![todo - 1] = todo]
        BY <1>1, <1>2, <2>1, <3>1, <3>3, ItemFacts
      <4>2. queue.next[i] = IF i + 1 < todo THEN i + 1 ELSE IF i \in garbage THEN Wild ELSE NULL
        BY DEF IInv, Links
      <4>3. CASE i = todo - 1
        <5>1. queue'.next[i] = todo
          BY <4>1, <4>3
        <5>2. todo = i + 1 /\ i + 1 < todo'
          BY <4>1, <4>3
        <5> QED
          BY <5>1, <5>2
      <4>4. CASE i # todo - 1
        <5>1. queue'.next[i] = queue.next[i]
          BY <4>1, <4>4
        <5>2. i + 1 < todo' <=> i + 1 < todo
          BY <4>1, <4>4
        <5> QED
          BY <4>2, <5>1, <5>2
      <4> QED
        BY <4>3, <4>4
    <3> QED
      BY <1>1, <2>1, <2>3, <3>1, <3>3, <3>4, ItemFacts
      DEF IInv, Records, Progress, Agree, GarbageIsCaught, Running, Ended
  <2> QED
    BY <1>1, <2>2, <2>3
<1> QED
  BY <1>3, <1>4

\* While the list and the place in main() stay, so do Links and Progress.
LEMMA ListKept ==
    ASSUME IInv, UNCHANGED <<queue, todo, garbage>>,
           pc' = pc \/ (pc \in Running /\ pc' \in Running \cup {"die"})
    PROVE  Links' /\ Progress' /\ GarbageIsCaught'
<1>1. Links'
  BY LinksKept DEF IInv
<1>2. Progress'
  BY ItemFacts DEF IInv, Progress, Running, Ended
<1>3. GarbageIsCaught'
  BY DEF IInv, GarbageIsCaught, Running
<1> QED
  BY <1>1, <1>2, <1>3

\* service_session() keeps it when it reads.
LEMMA ReadInputStep == ASSUME IInv, ReadInput PROVE IInv'
<1>1. pc = "service" /\ UNCHANGED <<queue, todo, garbage, session_state, sent>>
  BY DEF ReadInput, memory
<1>2. \/ pc' = "die" /\ conn' = conn
      \/ pc' = "switch" /\ \E c, unsent : /\ conn' = [c EXCEPT !.unsent = unsent]
                                           /\ \E input, noted :
                                                c = [conn EXCEPT !.input = input, !.noted = noted]
  <2> DEFINE IsNote(m) == m = "note"
             IsAnswer(m) == m # "note"
             noted == conn.noted + (IF readable THEN Len(SelectSeq(sock, IsNote)) ELSE 0)
             input == conn.input \o (IF readable THEN SelectSeq(sock, IsAnswer) ELSE <<>>)
             c == [conn EXCEPT !.input = input, !.noted = IF noted = 0 THEN 0 ELSE noted - 1]
  <2>1. PICK unsent \in BOOLEAN :
           \/ pc' = "die" /\ conn' = conn
           \/ pc' = "switch" /\ Flushed(c, unsent)
    BY Zenon DEF ReadInput, Goto
  <2> HIDE DEF noted, input
  <2>2. CASE pc' = "die" /\ conn' = conn
    BY <2>2
  <2>3. CASE pc' = "switch" /\ Flushed(c, unsent)
    BY <2>3, Zenon DEF Flushed
  <2> QED
    BY <2>1, <2>2, <2>3
<1>3. /\ conn'.query = conn.query
      /\ conn' = [query |-> conn'.query, unsent |-> conn'.unsent, input |-> conn'.input,
                  noted |-> conn'.noted]
  BY <1>2 DEF IInv, Records
<1>4. Links' /\ Progress' /\ GarbageIsCaught'
  BY <1>1, <1>2, ListKept DEF Running
<1>5. Records'
  BY <1>1, <1>3 DEF IInv, Records
<1>6. Agree'
  BY <1>1, <1>2, <1>3 DEF IInv, Agree, Ended
<1> QED
  BY <1>4, <1>5, <1>6 DEF IInv

\* service_session() keeps it when it sends.
LEMMA SendQueryStep == ASSUME IInv, SendQuery PROVE IInv'
<1> DEFINE sends == session_state = "IDLE" /\ queue.head # NULL
           c == IF sends THEN [conn EXCEPT !.query = queue.head, !.unsent = TRUE] ELSE conn
<1>1. /\ pc = "switch" /\ session_state \in {"IDLE", "QUEUED"}
      /\ UNCHANGED <<queue, todo, garbage>>
  BY DEF SendQuery
<1>2. \/ pc' = "die" /\ UNCHANGED <<conn, session_state>>
      \/ /\ pc' = "poll" /\ ~ (sends /\ conn.query # NULL)
         /\ sent' = IF sends THEN sent \cup {queue.head} ELSE sent
         /\ \E unsent : conn' = [c EXCEPT !.unsent = unsent]
         /\ session_state' # "IDLE" \/ (~ sends /\ session_state' = session_state)
  BY DEF SendQuery, Flushed, Goto
<1>3. /\ conn' = [query |-> conn'.query, unsent |-> conn'.unsent, input |-> conn'.input,
                  noted |-> conn'.noted]
      /\ conn'.query = conn.query \/ (pc' = "poll" /\ sends /\ conn'.query = queue.head)
  BY <1>2 DEF IInv, Records
<1>4. Links' /\ Progress' /\ GarbageIsCaught'
  BY <1>1, <1>2, ListKept DEF Running
<1>5. Records'
  BY <1>1, <1>3 DEF IInv, Records
<1>6. Agree'
  BY <1>1, <1>2, <1>3 DEF IInv, Agree, Ended
<1> QED
  BY <1>4, <1>5, <1>6 DEF IInv

\* A complete list and its ends, in the event loop and in kill_sessions().
LEMMA Complete ==
    ASSUME IInv, pc \in Running \/ (pc = "die" /\ todo # 1)
    PROVE  todo = Insert + 1 /\ queue.head \in Items /\ queue.tail = Insert
BY ItemFacts DEF IInv, Progress, Running, Ended

\* The loop over the results keeps it.
LEMMA ResultsStep == ASSUME IInv, Results PROVE IInv'
<1>1. /\ pc \in Running /\ UNCHANGED <<todo, garbage>>
      /\ todo = Insert + 1 /\ queue.head \in Items /\ queue.tail = Insert
  BY Complete DEF Results, AtResults, Running
<1>2. \/ /\ pc' \in Running \cup {"die"} /\ queue' = queue /\ session_state' = session_state
         /\ sent' = sent
         /\ \/ conn' = conn
            \/ conn' = AfterGetResult /\ PQgetResult # "NULL"
            \/ conn' = AfterGetResult /\ pc' = "die"
      \/ /\ Pop("results") /\ session_state' = "IDLE"
         /\ conn' = AfterGetResult /\ PQgetResult = "NULL"
  BY <1>1, Zenon DEF Results, Goto, PopsAt, Running
<1>3. /\ conn' = [query |-> conn'.query, unsent |-> conn'.unsent, input |-> conn'.input,
                  noted |-> conn'.noted]
      /\ conn'.query # NULL => conn'.query = conn.query
      /\ conn' = AfterGetResult /\ PQgetResult = "NULL" => conn'.query = NULL
  BY <1>2 DEF AfterGetResult, IInv, Records
<1>4. CASE /\ pc' \in Running \cup {"die"}
           /\ queue' = queue /\ session_state' = session_state /\ sent' = sent
  <2>1. Links' /\ Progress' /\ GarbageIsCaught'
    BY <1>1, <1>4, ListKept
  <2>2. Records'
    BY <1>3, <1>4 DEF IInv, Records
  <2>3. Agree'
    BY <1>1, <1>3, <1>4 DEF IInv, Agree, Ended, Running
  <2> QED
    BY <2>1, <2>2, <2>3 DEF IInv
<1>5. CASE Pop("results") /\ session_state' = "IDLE" /\ conn'.query = NULL
  <2>1. /\ queue' \in [head : Pointers, tail : Pointers, next : [Items -> Pointers]]
        /\ queue'.next = queue.next
        /\ \/ pc' = "results" /\ queue'.head \in Items /\ queue'.tail = Insert
           \/ pc' = "aborted" /\ garbage # {}
    BY <1>1, <1>5, PopKeeps DEF IInv
  <2>2. Links' /\ Records'
    BY <1>1, <1>3, <2>1, LinksKept DEF IInv, Records
  <2>3. Progress' /\ GarbageIsCaught'
    BY <1>1, <2>1, ItemFacts DEF Progress, GarbageIsCaught, Running, Ended
  <2> QED
    BY <1>5, <2>2, <2>3 DEF IInv, Agree
<1> QED
  BY <1>2, <1>3, <1>4, <1>5

\* kill_sessions() keeps it.
LEMMA KillSessionStep == ASSUME IInv, KillSession PROVE IInv'
<1>1. pc = "die" /\ UNCHANGED <<session_state, conn, garbage, todo>>
  BY DEF KillSession
<1>2. CASE todo = 1
  <2>1. queue' = queue /\ pc' \in {"exited", "crashed"}
    BY <1>1, <1>2, ItemFacts DEF KillSession, Pop, simple_command_free, insert_query_free, Goto, IInv, Progress
  <2>2. Links'
    BY <1>1, <2>1, LinksKept DEF IInv
  <2> QED
    BY <1>1, <1>2, <2>1, <2>2, ItemFacts
    DEF IInv, Records, Progress, Agree, GarbageIsCaught, Running, Ended
<1>3. CASE todo # 1
  <2>1. todo = Insert + 1 /\ queue.head \in Items /\ queue.tail = Insert
    BY <1>1, <1>3, Complete
  <2>2. Pop("die")
    BY <2>1, ItemFacts DEF KillSession
  <2>3. /\ queue' \in [head : Pointers, tail : Pointers, next : [Items -> Pointers]]
        /\ queue'.next = queue.next
        /\ \/ pc' = "die" /\ queue'.head \in Items /\ queue'.tail = Insert
           \/ pc' = "aborted" /\ garbage # {}
    BY <2>1, <2>2, PopKeeps DEF IInv
  <2>4. Links' /\ Records'
    BY <1>1, <2>3, LinksKept DEF IInv, Records
  <2>5. Progress' /\ GarbageIsCaught' /\ Agree'
    BY <1>1, <2>1, <2>3, ItemFacts
    DEF Progress, GarbageIsCaught, Agree, Running, Ended
  <2> QED
    BY <2>4, <2>5 DEF IInv
<1> QED
  BY <1>2, <1>3

\* poll() and the server keep it: they change nothing that it looks at but pc.
LEMMA OutsideStep ==
    ASSUME IInv, UNCHANGED <<queue, todo, garbage, conn, session_state, sent>>,
           pc' = pc \/ (pc \in Running /\ pc' \in Running \cup {"die"})
    PROVE  IInv'
<1>1. Links' /\ Progress' /\ GarbageIsCaught'
  BY ListKept
<1>2. Records' /\ Agree'
  BY DEF IInv, Records, Agree, Running, Ended
<1> QED
  BY <1>1, <1>2 DEF IInv

\* Every step keeps it.
LEMMA NextIInv == IInv /\ [Next]_vars => IInv'
<1> SUFFICES ASSUME IInv, [Next]_vars PROVE IInv'
  OBVIOUS
<1>1. CASE Program /\ ~ Poll
  BY <1>1, ConnectStep, EnqueueStep, ReadInputStep, SendQueryStep, ResultsStep, KillSessionStep
  DEF Program
<1>2. CASE Poll \/ PollFails
  BY <1>2, OutsideStep DEF Poll, PollFails, Quiet, Goto, memory, Running
<1>3. CASE ServerAnswers \/ ServerReady \/ ServerNotifies
  BY <1>3, OutsideStep DEF ServerAnswers, ServerReady, ServerNotifies, Send, memory
<1>4. CASE ServerCloses
  BY <1>4, OutsideStep DEF ServerCloses, memory
<1>5. CASE UNCHANGED vars
  BY <1>5, OutsideStep DEF vars, memory
<1> QED
  BY <1>1, <1>2, <1>3, <1>4, <1>5 DEF Next, Program

\* IInv is an invariant.
LEMMA SpecIInv == Spec => []IInv
BY InitIInv, NextIInv, PTL DEF Spec

-----------------------------------------------------------------------------
\* The assertions of push_query_queue_item() and pop_query_queue_item() stop the
\* program before a pointer that nobody has set is followed, once dbconnect() has
\* returned; on its error path, with todo = 1, nothing does.  And nothing but such a
\* pointer makes an assertion fail, although insert_query_free() pushes the item that
\* is being popped.
THEOREM OnlyGarbageStops == Spec => []GarbageIsCaught
<1>1. IInv => GarbageIsCaught
  BY DEF IInv
<1> QED
  BY <1>1, SpecIInv, PTL

-----------------------------------------------------------------------------
(* The one query that is sent.                                             *)

\* Whatever is sent is item 1, which heads the list while service_session() is not in
\* its loop; there, without a query under way, the loop is past item 1.
OneInv ==
    /\ sent \subseteq {1}
    /\ pc \in {"enqueue", "service", "switch", "poll"} /\ todo >= 2 => queue.head = 1
    /\ pc = "results" /\ conn.query = NULL => queue.head # 1 /\ session_state = "IDLE"

\* The steps that leave the list, the query and what was sent alone, or end the loop.
LEMMA OneKept ==
    ASSUME OneInv, UNCHANGED <<queue, todo, sent>>,
           \/ pc' = pc /\ conn'.query = conn.query /\ session_state' = session_state
           \/ pc' \in {"die"} \cup Ended
           \/ pc \in Running \ {"results"} /\ pc' \in Running \ {"results"}
    PROVE  OneInv'
BY DEF OneInv, Running, Ended

\* Enqueuing appends to the list, and item 1 is the first.
LEMMA EnqueueOne == ASSUME IInv, OneInv, Enqueue PROVE OneInv'
<1>1. /\ pc = "enqueue" /\ sent' = sent /\ todo \in 1..Insert /\ Insert \in Nat
      /\ queue \in [head : Pointers, tail : Pointers, next : [Items -> Pointers]]
      /\ todo = 1 => queue.head = NULL
      /\ todo >= 2 => queue.head = 1
  BY ItemFacts DEF Enqueue, IInv, Progress, Records, OneInv
<1>2. CASE ~ PushAsserts(queue)
  BY <1>1, <1>2 DEF Enqueue, Goto, OneInv
<1>3. CASE PushAsserts(queue)
  <2>1. queue' = Push(queue, todo) /\ pc' \in {"enqueue", "service"}
    BY <1>3 DEF Enqueue, Goto
  <2>2. queue'.head = 1
    <3>1. CASE todo = 1
      BY <1>1, <2>1, <3>1 DEF Push
    <3>2. CASE todo >= 2
      BY <1>1, <2>1, <3>2 DEF Push, NULL
    <3> QED
      BY <1>1, <3>1, <3>2
  <2> QED
    BY <1>1, <2>1, <2>2 DEF OneInv
<1> QED
  BY <1>2, <1>3

\* The loop takes off item 1 at the NULL of its query, and the others at a NULL that
\* belongs to none.
LEMMA ResultsOne == ASSUME IInv, OneInv, Results PROVE OneInv'
<1>1. /\ pc \in Running /\ todo' = todo /\ todo = Insert + 1 /\ Insert \in Nat /\ Insert >= 2
      /\ queue.head \in Items /\ queue.tail = Insert /\ Items = 1..Insert
  BY Complete, ItemFacts DEF Results, AtResults, Running
<1>2. ASSUME conn.query # NULL PROVE queue.head = 1
  BY <1>1, <1>2 DEF IInv, Agree, OneInv, Running, Ended
<1>3. ASSUME conn.query = NULL PROVE ~ PQisBusy /\ PQgetResult = "NULL" /\ AfterGetResult = conn
  BY <1>3 DEF PQisBusy, PQgetResult, AfterGetResult
<1>4. ~ ResultDies(queue.head, "NULL") /\ PopsAt("NULL")
  BY DEF ResultDies, insert_query_result, simple_command_result, PopsAt
<1>5. \/ pc' = "poll" /\ PQisBusy /\ UNCHANGED <<queue, sent, conn>>
      \/ pc' = "die" /\ UNCHANGED <<queue, sent>>
      \/ /\ pc' = "results" /\ UNCHANGED <<queue, sent>> /\ PQgetResult # "NULL"
         /\ conn' = AfterGetResult
      \/ /\ Pop("results") /\ session_state' = "IDLE"
         /\ conn' = AfterGetResult /\ PQgetResult = "NULL"
  BY <1>1, Zenon DEF Results, Goto, PopsAt
<1>6. CASE pc' = "poll" /\ PQisBusy /\ UNCHANGED <<queue, sent, conn>>
  <2>1. queue.head = 1
    BY <1>2, <1>3, <1>6
  <2> QED
    BY <1>6, <2>1 DEF OneInv
<1>7. CASE pc' = "die" /\ UNCHANGED <<queue, sent>>
  BY <1>1, <1>7, OneKept
<1>8. CASE /\ pc' = "results" /\ UNCHANGED <<queue, sent>> /\ PQgetResult # "NULL"
           /\ conn' = AfterGetResult
  <2>1. conn.query # NULL
    BY <1>3, <1>8
  <2>2. conn'.query = conn.query
    BY <1>8, <2>1 DEF AfterGetResult, IInv, Records
  <2> QED
    BY <1>8, <2>1, <2>2 DEF OneInv
<1>9. CASE Pop("results") /\ session_state' = "IDLE"
  <2>1. /\ sent' = sent \ {queue.head}
        /\ \/ pc' = "results" /\ queue'.head = IF queue.head = Insert THEN Insert ELSE queue.head + 1
           \/ pc' = "aborted"
    BY <1>1, <1>9, PopKeeps DEF IInv
  <2>2. pc' = "results" => queue'.head # 1
    BY <1>1, <2>1
  <2> QED
    BY <1>9, <2>1, <2>2 DEF OneInv
<1> QED
  BY <1>5, <1>6, <1>7, <1>8, <1>9

\* kill_sessions() only takes items off.
LEMMA KillSessionOne == ASSUME IInv, OneInv, KillSession PROVE OneInv'
<1>1. /\ sent' \subseteq sent
      /\ pc' \in {"die"} \cup Ended
  BY Zenon DEF KillSession, Pop, simple_command_free, insert_query_free, Goto, Ended
<1> QED
  BY <1>1 DEF OneInv, Ended

\* Every step keeps it.
LEMMA NextOne == ASSUME IInv, OneInv, [Next]_vars PROVE OneInv'
<1>1. CASE Connect
  <2>1. sent' = sent /\ todo' = todo /\ todo = 1 /\ pc' \in {"enqueue", "die"}
    BY <1>1 DEF Connect, Goto, IInv, Progress
  <2> QED
    BY <2>1 DEF OneInv
<1>2. CASE Enqueue
  BY <1>2, EnqueueOne
<1>3. CASE ReadInput
  <2>1. /\ UNCHANGED <<queue, todo, sent>> /\ pc = "service" /\ pc' \in {"die", "switch"}
    BY <1>3, Zenon DEF ReadInput, Goto, memory
  <2> QED
    BY <2>1, OneKept DEF Running
<1>4. CASE SendQuery
  <2>1. /\ UNCHANGED <<queue, todo>> /\ pc = "switch" /\ pc' \in {"die", "poll"}
        /\ sent' = sent \/ sent' = sent \cup {queue.head}
    BY <1>4, Zenon DEF SendQuery, Goto
  <2>2. queue.head = 1
    BY <2>1, Complete, ItemFacts DEF OneInv, Running
  <2> QED
    BY <2>1, <2>2 DEF OneInv
<1>5. CASE Results
  BY <1>5, ResultsOne
<1>6. CASE Poll \/ PollFails
  <2>1. UNCHANGED <<queue, todo, sent>> /\ pc = "poll" /\ pc' \in {"service", "die"}
    BY <1>6 DEF Poll, PollFails, Quiet, Goto, memory
  <2> QED
    BY <2>1, OneKept DEF Running
<1>7. CASE KillSession
  BY <1>7, KillSessionOne
<1>8. CASE ServerAnswers \/ ServerReady \/ ServerNotifies \/ ServerCloses
  BY <1>8, OneKept DEF ServerAnswers, ServerReady, ServerNotifies, Send, ServerCloses, memory
<1>9. CASE UNCHANGED vars
  BY <1>9, OneKept DEF vars, memory
<1> QED
  BY <1>1, <1>2, <1>3, <1>4, <1>5, <1>6, <1>7, <1>8, <1>9 DEF Next, Program

\* Of all the items only the first is ever sent.  Its results, up to their NULL, are
\* its own; all others are given a NULL although no query of theirs was sent.
THEOREM OnlyOneQueryRuns == Spec => []OneQueryOnly
<1>1. Init => OneInv
  BY DEF Init, OneInv
<1>2. IInv /\ OneInv => OneQueryOnly
  BY DEF IInv, Agree, OneInv, OneQueryOnly, Ended
<1> QED
  BY <1>1, <1>2, NextOne, SpecIInv, PTL DEF Spec

-----------------------------------------------------------------------------
(* The list.                                                               *)

\* What was freed is what is in front of the head of the list.
Shape ==
    pc \notin Ended => freed = IF todo = 1 THEN {} ELSE 1..(queue.head - 1)

\* It is kept by whatever leaves the list and the freed items alone.
LEMMA ShapeKept ==
    ASSUME Shape, UNCHANGED <<todo, freed>>, todo # 1 => queue' = queue, pc \notin Ended
    PROVE  Shape'
BY DEF Shape

\* pop_query_queue_item() frees the head of the list and goes on to the next item,
\* or enqueues INSERT again.
LEMMA PopShape ==
    ASSUME IInv, Shape, pc \notin Ended, todo = Insert + 1, queue.head \in Items,
           queue.tail = Insert, todo' = todo, NEW state, Pop(state)
    PROVE  Shape'
<1>1. /\ Insert \in Nat /\ Insert >= 2 /\ queue.head \in 1..Insert
      /\ freed = 1..(queue.head - 1)
  BY ItemFacts DEF Shape
<1>2. \/ pc' = "aborted"
      \/ /\ queue'.head = IF queue.head = Insert THEN Insert ELSE queue.head + 1
         /\ freed' = IF queue.head = Insert THEN freed ELSE freed \cup {queue.head}
  BY PopKeeps DEF IInv
<1>3. CASE pc' = "aborted"
  BY <1>3 DEF Shape, Ended
<1>4. CASE pc' # "aborted"
  <2>1. freed' = 1..(queue'.head - 1)
    <3>1. CASE queue.head = Insert
      BY <1>1, <1>2, <1>4, <3>1
    <3>2. CASE queue.head # Insert
      <4>1. (1..(queue.head - 1)) \cup {queue.head} = 1..queue.head
        BY <1>1
      <4>2. queue'.head - 1 = queue.head
        BY <1>1, <1>2, <1>4, <3>2
      <4> QED
        BY <1>1, <1>2, <1>4, <3>2, <4>1, <4>2
    <3> QED
      BY <3>1, <3>2
  <2> QED
    BY <1>1, <2>1 DEF Shape
<1> QED
  BY <1>3, <1>4

\* push_query_queue_item() appends, and does not move the head of a list that has one.
LEMMA EnqueueShape == ASSUME IInv, Shape, Enqueue PROVE Shape'
<1>1. /\ pc = "enqueue" /\ freed' = freed /\ todo \in 1..Insert /\ Insert \in Nat
      /\ queue \in [head : Pointers, tail : Pointers, next : [Items -> Pointers]]
      /\ todo = 1 => queue.head = NULL
      /\ todo >= 2 => queue.head \in 1..(todo - 1)
      /\ freed = IF todo = 1 THEN {} ELSE 1..(queue.head - 1)
  BY ItemFacts DEF Enqueue, IInv, Progress, Records, Shape, Ended
<1>2. CASE ~ PushAsserts(queue)
  BY <1>1, <1>2, ShapeKept DEF Enqueue, Ended
<1>3. CASE PushAsserts(queue)
  <2>1. queue' = Push(queue, todo) /\ todo' = todo + 1
    BY <1>3 DEF Enqueue
  <2>2. queue'.head = IF todo = 1 THEN 1 ELSE queue.head
    <3>1. CASE todo = 1
      BY <1>1, <2>1, <3>1 DEF Push
    <3>2. CASE todo >= 2
      BY <1>1, <2>1, <3>2 DEF Push, NULL
    <3> QED
      BY <1>1, <3>1, <3>2
  <2>3. freed' = 1..(queue'.head - 1) /\ todo' # 1
    BY <1>1, <2>1, <2>2
  <2> QED
    BY <2>3 DEF Shape
<1> QED
  BY <1>2, <1>3

\* Every step keeps it.
LEMMA NextShape == ASSUME IInv, Shape, [Next]_vars PROVE Shape'
<1>1. CASE Connect
  <2>1. todo = 1 /\ UNCHANGED <<freed, todo>> /\ pc = "connect"
    BY <1>1 DEF Connect, IInv, Progress
  <2> QED
    BY <2>1, ShapeKept DEF Ended
<1>2. CASE Enqueue
  BY <1>2, EnqueueShape
<1>3. CASE ReadInput \/ Poll \/ PollFails
  BY <1>3, ShapeKept DEF ReadInput, Poll, PollFails, Quiet, memory, Ended
<1>4. CASE SendQuery
  BY <1>4, ShapeKept DEF SendQuery, Ended
<1>5. CASE Results
  <2>1. /\ todo' = todo /\ todo = Insert + 1 /\ pc \notin Ended
        /\ queue.head \in Items /\ queue.tail = Insert
    BY <1>5, Complete DEF Results, AtResults, Running, Ended
  <2>2. UNCHANGED <<queue, freed>> \/ Pop("results")
    BY <1>5, Zenon DEF Results
  <2> QED
    BY <2>1, <2>2, ShapeKept, PopShape
<1>6. CASE KillSession
  <2>1. todo' = todo /\ pc = "die" /\ pc \notin Ended
    BY <1>6 DEF KillSession, Ended
  <2>2. CASE todo = 1
    <3>1. UNCHANGED <<queue, freed>>
      <4>1. queue.head = NULL \/ queue.head = Wild
        BY <2>1, <2>2, ItemFacts DEF IInv, Progress
      <4>2. UNCHANGED <<queue, freed>> \/ (queue.head # NULL /\ Pop("die"))
        BY <1>6, Zenon DEF KillSession
      <4> QED
        BY <4>1, <4>2 DEF Pop
    <3> QED
      BY <2>1, <3>1, ShapeKept
  <2>3. CASE todo # 1
    <3>1. todo = Insert + 1 /\ queue.head \in Items /\ queue.tail = Insert
      BY <2>1, <2>3, Complete
    <3>2. UNCHANGED <<queue, freed>> \/ Pop("die")
      BY <1>6, Zenon DEF KillSession
    <3> QED
      BY <2>1, <3>1, <3>2, ShapeKept, PopShape
  <2> QED
    BY <2>2, <2>3
<1>7. CASE ServerAnswers \/ ServerReady \/ ServerNotifies \/ ServerCloses
  BY <1>7 DEF ServerAnswers, ServerReady, ServerNotifies, Send, ServerCloses, memory, Shape
<1>8. CASE UNCHANGED vars
  BY <1>8 DEF vars, memory, Shape
<1> QED
  BY <1>1, <1>2, <1>3, <1>4, <1>5, <1>6, <1>7, <1>8 DEF Next, Program

\* A set of naturals has a least element: the induction of the next proof.
LEMMA LeastNatural ==
    ASSUME NEW T, T \subseteq Nat, T # {}
    PROVE  \E n \in T : \A m \in T : ~ (m < n)
<1>1. \E n \in T : \A m \in T : ~ (<<m, n>> \in OpToRel(<, Nat))
  BY WFMin, NatLessThanWellFounded, Zenon
<1> QED
  BY <1>1, Zenon DEF OpToRel

\* Where the walk along the list is after k steps: past the item enqueued last it
\* meets what the memory of that item held, and stops.
Ahead(k) ==
    IF todo = 1 THEN NULL
    ELSE IF queue.head + k < todo THEN queue.head + k
    ELSE IF queue.head + k = todo THEN queue.next[todo - 1] ELSE NULL

\* The walk goes from item to item up to the one enqueued last, and stops.
LEMMA WalkAhead ==
    ASSUME IInv, pc \notin Ended, pc = "enqueue" \/ todo > 1, NEW k \in 0..Insert
    PROVE  Walk[k] = Ahead(k)
<1> DEFINE next(f, j) == IF j = 0 THEN queue.head
                         ELSE IF f[j - 1] \in Items THEN queue.next[f[j - 1]] ELSE NULL
           ahead == [j \in 0..Insert |-> Ahead(j)]
<1>1. /\ Insert \in Nat /\ Items = 1..Insert /\ todo \in 1..(Insert + 1) /\ NULL \notin Items
      /\ todo = 1 => queue.head = NULL
      /\ todo # 1 => queue.head \in 1..(todo - 1) /\ queue.next[todo - 1] \notin Items
      /\ \A i \in Items : i + 1 < todo => queue.next[i] = i + 1
  BY ItemFacts DEF IInv, Links, Progress
<1>2. ASSUME NEW j \in 0..Insert PROVE ahead[j] = next(ahead, j)
  <2>1. CASE j = 0
    BY <1>1, <2>1 DEF Ahead
  <2>2. CASE j # 0
    <3>1. j - 1 \in 0..Insert /\ ahead[j] = Ahead(j) /\ ahead[j - 1] = Ahead(j - 1)
      BY <1>1, <2>2
    <3>2. CASE todo = 1
      BY <1>1, <2>2, <3>1, <3>2 DEF Ahead
    <3>3. CASE todo # 1 /\ queue.head + (j - 1) < todo
      <4>1. ahead[j - 1] = queue.head + (j - 1) /\ queue.head + (j - 1) \in Items
        BY <1>1, <2>2, <3>1, <3>3 DEF Ahead
      <4>2. CASE queue.head + j < todo
        BY <1>1, <2>2, <3>1, <3>3, <4>1, <4>2 DEF Ahead
      <4>3. CASE queue.head + j = todo
        BY <1>1, <2>2, <3>1, <3>3, <4>1, <4>3 DEF Ahead
      <4>4. queue.head + j < todo \/ queue.head + j = todo
        <5>1. \A h, t, n \in Nat : h + (n - 1) < t => h + n < t \/ h + n = t
          OBVIOUS
        <5>2. queue.head \in Nat /\ todo \in Nat /\ j \in Nat
          BY <1>1, <3>3
        <5> QED
          BY <3>3, <5>1, <5>2
      <4> QED
        BY <4>2, <4>3, <4>4
    <3>4. CASE todo # 1 /\ ~ (queue.head + (j - 1) < todo)
      <4>1. ahead[j] = NULL /\ ahead[j - 1] \notin Items
        BY <1>1, <2>2, <3>1, <3>4 DEF Ahead
      <4> QED
        BY <2>2, <4>1
    <3> QED
      BY <3>2, <3>3, <3>4
  <2> QED
    BY <2>1, <2>2
<1>3. ahead = [j \in 0..Insert |-> next(ahead, j)]
  BY <1>2
<1>4. Walk = [j \in 0..Insert |-> next(Walk, j)]
  <2> DEFINE IsWalk(f) == f = [j \in 0..Insert |-> next(f, j)]
  <2>1. Walk = CHOOSE f : IsWalk(f)
    BY DEF Walk
  <2>2. \E f : IsWalk(f)
    BY <1>3
  <2> QED
    BY <2>1, <2>2, Zenon
<1>5. DEFINE wrong == {j \in 0..Insert : Walk[j] # ahead[j]}
<1>6. wrong = {}
  <2> SUFFICES ASSUME wrong # {} PROVE FALSE
    OBVIOUS
  <2>1. wrong \subseteq Nat
    BY <1>1
  <2>2. PICK j \in wrong : \A m \in wrong : ~ (m < j)
    BY <2>1, LeastNatural
  <2> HIDE DEF ahead
  <2>3. Walk[j] = next(Walk, j) /\ ahead[j] = next(ahead, j) /\ j \in 0..Insert /\ Walk[j] # ahead[j]
    BY <1>2, <1>4
  <2>4. j # 0
    BY <2>3
  <2>5. j - 1 \in 0..Insert /\ j - 1 < j /\ j - 1 \notin wrong
    BY <1>1, <2>2, <2>3, <2>4
  <2>6. Walk[j - 1] = ahead[j - 1]
    BY <2>5
  <2> QED
    BY <2>3, <2>6
<1> QED
  BY <1>6

\* From dbconnect() until an assertion fails the list holds exactly the items that
\* were enqueued and are not freed, in order, up to its tail, whatever the memory
\* held and whatever the callbacks do.
THEOREM ListIsIntact == Spec => []QueueIntact
<1>1. ASSUME IInv, Shape PROVE QueueIntact
  <2> DEFINE queued == (1..(todo - 1)) \ freed
             met == {k \in 0..Insert : Walk[k] \in Items}
             Goal == /\ {Walk[k] : k \in met} = queued
                     /\ \A k \in met : k > 0 => Walk[k - 1] < Walk[k]
                     /\ queued = {} => queue.head = NULL /\ queue.tail = NULL
                     /\ \A k \in met : k + 1 \notin met =>
                            /\ queue.tail = Walk[k]
                            /\ queue.next[Walk[k]] # NULL => Walk[k] \in garbage
  <2>0. ASSUME pc = "enqueue" \/ todo > 1, pc \notin Ended PROVE Goal
    <3>1. /\ Insert \in Nat /\ Items = 1..Insert /\ todo \in 1..(Insert + 1) /\ NULL \notin Items
          /\ todo = 1 => queue.head = NULL /\ queue.tail = NULL /\ freed = {}
          /\ todo # 1 => /\ queue.head \in 1..(todo - 1) /\ queue.next[todo - 1] \notin Items
                         /\ queue.tail = todo - 1 /\ freed = 1..(queue.head - 1)
          /\ \A i \in Items : i + 1 >= todo /\ queue.next[i] # NULL => i \in garbage
      BY <1>1, <2>0, ItemFacts DEF IInv, Links, Progress, Shape
    <3>2. \A k \in 0..Insert : Walk[k] = Ahead(k)
      BY <1>1, <2>0, WalkAhead
    <3>3. CASE todo = 1
      <4>1. met = {} /\ queued = {}
        BY <3>1, <3>2, <3>3 DEF Ahead
      <4> QED
        BY <3>1, <3>3, <4>1
    <3>4. CASE todo # 1
      <4>1. met = {k \in 0..Insert : queue.head + k < todo}
        <5>1. ASSUME NEW k \in 0..Insert PROVE Walk[k] \in Items <=> queue.head + k < todo
          <6>1. CASE queue.head + k < todo
            BY <3>1, <3>2, <3>4, <6>1 DEF Ahead
          <6>2. CASE queue.head + k = todo
            BY <3>1, <3>2, <3>4, <6>2 DEF Ahead
          <6>3. CASE queue.head + k > todo
            BY <3>1, <3>2, <3>4, <6>3 DEF Ahead
          <6> QED
            BY <3>1, <3>4, <6>1, <6>2, <6>3
        <5> QED
          BY <5>1
      <4>2. \A k \in met : Walk[k] = queue.head + k
        BY <3>2, <3>4, <4>1 DEF Ahead
      <4>3. queued = queue.head..(todo - 1)
        BY <3>1, <3>4
      <4>4. {Walk[k] : k \in met} = queued
        <5>1. ASSUME NEW k \in met PROVE Walk[k] \in queued
          BY <3>1, <3>4, <4>1, <4>2, <4>3
        <5>2. ASSUME NEW i \in queued PROVE i - queue.head \in met /\ Walk[i - queue.head] = i
          <6>1. i - queue.head \in met
            BY <3>1, <3>4, <4>1, <4>3
          <6> QED
            BY <3>1, <3>4, <4>2, <4>3, <6>1
        <5> HIDE DEF met, queued
        <5> QED
          BY <5>1, <5>2
      <4>5. ASSUME NEW k \in met, k > 0 PROVE Walk[k - 1] < Walk[k]
        <5>1. k - 1 \in met
          BY <3>1, <3>4, <4>1, <4>5
        <5>2. Walk[k - 1] = queue.head + (k - 1) /\ Walk[k] = queue.head + k
          BY <4>2, <5>1
        <5> QED
          BY <3>1, <3>4, <4>1, <5>2
      <4>6. queued # {}
        BY <3>1, <3>4, <4>3
      <4>7. ASSUME NEW k \in met, k + 1 \notin met
            PROVE  /\ queue.tail = Walk[k]
                   /\ queue.next[Walk[k]] # NULL => Walk[k] \in garbage
        <5>1. queue.head + k = todo - 1
          BY <3>1, <3>4, <4>1, <4>7
        <5>2. Walk[k] = todo - 1 /\ todo - 1 \in Items
          BY <3>1, <3>4, <4>2, <5>1
        <5> QED
          BY <3>1, <3>4, <5>2
      <4> QED
        BY <4>4, <4>5, <4>6, <4>7
    <3> QED
      BY <3>3, <3>4
  <2> HIDE DEF Goal
  <2>1. (pc = "enqueue" \/ todo > 1) /\ pc \notin Ended => Goal
    BY <2>0
  <2> QED
    BY <2>1, Zenon DEF QueueIntact, Goal
<1>2. Init => Shape
  BY DEF Init, Shape
<1> QED
  BY <1>1, <1>2, NextShape, SpecIInv, PTL DEF Spec

=============================================================================

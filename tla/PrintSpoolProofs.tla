-------------------------- MODULE PrintSpoolProofs --------------------------
(***************************************************************************)
(* PrintSpool for every set of clients, every set of spool files and every *)
(* backlog: what is printed is what the server takes the job to be, acks   *)
(* report the verdict of their own job, and the two programs implement     *)
(* PrintJob.                                                               *)
(***************************************************************************)
EXTENDS PrintSpool, SequenceTheorems, TLAPS

\* The client's and the server's byte counts agree with what is in flight.
BytesOK(c) ==
    /\ sent[c] = up[c] + got[c]
    /\ sent[c] <= Total(c)
    /\ cpc[c] \in {"start", "connect", "norun", "handshake"} => sent[c] = 0
    /\ cpc[c] = "sending" => sent[c] < Total(c)

\* How far the server thread is says what it has read and decided.
ServerOK(c) ==
    /\ spc[c] \in {"none", "handshake", "ready", "read", "job"} => lp[c] = "none"
    /\ spc[c] \in {"none", "handshake", "ready"} => got[c] = 0
    /\ spc[c] \in {"job", "ack", "shutdown", "done", "deadfin"} => got[c] = Wanted(c)
    /\ spc[c] \notin {"none", "handshake", "dead"} => job[c].parsed # 0
    /\ spc[c] \in {"ack", "shutdown", "done", "deadfin"} => lp[c] # "none"
    /\ lp[c] # "none" => got[c] = Wanted(c) /\ job[c].parsed # 0

\* Which messages can be on their way to the client in each pair of positions.
\* A server that takes the job for shorter than it is may be done before the
\* client has read READY.
StreamOK(c) ==
    \/ /\ cpc[c] = "fail"
    \/ /\ cpc[c] \in {"start", "connect", "norun", "handshake"}
       /\ spc[c] \in {"none", "handshake", "dead"} /\ down[c] = <<>> /\ ~ hs[c]
    \/ /\ cpc[c] = "wait_ready"
       /\ spc[c] \in {"none", "handshake", "ready", "dead"} /\ down[c] = <<>>
    \/ /\ cpc[c] = "wait_ready"
       /\ spc[c] \in {"read", "job", "ack", "dead"} /\ down[c] = <<"READY">>
    \/ /\ cpc[c] = "wait_ready"
       /\ spc[c] \in {"shutdown", "done", "deadfin"} /\ down[c] = <<"READY", AckMsg(lp[c])>>
    \/ /\ cpc[c] \in {"sending", "wait_ack"}
       /\ spc[c] \in {"read", "job", "ack", "dead"} /\ down[c] = <<>>
    \/ /\ cpc[c] \in {"sending", "wait_ack"}
       /\ spc[c] \in {"shutdown", "done", "deadfin"} /\ down[c] = <<AckMsg(lp[c])>>
    \/ /\ cpc[c] \in {"shutdown", "rename", "done"}
       /\ spc[c] \in {"shutdown", "done", "deadfin"}

\* What the client knows.
ClientOK(c) ==
    /\ ack[c] # "none" => lp[c] # "none" /\ ack[c] = AckMsg(lp[c])
    /\ cpc[c] \in {"shutdown", "rename", "done"} => ack[c] # "none"
    /\ cpc[c] \notin {"shutdown", "rename", "done", "fail"} => ack[c] = "none"
    /\ cpc[c] # "done" => file[c] = "spool"
    /\ cpc[c] = "wait_ready" => sent[c] = job[c].extra

PairOK(c) == BytesOK(c) /\ ServerOK(c) /\ StreamOK(c) /\ ClientOK(c)

IInv == TypeOK /\ \A c \in Clients : PairOK(c)

-----------------------------------------------------------------------------

\* os.system()'s encoding: the ack says FAILURE for a nonzero exit and for -1,
\* SUCCESS for exit 0 and for a job that was filtered out.
LEMMA AckMsgReports ==
    ASSUME NEW v \in Verdicts
    PROVE  /\ AckMsg(v) \in {"SUCCESS", "FAILURE"}
           /\ v \in {"exitN", "fork"} => AckMsg(v) = "FAILURE"
           /\ v \in {"exit0", "ignored"} => AckMsg(v) = "SUCCESS"
<1>1. CASE v = "ignored" BY <1>1 DEF AckMsg, StatusOk
<1>2. CASE v = "exit0" BY <1>2 DEF AckMsg, StatusOk, OsSystem
<1>3. CASE v = "exitN" BY <1>3 DEF AckMsg, StatusOk, OsSystem
<1>4. CASE v = "signal" BY <1>4 DEF AckMsg, StatusOk, OsSystem
<1>5. CASE v = "fork" BY <1>5 DEF AckMsg, StatusOk, OsSystem
<1> QED BY <1>1, <1>2, <1>3, <1>4, <1>5 DEF Verdicts, LpResults

\* Queues of one and of two messages.
LEMMA OneMessage ==
    ASSUME NEW m
    PROVE  Append(<<>>, m) = <<m>> /\ Head(<<m>>) = m /\ Tail(<<m>>) = <<>> /\ <<m>> # <<>>
OBVIOUS

LEMMA TwoMessages ==
    ASSUME NEW m, NEW n
    PROVE  Append(<<m>>, n) = <<m, n>> /\ Head(<<m, n>>) = m /\ Tail(<<m, n>>) = <<n>>
<1>1. Append(<<m>>, n) = <<m, n>>
  <2> DEFINE S == {m, n}
  <2>1. <<m>> \in Seq(S) /\ <<m, n>> \in Seq(S) /\ n \in S OBVIOUS
  <2>2. Len(Append(<<m>>, n)) = 2 /\ Append(<<m>>, n) \in Seq(S) BY <2>1
  <2>3. Append(<<m>>, n)[1] = m /\ Append(<<m>>, n)[2] = n BY <2>1
  <2>4. Len(<<m, n>>) = 2 /\ <<m, n>>[1] = m /\ <<m, n>>[2] = n OBVIOUS
  <2> DEFINE s == Append(<<m>>, n)
             t == <<m, n>>
  <2>5. \A i \in 1..2 : s[i] = t[i] BY <2>3, <2>4
  <2>6. s \in Seq(S) /\ t \in Seq(S) /\ Len(s) = 2 /\ Len(t) = 2 BY <2>1, <2>2, <2>4
  <2> HIDE DEF s, t, S
  <2>7. s = t BY <2>5, <2>6, SeqEqual
  <2> QED BY <2>7 DEF s, t
<1>2. Head(<<m, n>>) = m OBVIOUS
<1>3. Tail(<<m, n>>) = <<n>> OBVIOUS
<1> QED BY <1>1, <1>2, <1>3

\* Every message the server sends is one of the protocol's three.
LEMMA SendKeepsType ==
    ASSUME NEW q \in Seq({"READY", "SUCCESS", "FAILURE"}),
           NEW m \in {"READY", "SUCCESS", "FAILURE"}
    PROVE  /\ Append(q, m) \in Seq({"READY", "SUCCESS", "FAILURE"})
           /\ q # <<>> => Tail(q) \in Seq({"READY", "SUCCESS", "FAILURE"})
OBVIOUS

\* One step of client c or of its thread keeps the types.
LEMMA TypeStep ==
    ASSUME IInv, NEW c \in Clients, ClientStep(c) \/ CCrash(c) \/ SAccept(c) \/ ThreadStep(c)
    PROVE  TypeOK'
<1> USE PrintSpoolAssumption DEF IInv, TypeOK, ClientStates, ClientEnded, ThreadStates, ThreadEnded,
        clientVars, serverVars, wireVars, CGoto, SGoto, JobType, Total, Wanted
<1>1. CASE CCheckFile(c) BY <1>1 DEF CCheckFile
<1>2. CASE CConnect(c) BY <1>2 DEF CConnect
<1>3. CASE CConnectFails(c) BY <1>3 DEF CConnectFails
<1>4. CASE CSendHandshake(c) BY <1>4 DEF CSendHandshake
<1>5. CASE CRecvReady(c) BY <1>5, SendKeepsType DEF CRecvReady
<1>6. CASE CSendData(c)
  <2>1. Total(c) \in Nat /\ sent[c] \in Nat /\ up[c] \in Nat
    <3>0. job[c] \in Jobs /\ Jobs \subseteq JobType /\ sent[c] \in Nat /\ up[c] \in Nat OBVIOUS
    <3>1. job[c] \in JobType /\ sent[c] \in Nat /\ up[c] \in Nat BY <3>0
    <3>2. job[c].extra \in Nat /\ job[c].size \in Nat BY <3>1
    <3> HIDE DEF IInv, TypeOK
    <3> QED BY <3>1, <3>2
  <2> HIDE DEF Total
  <2>2. PICK k \in 1..(Total(c) - sent[c]) : CSendData(c)!2!(k) BY <1>6 DEF CSendData
  <2>3. sent[c] + k \in Nat /\ up[c] + k \in Nat
    <3> DEFINE n == Total(c) - sent[c]
    <3>1. n \in Int BY <2>1
    <3> HIDE DEF n, IInv, TypeOK
    <3>2. k \in 1..n BY DEF n
    <3>3. k \in Nat BY <3>1, <3>2
    <3> QED BY <2>1, <3>3
  <2> QED BY <1>6, <2>2, <2>3 DEF CSendData
<1>7. CASE CShortFile(c) BY <1>7 DEF CShortFile
<1>8. CASE CRecvAck(c) BY <1>8, SendKeepsType DEF CRecvAck
<1>9. CASE CSocketError(c) BY <1>9 DEF CSocketError
<1>10. CASE CShutdown(c) BY <1>10 DEF CShutdown
<1>11. CASE CRename(c) BY <1>11 DEF CRename
<1>12. CASE CCrash(c) BY <1>12 DEF CCrash
<1>13. CASE SAccept(c) BY <1>13 DEF SAccept
<1>14. CASE SHandshake(c) BY <1>14 DEF SHandshake
<1>15. CASE SReady(c) BY <1>15, SendKeepsType DEF SReady
<1>16. CASE SRead(c)
  <2>1. Wanted(c) \in Nat /\ got[c] \in Nat /\ up[c] \in Nat
    <3>1. job[c] \in JobType /\ got[c] \in Nat /\ up[c] \in Nat OBVIOUS
    <3>2. job[c].parsed \in Int BY <3>1
    <3> HIDE DEF IInv, TypeOK
    <3> QED BY <3>1, <3>2
  <2> HIDE DEF Wanted
  <2>2. PICK k \in 1..(Wanted(c) - got[c]) : SRead(c)!2!(k) BY <1>16 DEF SRead
  <2>3. got[c] + k \in Nat /\ up[c] - k \in Nat
    <3> DEFINE n == Wanted(c) - got[c]
    <3>1. n \in Int BY <2>1
    <3>2. k <= up[c] BY <2>2
    <3> HIDE DEF n, IInv, TypeOK
    <3>3. k \in 1..n BY DEF n
    <3>4. k \in Nat BY <3>1, <3>3
    <3> QED BY <2>1, <3>2, <3>4
  <2> QED BY <1>16, <2>2, <2>3 DEF SRead
<1>17. CASE SRecvFails(c) BY <1>17 DEF SRecvFails
<1>18. CASE STimeout(c) BY <1>18 DEF STimeout
<1>19. CASE STempFileFails(c) BY <1>19 DEF STempFileFails
<1>20. CASE SIgnoreJob(c) BY <1>20 DEF SIgnoreJob, Verdicts, LpResults
<1>21. CASE SSpoolJob(c) BY <1>21 DEF SSpoolJob, Verdicts, LpResults
<1>22. CASE SSendAck(c) BY <1>22, SendKeepsType, AckMsgReports DEF SSendAck, PairOK, ServerOK
<1>23. CASE SSendFails(c) BY <1>23 DEF SSendFails
<1>24. CASE SShutdown(c) BY <1>24 DEF SShutdown
<1> QED BY <1>1, <1>2, <1>3, <1>4, <1>5, <1>6, <1>7, <1>8, <1>9, <1>10, <1>11, <1>12, <1>13, <1>14, <1>15, <1>16, <1>17, <1>18, <1>19, <1>20, <1>21, <1>22, <1>23, <1>24 DEF ClientStep, ThreadStep

\* The parts of the state, at c, that a step leaves alone.
KeepClient(c) == cpc'[c] = cpc[c] /\ sent'[c] = sent[c] /\ ack'[c] = ack[c] /\ file'[c] = file[c]
KeepThread(c) == spc'[c] = spc[c] /\ got'[c] = got[c] /\ lp'[c] = lp[c]
KeepWire(c) == hs'[c] = hs[c] /\ up'[c] = up[c] /\ down'[c] = down[c]

\* A step that leaves c's client, thread and connection alone keeps what relates them.
LEMMA PairFrame ==
    ASSUME NEW c \in Clients, PairOK(c), KeepClient(c), KeepThread(c), KeepWire(c), job'[c] = job[c]
    PROVE  PairOK(c)'
BY DEF KeepClient, KeepThread, KeepWire, PairOK, BytesOK, ServerOK, StreamOK, ClientOK, Total, Wanted

\* One step of client c or of its thread keeps what relates the two.
LEMMA PairStep ==
    ASSUME IInv, NEW c \in Clients, ClientStep(c) \/ CCrash(c) \/ SAccept(c) \/ ThreadStep(c)
    PROVE  PairOK(c)'
<1> USE DEF Total, Wanted
<1>0. /\ PairOK(c) /\ job[c] \in JobType
      /\ job[c].size \in Nat /\ job[c].extra \in Nat /\ job[c].parsed \in Int
      /\ sent[c] \in Nat /\ up[c] \in Nat /\ got[c] \in Nat /\ lp[c] \in Verdicts \cup {"none"}
  BY PrintSpoolAssumption DEF IInv, TypeOK, JobType
<1>1. CASE CCheckFile(c)
  <2>1. /\ cpc[c] = "start"
        /\ cpc'[c] = (IF job[c].stat = "ok" THEN "connect" ELSE "norun") /\ sent'[c] = sent[c] /\ ack'[c] = ack[c] /\ file'[c] = file[c]
        /\ KeepThread(c)
        /\ KeepWire(c)
        /\ job'[c] = job[c]
    BY <1>1 DEF IInv, TypeOK, CCheckFile, CGoto, SGoto, clientVars, serverVars, wireVars, KeepClient, KeepThread, KeepWire
  <2> QED BY <1>0, <2>1 DEF PairOK, BytesOK, ServerOK, StreamOK, ClientOK, KeepClient, KeepThread, KeepWire
<1>2. CASE CConnect(c)
  <2>1. /\ cpc[c] = "connect"
        /\ cpc'[c] = "handshake" /\ sent'[c] = sent[c] /\ ack'[c] = ack[c] /\ file'[c] = file[c]
        /\ KeepThread(c)
        /\ KeepWire(c)
        /\ job'[c] = job[c]
    BY <1>2 DEF IInv, TypeOK, CConnect, CGoto, SGoto, clientVars, serverVars, wireVars, KeepClient, KeepThread, KeepWire
  <2> QED BY <1>0, <2>1 DEF PairOK, BytesOK, ServerOK, StreamOK, ClientOK, KeepClient, KeepThread, KeepWire
<1>3. CASE CConnectFails(c)
  <2>1. /\ cpc[c] = "connect"
        /\ cpc'[c] = "norun" /\ sent'[c] = sent[c] /\ ack'[c] = ack[c] /\ file'[c] = file[c]
        /\ KeepThread(c)
        /\ KeepWire(c)
        /\ job'[c] = job[c]
    BY <1>3 DEF IInv, TypeOK, CConnectFails, CGoto, SGoto, clientVars, serverVars, wireVars, KeepClient, KeepThread, KeepWire
  <2> QED BY <1>0, <2>1 DEF PairOK, BytesOK, ServerOK, StreamOK, ClientOK, KeepClient, KeepThread, KeepWire
<1>4. CASE CSendHandshake(c)
  <2>1. /\ cpc[c] = "handshake"
        /\ cpc'[c] = "wait_ready" /\ sent'[c] = job[c].extra /\ ack'[c] = ack[c] /\ file'[c] = file[c]
        /\ KeepThread(c)
        /\ hs'[c] = TRUE /\ up'[c] = job[c].extra /\ down'[c] = down[c]
        /\ job'[c] = job[c]
    BY <1>4 DEF IInv, TypeOK, CSendHandshake, CGoto, SGoto, clientVars, serverVars, wireVars, KeepClient, KeepThread, KeepWire
  <2>2. sent[c] = 0 /\ got[c] = 0 BY <1>0, <2>1 DEF PairOK, BytesOK
  <2> QED BY <1>0, <2>1, <2>2 DEF PairOK, BytesOK, ServerOK, StreamOK, ClientOK, KeepClient, KeepThread, KeepWire
<1>5. CASE CRecvReady(c)
  <2>1. /\ cpc[c] = "wait_ready" /\ down[c] # <<>>
        /\ cpc'[c] = (IF Head(down[c]) # "READY" THEN "fail"
                      ELSE IF job[c].size = 0 THEN "wait_ack" ELSE "sending")
        /\ sent'[c] = sent[c] /\ ack'[c] = ack[c] /\ file'[c] = file[c]
        /\ KeepThread(c)
        /\ hs'[c] = hs[c] /\ up'[c] = up[c] /\ down'[c] = Tail(down[c])
        /\ job'[c] = job[c]
    BY <1>5 DEF IInv, TypeOK, CRecvReady, CGoto, SGoto, clientVars, serverVars, wireVars, KeepClient, KeepThread, KeepWire
  <2>2. \/ spc[c] \in {"read", "job", "ack", "dead"} /\ down[c] = <<"READY">>
        \/ spc[c] \in {"shutdown", "done", "deadfin"} /\ down[c] = <<"READY", AckMsg(lp[c])>>
    BY <1>0, <2>1 DEF PairOK, StreamOK
  <2>3. /\ cpc'[c] = (IF job[c].size = 0 THEN "wait_ack" ELSE "sending")
        /\ \/ spc[c] \in {"read", "job", "ack", "dead"} /\ down'[c] = <<>>
           \/ spc[c] \in {"shutdown", "done", "deadfin"} /\ down'[c] = <<AckMsg(lp[c])>>
    <3>1. Head(<<"READY">>) = "READY" /\ Tail(<<"READY">>) = <<>> BY OneMessage
    <3>2. Head(<<"READY", AckMsg(lp[c])>>) = "READY" /\ Tail(<<"READY", AckMsg(lp[c])>>) = <<AckMsg(lp[c])>>
      BY TwoMessages
    <3>3. CASE spc[c] \in {"read", "job", "ack", "dead"} /\ down[c] = <<"READY">>
      BY <2>1, <3>1, <3>3
    <3>4. CASE spc[c] \in {"shutdown", "done", "deadfin"} /\ down[c] = <<"READY", AckMsg(lp[c])>>
      BY <2>1, <3>2, <3>4
    <3> QED BY <2>2, <3>3, <3>4
  <2>4. BytesOK(c)'
    <3>1. sent[c] = job[c].extra BY <1>0, <2>1 DEF PairOK, ClientOK
    <3> QED BY <1>0, <2>1, <2>3, <3>1 DEF PairOK, BytesOK, KeepThread
  <2>5. ServerOK(c)' BY <1>0, <2>1 DEF PairOK, ServerOK, KeepThread
  <2>6. StreamOK(c)' BY <2>1, <2>3 DEF StreamOK, KeepThread
  <2>7. ClientOK(c)' BY <1>0, <2>1, <2>3 DEF PairOK, ClientOK, KeepThread
  <2> QED BY <2>4, <2>5, <2>6, <2>7 DEF PairOK
<1>6. CASE CSendData(c)
  <2>1. PICK k \in 1..(Total(c) - sent[c]) : CSendData(c)!2!(k) BY <1>6 DEF CSendData
  <2>2. /\ cpc[c] = "sending"
        /\ cpc'[c] = (IF sent[c] + k = Total(c) THEN "wait_ack" ELSE "sending") /\ sent'[c] = sent[c] + k /\ ack'[c] = ack[c] /\ file'[c] = file[c]
        /\ KeepThread(c)
        /\ hs'[c] = hs[c] /\ up'[c] = up[c] + k /\ down'[c] = down[c]
        /\ job'[c] = job[c]
    BY <1>6, <2>1 DEF IInv, TypeOK, CSendData, CGoto, SGoto, clientVars, serverVars, wireVars, KeepClient, KeepThread, KeepWire
  <2>3. k \in 1..(Total(c) - sent[c]) /\ Total(c) \in Nat /\ Total(c)' = Total(c) BY <1>0, <2>1, <2>2
  <2>4. BytesOK(c)'
    <3> HIDE DEF Total
    <3>1. sent'[c] = up'[c] + got'[c] /\ sent'[c] <= Total(c)
      BY <1>0, <2>2, <2>3 DEF PairOK, BytesOK, KeepThread
    <3>2. CASE sent[c] + k = Total(c) BY <2>2, <2>3, <3>1, <3>2 DEF BytesOK
    <3>3. CASE sent[c] + k # Total(c) BY <1>0, <2>2, <2>3, <3>1, <3>3 DEF BytesOK
    <3> QED BY <3>2, <3>3
  <2>5. ServerOK(c)' BY <1>0, <2>2 DEF PairOK, ServerOK, KeepClient, KeepThread, KeepWire
  <2>6. StreamOK(c)' BY <1>0, <2>2 DEF PairOK, StreamOK, KeepClient, KeepThread, KeepWire
  <2>7. ClientOK(c)' BY <1>0, <2>2 DEF PairOK, ClientOK, KeepClient, KeepThread, KeepWire
  <2> QED BY <2>4, <2>5, <2>6, <2>7 DEF PairOK
<1>7. CASE CShortFile(c)
  <2>1. /\ cpc[c] = "sending"
        /\ cpc'[c] = "fail" /\ sent'[c] = sent[c] /\ ack'[c] = ack[c] /\ file'[c] = file[c]
        /\ KeepThread(c)
        /\ KeepWire(c)
        /\ job'[c] = job[c]
    BY <1>7 DEF IInv, TypeOK, CShortFile, CGoto, SGoto, clientVars, serverVars, wireVars, KeepClient, KeepThread, KeepWire
  <2> QED BY <1>0, <2>1 DEF PairOK, BytesOK, ServerOK, StreamOK, ClientOK, KeepClient, KeepThread, KeepWire
<1>8. CASE CRecvAck(c)
  <2>1. /\ cpc[c] = "wait_ack" /\ down[c] # <<>>
        /\ cpc'[c] = "shutdown" /\ sent'[c] = sent[c] /\ ack'[c] = (IF Head(down[c]) = "SUCCESS" THEN "SUCCESS" ELSE "FAILURE") /\ file'[c] = file[c]
        /\ KeepThread(c)
        /\ hs'[c] = hs[c] /\ up'[c] = up[c] /\ down'[c] = Tail(down[c])
        /\ job'[c] = job[c]
    BY <1>8 DEF IInv, TypeOK, CRecvAck, CGoto, SGoto, clientVars, serverVars, wireVars, KeepClient, KeepThread, KeepWire
  <2>2. /\ down[c] = <<AckMsg(lp[c])>>
        /\ spc[c] \in {"shutdown", "done", "deadfin"} /\ lp[c] \in Verdicts
    BY <1>0, <2>1 DEF PairOK, StreamOK, ServerOK
  <2>3. ack'[c] = AckMsg(lp[c]) /\ AckMsg(lp[c]) \in {"SUCCESS", "FAILURE"} /\ down'[c] = <<>>
    BY <2>1, <2>2, OneMessage, AckMsgReports
  <2>4. BytesOK(c)' BY <1>0, <2>1 DEF PairOK, BytesOK, KeepThread
  <2>5. ServerOK(c)' BY <1>0, <2>1 DEF PairOK, ServerOK, KeepThread
  <2>6. StreamOK(c)' BY <2>1, <2>2 DEF StreamOK, KeepThread
  <2>7. ClientOK(c)' BY <1>0, <2>1, <2>2, <2>3 DEF PairOK, ServerOK, ClientOK, KeepThread
  <2> QED BY <2>4, <2>5, <2>6, <2>7 DEF PairOK
<1>9. CASE CSocketError(c)
  <2>1. /\ cpc[c] \in {"handshake", "sending", "wait_ready", "wait_ack"}
        /\ cpc'[c] = "fail" /\ sent'[c] = sent[c] /\ ack'[c] = ack[c] /\ file'[c] = file[c]
        /\ KeepThread(c)
        /\ KeepWire(c)
        /\ job'[c] = job[c]
    BY <1>9 DEF IInv, TypeOK, CSocketError, CGoto, SGoto, clientVars, serverVars, wireVars, KeepClient, KeepThread, KeepWire
  <2> QED BY <1>0, <2>1 DEF PairOK, BytesOK, ServerOK, StreamOK, ClientOK, KeepClient, KeepThread, KeepWire
<1>10. CASE CShutdown(c)
  <2>1. /\ cpc[c] = "shutdown" /\ cpc'[c] \in {"rename", "fail"}
        /\ sent'[c] = sent[c] /\ ack'[c] = ack[c] /\ file'[c] = file[c]
        /\ KeepThread(c)
        /\ KeepWire(c)
        /\ job'[c] = job[c]
    BY <1>10 DEF IInv, TypeOK, CShutdown, CGoto, SGoto, clientVars, serverVars, wireVars, KeepClient, KeepThread, KeepWire
  <2> QED BY <1>0, <2>1 DEF PairOK, BytesOK, ServerOK, StreamOK, ClientOK, KeepClient, KeepThread, KeepWire
<1>11. CASE CRename(c)
  <2>1. /\ cpc[c] = "rename"
        /\ cpc'[c] = "done" /\ sent'[c] = sent[c] /\ ack'[c] = ack[c] /\ file'[c] = "PRINTED"
        /\ KeepThread(c)
        /\ KeepWire(c)
        /\ job'[c] = job[c]
    BY <1>11 DEF IInv, TypeOK, CRename, CGoto, SGoto, clientVars, serverVars, wireVars, KeepClient, KeepThread, KeepWire
  <2> QED BY <1>0, <2>1 DEF PairOK, BytesOK, ServerOK, StreamOK, ClientOK, KeepClient, KeepThread, KeepWire
<1>12. CASE CCrash(c)
  <2>1. /\ cpc[c] \notin ClientEnded
        /\ cpc'[c] = (IF Connected(c) THEN "fail" ELSE "norun") /\ sent'[c] = sent[c] /\ ack'[c] = ack[c] /\ file'[c] = file[c]
        /\ KeepThread(c)
        /\ KeepWire(c)
        /\ job'[c] = job[c]
    BY <1>12 DEF IInv, TypeOK, CCrash, CGoto, SGoto, clientVars, serverVars, wireVars, KeepClient, KeepThread, KeepWire, Connected, ClientEnded
  <2> QED BY <1>0, <2>1 DEF PairOK, BytesOK, ServerOK, StreamOK, ClientOK, KeepClient, KeepThread, KeepWire, Connected, ClientEnded
<1>13. CASE SAccept(c)
  <2>1. /\ spc[c] = "none" /\ Connected(c)
        /\ KeepClient(c)
        /\ spc'[c] = "handshake" /\ got'[c] = got[c] /\ lp'[c] = lp[c]
        /\ KeepWire(c)
        /\ job'[c] = job[c]
    BY <1>13 DEF IInv, TypeOK, SAccept, CGoto, SGoto, clientVars, serverVars, wireVars, KeepClient, KeepThread, KeepWire, Connected, Backlog
  <2> QED BY <1>0, <2>1 DEF PairOK, BytesOK, ServerOK, StreamOK, ClientOK, KeepClient, KeepThread, KeepWire, Connected, Backlog
<1>14. CASE SHandshake(c)
  <2>1. /\ spc[c] = "handshake" /\ hs[c]
        /\ KeepClient(c)
        /\ spc'[c] = (IF job[c].parses /\ job[c].parsed # 0 THEN "ready" ELSE "dead") /\ got'[c] = got[c] /\ lp'[c] = lp[c]
        /\ hs'[c] = FALSE /\ up'[c] = up[c] /\ down'[c] = down[c]
        /\ job'[c] = job[c]
    BY <1>14 DEF IInv, TypeOK, SHandshake, CGoto, SGoto, clientVars, serverVars, wireVars, KeepClient, KeepThread, KeepWire, JobType
  <2> QED BY <1>0, <2>1 DEF PairOK, BytesOK, ServerOK, StreamOK, ClientOK, KeepClient, KeepThread, KeepWire, JobType
<1>15. CASE SReady(c)
  <2>1. /\ spc[c] = "ready"
        /\ KeepClient(c)
        /\ spc'[c] = (IF Wanted(c) = 0 THEN "job" ELSE "read") /\ got'[c] = got[c] /\ lp'[c] = lp[c]
        /\ hs'[c] = hs[c] /\ up'[c] = up[c] /\ down'[c] = Append(down[c], "READY")
        /\ job'[c] = job[c]
    BY <1>15 DEF IInv, TypeOK, SReady, CGoto, SGoto, clientVars, serverVars, wireVars, KeepClient, KeepThread, KeepWire
  <2>2. BytesOK(c)' BY <1>0, <2>1 DEF PairOK, BytesOK, KeepClient
  <2>3. ServerOK(c)' BY <1>0, <2>1 DEF PairOK, ServerOK
  <2>4. StreamOK(c)'
    <3>1. cpc[c] = "fail" \/ (cpc[c] = "wait_ready" /\ down[c] = <<>>) BY <1>0, <2>1 DEF PairOK, StreamOK
    <3> QED BY <2>1, <3>1, OneMessage DEF StreamOK, KeepClient
  <2>5. ClientOK(c)' BY <1>0, <2>1 DEF PairOK, ClientOK, KeepClient
  <2> QED BY <2>2, <2>3, <2>4, <2>5 DEF PairOK
<1>16. CASE SRead(c)
  <2>1. PICK k \in 1..(Wanted(c) - got[c]) : SRead(c)!2!(k) BY <1>16 DEF SRead
  <2>2. /\ spc[c] = "read" /\ k <= up[c]
        /\ KeepClient(c)
        /\ spc'[c] = (IF got[c] + k = Wanted(c) THEN "job" ELSE "read") /\ got'[c] = got[c] + k /\ lp'[c] = lp[c]
        /\ hs'[c] = hs[c] /\ up'[c] = up[c] - k /\ down'[c] = down[c]
        /\ job'[c] = job[c]
    BY <1>16, <2>1 DEF IInv, TypeOK, SRead, CGoto, SGoto, clientVars, serverVars, wireVars, KeepClient, KeepThread, KeepWire
  <2>3. k \in 1..(Wanted(c) - got[c]) BY <2>1
  <2>4. BytesOK(c)' BY <1>0, <2>2, <2>3 DEF PairOK, BytesOK, StreamOK, KeepClient, KeepThread, KeepWire
  <2>5. ServerOK(c)' BY <1>0, <2>2, <2>3 DEF PairOK, ServerOK, KeepClient, KeepThread, KeepWire
  <2>6. StreamOK(c)' BY <1>0, <2>2 DEF PairOK, StreamOK, KeepClient
  <2>7. ClientOK(c)' BY <1>0, <2>2 DEF PairOK, ClientOK, KeepClient
  <2> QED BY <2>4, <2>5, <2>6, <2>7 DEF PairOK
<1>17. CASE SRecvFails(c)
  <2>1. /\ spc[c] \in {"handshake", "read"}
        /\ KeepClient(c)
        /\ spc'[c] = "dead" /\ got'[c] = got[c] /\ lp'[c] = lp[c]
        /\ KeepWire(c)
        /\ job'[c] = job[c]
    BY <1>17 DEF IInv, TypeOK, SRecvFails, CGoto, SGoto, clientVars, serverVars, wireVars, KeepClient, KeepThread, KeepWire
  <2> QED BY <1>0, <2>1 DEF PairOK, BytesOK, ServerOK, StreamOK, ClientOK, KeepClient, KeepThread, KeepWire
<1>18. CASE STimeout(c)
  <2>1. /\ spc[c] \in {"handshake", "read"}
        /\ KeepClient(c)
        /\ spc'[c] = "dead" /\ got'[c] = got[c] /\ lp'[c] = lp[c]
        /\ KeepWire(c)
        /\ job'[c] = job[c]
    BY <1>18 DEF IInv, TypeOK, STimeout, CGoto, SGoto, clientVars, serverVars, wireVars, KeepClient, KeepThread, KeepWire
  <2> QED BY <1>0, <2>1 DEF PairOK, BytesOK, ServerOK, StreamOK, ClientOK, KeepClient, KeepThread, KeepWire
<1>19. CASE STempFileFails(c)
  <2>1. /\ spc[c] = "job"
        /\ KeepClient(c)
        /\ spc'[c] = "dead" /\ got'[c] = got[c] /\ lp'[c] = lp[c]
        /\ KeepWire(c)
        /\ job'[c] = job[c]
    BY <1>19 DEF IInv, TypeOK, STempFileFails, CGoto, SGoto, clientVars, serverVars, wireVars, KeepClient, KeepThread, KeepWire
  <2> QED BY <1>0, <2>1 DEF PairOK, BytesOK, ServerOK, StreamOK, ClientOK, KeepClient, KeepThread, KeepWire
<1>20. CASE SIgnoreJob(c)
  <2>1. /\ spc[c] = "job" /\ lp'[c] \in Verdicts
        /\ KeepClient(c)
        /\ spc'[c] = "ack" /\ got'[c] = got[c]
        /\ KeepWire(c)
        /\ job'[c] = job[c]
    BY <1>20 DEF IInv, TypeOK, SIgnoreJob, CGoto, SGoto, clientVars, serverVars, wireVars, KeepClient, KeepThread, KeepWire, Verdicts, LpResults
  <2> QED BY <1>0, <2>1 DEF PairOK, BytesOK, ServerOK, StreamOK, ClientOK, KeepClient, KeepThread, KeepWire, Verdicts, LpResults
<1>21. CASE SSpoolJob(c)
  <2>1. /\ spc[c] = "job" /\ lp'[c] \in Verdicts
        /\ KeepClient(c)
        /\ spc'[c] = "ack" /\ got'[c] = got[c]
        /\ KeepWire(c)
        /\ job'[c] = job[c]
    BY <1>21 DEF IInv, TypeOK, SSpoolJob, CGoto, SGoto, clientVars, serverVars, wireVars, KeepClient, KeepThread, KeepWire, Verdicts, LpResults
  <2> QED BY <1>0, <2>1 DEF PairOK, BytesOK, ServerOK, StreamOK, ClientOK, KeepClient, KeepThread, KeepWire, Verdicts, LpResults
<1>22. CASE SSendAck(c)
  <2>1. /\ spc[c] = "ack"
        /\ KeepClient(c)
        /\ spc'[c] = "shutdown" /\ got'[c] = got[c] /\ lp'[c] = lp[c]
        /\ hs'[c] = hs[c] /\ up'[c] = up[c] /\ down'[c] = Append(down[c], AckMsg(lp[c]))
        /\ job'[c] = job[c]
    BY <1>22 DEF IInv, TypeOK, SSendAck, CGoto, SGoto, clientVars, serverVars, wireVars, KeepClient, KeepThread, KeepWire
  <2>2. BytesOK(c)' BY <1>0, <2>1 DEF PairOK, BytesOK, KeepClient
  <2>3. ServerOK(c)' BY <1>0, <2>1 DEF PairOK, ServerOK
  <2>4. StreamOK(c)'
    <3>1. \/ cpc[c] = "fail"
          \/ cpc[c] = "wait_ready" /\ down[c] = <<"READY">>
          \/ cpc[c] \in {"sending", "wait_ack"} /\ down[c] = <<>>
      BY <1>0, <2>1 DEF PairOK, StreamOK
    <3> DEFINE m == AckMsg(lp[c])
    <3>2. m' = m BY <2>1
    <3>3. Append(<<>>, m) = <<m>> BY OneMessage
    <3>4. Append(<<"READY">>, m) = <<"READY", m>> BY TwoMessages
    <3>5. down'[c] = Append(down[c], m) BY <2>1
    <3> HIDE DEF m
    <3>6. \/ cpc'[c] = "fail"
          \/ cpc'[c] = "wait_ready" /\ down'[c] = <<"READY", m>>
          \/ cpc'[c] \in {"sending", "wait_ack"} /\ down'[c] = <<m>>
      BY <2>1, <3>1, <3>3, <3>4, <3>5 DEF KeepClient
    <3> QED BY <2>1, <3>2, <3>6 DEF StreamOK, m
  <2>5. ClientOK(c)' BY <1>0, <2>1 DEF PairOK, ClientOK, KeepClient
  <2> QED BY <2>2, <2>3, <2>4, <2>5 DEF PairOK
<1>23. CASE SSendFails(c)
  <2>1. /\ spc[c] \in {"ready", "ack"} /\ cpc[c] = "fail"
        /\ KeepClient(c)
        /\ spc'[c] = "dead" /\ got'[c] = got[c] /\ lp'[c] = lp[c]
        /\ KeepWire(c)
        /\ job'[c] = job[c]
    BY <1>23 DEF IInv, TypeOK, SSendFails, CGoto, SGoto, clientVars, serverVars, wireVars, KeepClient, KeepThread, KeepWire
  <2> QED BY <1>0, <2>1 DEF PairOK, BytesOK, ServerOK, StreamOK, ClientOK, KeepClient, KeepThread, KeepWire
<1>24. CASE SShutdown(c)
  <2>1. /\ spc[c] = "shutdown" /\ spc'[c] \in {"done", "deadfin"}
        /\ KeepClient(c)
        /\ got'[c] = got[c] /\ lp'[c] = lp[c]
        /\ KeepWire(c)
        /\ job'[c] = job[c]
    BY <1>24 DEF IInv, TypeOK, SShutdown, CGoto, SGoto, clientVars, serverVars, wireVars, KeepClient, KeepThread, KeepWire
  <2> QED BY <1>0, <2>1 DEF PairOK, BytesOK, ServerOK, StreamOK, ClientOK, KeepClient, KeepThread, KeepWire
<1> QED BY <1>1, <1>2, <1>3, <1>4, <1>5, <1>6, <1>7, <1>8, <1>9, <1>10, <1>11, <1>12, <1>13, <1>14, <1>15, <1>16, <1>17, <1>18, <1>19, <1>20, <1>21, <1>22, <1>23, <1>24 DEF ClientStep, ThreadStep

\* A step of client c or of its thread changes nothing of another connection,
\* apart from what `ct' refers to.
LEMMA OthersStep ==
    ASSUME IInv, NEW c \in Clients, ClientStep(c) \/ CCrash(c) \/ SAccept(c) \/ ThreadStep(c),
           NEW d \in Clients, d # c
    PROVE  PairOK(d)'
<1>1. KeepClient(d) /\ KeepThread(d) /\ KeepWire(d) /\ job'[d] = job[d]
  <2> USE DEF IInv, TypeOK, KeepClient, KeepThread, KeepWire, clientVars, serverVars, wireVars, CGoto, SGoto
  <2>1. CASE ClientStep(c) \/ CCrash(c)
    BY <2>1 DEF ClientStep, CCheckFile, CConnect, CConnectFails, CSendHandshake, CRecvReady, CSendData,
                CShortFile, CRecvAck, CSocketError, CShutdown, CRename, CCrash
  <2>2. CASE SAccept(c) \/ ThreadStep(c)
    BY <2>2 DEF ThreadStep, SAccept, SHandshake, SReady, SRead, SRecvFails, STimeout, STempFileFails,
                SIgnoreJob, SSpoolJob, SSendAck, SSendFails, SShutdown
  <2> QED BY <2>1, <2>2
<1>2. PairOK(d) BY DEF IInv
<1> QED BY <1>1, <1>2, PairFrame

\* No client has connected and every spool file is in its place.
LEMMA InitIInv == Init => IInv
<1> SUFFICES ASSUME Init PROVE IInv OBVIOUS
<1>1. TypeOK BY PrintSpoolAssumption DEF Init, TypeOK, ClientStates, ThreadStates, Verdicts
<1>2. ASSUME NEW c \in Clients PROVE PairOK(c)
  BY <1>1, PrintSpoolAssumption DEF Init, TypeOK, JobType, PairOK, BytesOK, ServerOK, StreamOK, ClientOK, Total
<1> QED BY <1>1, <1>2 DEF IInv

\* A step of one client or thread keeps IInv for it and for all the others.
LEMMA NextIInv == IInv /\ [Next]_vars => IInv'
<1> SUFFICES ASSUME IInv, [Next]_vars PROVE IInv' OBVIOUS
<1>1. ASSUME NEW c \in Clients, ClientStep(c) \/ CCrash(c) \/ SAccept(c) \/ ThreadStep(c) PROVE IInv'
  BY <1>1, TypeStep, PairStep, OthersStep DEF IInv
<1>2. ASSUME SMainEnds \/ UNCHANGED vars PROVE IInv'
  <2>1. TypeOK' BY <1>2 DEF IInv, TypeOK, SMainEnds, vars, clientVars, serverVars, wireVars
  <2>2. ASSUME NEW c \in Clients PROVE PairOK(c)'
    <3>1. KeepClient(c) /\ KeepThread(c) /\ KeepWire(c) /\ job'[c] = job[c]
      BY <1>2 DEF SMainEnds, vars, clientVars, serverVars, wireVars, KeepClient, KeepThread, KeepWire
    <3> QED BY <3>1, PairFrame DEF IInv
  <2> QED BY <2>1, <2>2 DEF IInv
<1> QED BY <1>1, <1>2 DEF Next

\* IInv holds in every reachable state.
LEMMA SpecIInv == Spec => []IInv
BY InitIInv, NextIInv, PTL DEF Spec

-----------------------------------------------------------------------------

\* Every reachable state is well typed.
THEOREM TypeCorrect == Spec => []TypeOK
<1>1. IInv => TypeOK BY DEF IInv
<1> QED BY <1>1, SpecIInv, PTL

\* What is handed to lp or to the filter has the length the server takes the job
\* to have, and is the whole file when the handshake keeps to its 45 bytes: EOF,
\* resets and the 30-second timeout in read_job_data() never pass a part of it on.
THEOREM OnlyCompleteJobs == Spec => []JobIsComplete
<1>1. IInv => JobIsComplete
  <2> SUFFICES ASSUME IInv, NEW c \in Clients, lp[c] # "none"
               PROVE  /\ got[c] = Wanted(c)
                      /\ job[c].extra = 0 => sent[c] = job[c].size /\ got[c] = sent[c] /\ got[c] > 0
    BY DEF JobIsComplete
  <2>1. /\ sent[c] \in Nat /\ up[c] \in Nat /\ got[c] \in Nat
        /\ job[c].size \in Nat /\ job[c].extra \in Nat /\ job[c].parsed \in Int
        /\ job[c].extra = 0 => job[c].parsed = job[c].size
    BY PrintSpoolAssumption DEF IInv, TypeOK, JobType
  <2>2. /\ got[c] = Wanted(c) /\ job[c].parsed # 0
        /\ sent[c] = up[c] + got[c] /\ sent[c] <= job[c].extra + job[c].size
    BY DEF IInv, PairOK, BytesOK, ServerOK, Total
  <2> QED BY <2>1, <2>2 DEF Wanted
<1> QED BY <1>1, SpecIInv, PTL

\* The ack a client holds reports the verdict on its own job, whenever lp itself
\* took or refused it.
THEOREM AcksMatch == Spec => []AckMatchesVerdict
<1>1. IInv => AckMatchesVerdict
  <2> SUFFICES ASSUME IInv, NEW c \in Clients, ack[c] # "none"
               PROVE  /\ lp[c] \in Verdicts
                      /\ lp[c] \in {"exitN", "fork"} => ack[c] = "FAILURE"
                      /\ lp[c] \in {"exit0", "ignored"} => ack[c] = "SUCCESS"
    BY DEF AckMatchesVerdict
  <2>1. lp[c] \in Verdicts /\ ack[c] = AckMsg(lp[c])
    BY DEF IInv, TypeOK, PairOK, ClientOK
  <2> QED BY <2>1, AckMsgReports
<1> QED BY <1>1, SpecIInv, PTL

\* Every step of the two programs is a step of PrintJob or leaves it alone.
LEMMA StepRefines == IInv /\ [Next]_vars => [PJ!Next]_(PJ!vars)
<1> SUFFICES ASSUME IInv, [Next]_vars PROVE [PJ!Next]_(PJ!vars) OBVIOUS
<1> USE DEF PJ!vars, clientVars, serverVars, wireVars, CGoto, SGoto
<1>1. ASSUME NEW c \in Clients, CRecvAck(c) PROVE PJ!Tell(c)
  <2>1. /\ cpc[c] = "wait_ack" /\ down[c] # <<>> /\ PairOK(c) /\ lp[c] \in Verdicts \cup {"none"}
    BY <1>1 DEF CRecvAck, IInv, TypeOK
  <2>2. /\ spc[c] \in {"shutdown", "done", "deadfin"} /\ down[c] = <<AckMsg(lp[c])>>
        /\ ack[c] = "none" /\ lp[c] \in Verdicts
    BY <2>1 DEF PairOK, StreamOK, ServerOK, ClientOK
  <2>3. (IF Head(down[c]) = "SUCCESS" THEN "SUCCESS" ELSE "FAILURE") \in PJ!Reports(lp[c])
    BY <2>2, OneMessage, AckMsgReports DEF PJ!Reports, Verdicts, LpResults
  <2> QED BY <1>1, <2>2, <2>3 DEF CRecvAck, PJ!Tell, Verdicts, LpResults
<1>2. ASSUME NEW c \in Clients, CRename(c) PROVE PJ!Move(c)
  BY <1>2 DEF CRename, PJ!Move, IInv, PairOK, ClientOK
<1>3. ASSUME NEW c \in Clients, SIgnoreJob(c) \/ SSpoolJob(c) PROVE PJ!Decide(c)
  <2>1. lp[c] = "none" BY <1>3 DEF SIgnoreJob, SSpoolJob, IInv, PairOK, ServerOK
  <2> QED BY <1>3, <2>1 DEF SIgnoreJob, SSpoolJob, PJ!Decide, Verdicts
<1>4. ASSUME NEW c \in Clients, CCheckFile(c) \/ CConnect(c) \/ CConnectFails(c) \/ CSendHandshake(c)
                  \/ CRecvReady(c) \/ CSendData(c) \/ CShortFile(c) \/ CSocketError(c) \/ CShutdown(c)
                  \/ CCrash(c) \/ SAccept(c)
      PROVE  UNCHANGED PJ!vars
  BY <1>4 DEF CCheckFile, CConnect, CConnectFails, CSendHandshake, CRecvReady, CSendData, CShortFile,
              CSocketError, CShutdown, CCrash, SAccept
<1>5. ASSUME NEW c \in Clients, SHandshake(c) \/ SReady(c) \/ SRead(c) \/ SRecvFails(c) \/ STimeout(c)
                  \/ STempFileFails(c) \/ SSendAck(c) \/ SSendFails(c) \/ SShutdown(c)
      PROVE  UNCHANGED PJ!vars
  BY <1>5 DEF SHandshake, SReady, SRead, SRecvFails, STimeout, STempFileFails, SSendAck, SSendFails, SShutdown
<1>6. ASSUME SMainEnds \/ UNCHANGED vars PROVE UNCHANGED PJ!vars
  BY <1>6 DEF SMainEnds, vars
<1> QED BY <1>1, <1>2, <1>3, <1>4, <1>5, <1>6 DEF Next, ClientStep, ThreadStep, PJ!Next

\* The client and the server together implement PrintJob: one verdict per job,
\* the client told that verdict and no other, the file moved only after.
THEOREM Refinement == Spec => ImplementsPrintJob
<1>1. Init => PJ!Init BY DEF Init, PJ!Init
<1> QED BY <1>1, StepRefines, SpecIInv, PTL DEF Spec, PJ!Spec, ImplementsPrintJob
=============================================================================

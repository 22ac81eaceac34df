----------------------- MODULE CommandDeliveryProofs -----------------------
(***************************************************************************)
(* TLAPS proofs about CommandDelivery, for every set of commands, nodes    *)
(* and connections and every value of the bounds.                          *)
(***************************************************************************)
EXTENDS CommandDelivery, Integers, TLAPS

USE HubAssumption, ReceiptsAssumption, CommandsAssumption

Queues == [Conn -> Seq(Cmd)]

AppendAt(q, k, c) == [q EXCEPT ![k] = Append(@, c)]
TailAt(q, k)      == [q EXCEPT ![k] = Tail(@)]

\* Hub.enqueue and stream.Send put one command at the end of one queue.
LEMMA AppendQueue ==
  ASSUME NEW q \in Queues, NEW k \in Conn, NEW c \in Cmd
  PROVE  /\ AppendAt(q, k, c) \in Queues
         /\ \A d \in Cmd : In(d, AppendAt(q, k, c)) <=> In(d, q) \/ d = c
         /\ OncePerQueue(q) /\ ~In(c, q) => OncePerQueue(AppendAt(q, k, c))
<1> DEFINE p == AppendAt(q, k, c)
<1>0. p = [q EXCEPT ![k] = Append(@, c)]
  BY DEF AppendAt
<1> HIDE DEF p
<1>1. p \in Queues
  BY <1>0 DEF Queues
<1>2. /\ Len(p[k]) = Len(q[k]) + 1
      /\ p[k][Len(q[k]) + 1] = c
      /\ \A i \in 1..Len(q[k]) : p[k][i] = q[k][i]
      /\ \A j \in Conn : j # k => p[j] = q[j]
      /\ \A j \in Conn : Len(q[j]) \in Nat
  BY <1>0 DEF Queues
<1>3. \A d \in Cmd : In(d, p) <=> In(d, q) \/ d = c
  <2>1. ASSUME NEW d \in Cmd, In(d, p) PROVE In(d, q) \/ d = c
    BY <1>2, <2>1 DEF In
  <2>2. ASSUME NEW d \in Cmd, In(d, q) PROVE In(d, p)
    <3>0. PICK j \in Conn : \E i \in 1..Len(q[j]) : q[j][i] = d
      BY <2>2 DEF In
    <3>1. PICK i \in 1..Len(q[j]) : q[j][i] = d
      BY <3>0
    <3>2. i \in 1..Len(p[j]) /\ p[j][i] = d
      BY <3>1, <1>2
    <3> QED BY <3>2 DEF In
  <2>3. In(c, p)
    <3>1. Len(q[k]) + 1 \in 1..Len(p[k])
      BY <1>2
    <3> QED BY <1>2, <3>1 DEF In
  <2> QED BY <2>1, <2>2, <2>3
<1>4. ASSUME OncePerQueue(q), ~In(c, q) PROVE OncePerQueue(p)
  <2> SUFFICES ASSUME NEW j \in Conn, NEW m \in Conn,
                      NEW h \in 1..Len(p[j]), NEW i \in 1..Len(p[m]),
                      p[j][h] = p[m][i]
               PROVE  j = m /\ h = i
    BY DEF OncePerQueue
  <2>1. \A x \in Conn : \A y \in 1..Len(q[x]) : q[x][y] # c
    BY <1>4 DEF In
  <2>2. \/ h \in 1..Len(q[j]) /\ p[j][h] = q[j][h]
        \/ j = k /\ h = Len(q[k]) + 1 /\ p[j][h] = c
    BY <1>2
  <2>3. \/ i \in 1..Len(q[m]) /\ p[m][i] = q[m][i]
        \/ m = k /\ i = Len(q[k]) + 1 /\ p[m][i] = c
    BY <1>2
  <2> QED BY <1>4, <2>1, <2>2, <2>3 DEF OncePerQueue
<1> QED BY <1>1, <1>3, <1>4 DEF p

\* A handler, Hub.Abandon and the agent take the first command of one queue.
LEMMA TailQueue ==
  ASSUME NEW q \in Queues, NEW k \in Conn, q[k] # <<>>
  PROVE  /\ TailAt(q, k) \in Queues
         /\ Head(q[k]) \in Cmd
         /\ In(Head(q[k]), q)
         /\ \A d \in Cmd : In(d, TailAt(q, k)) => In(d, q)
         /\ OncePerQueue(q) => /\ OncePerQueue(TailAt(q, k))
                               /\ ~In(Head(q[k]), TailAt(q, k))
<1> DEFINE p == TailAt(q, k)
<1>0. p = [q EXCEPT ![k] = Tail(@)]
  BY DEF TailAt
<1> HIDE DEF p
<1>1. p \in Queues /\ Head(q[k]) \in Cmd
  BY <1>0 DEF Queues
<1>2. /\ Len(q[k]) \in Nat \ {0}
      /\ Len(p[k]) = Len(q[k]) - 1
      /\ \A i \in 1..Len(p[k]) : p[k][i] = q[k][i + 1]
      /\ \A j \in Conn : j # k => p[j] = q[j]
      /\ \A j \in Conn : Len(q[j]) \in Nat
      /\ Head(q[k]) = q[k][1]
  BY <1>0 DEF Queues
<1>3. In(Head(q[k]), q)
  <2>1. 1 \in 1..Len(q[k])
    BY <1>2
  <2> QED BY <1>2, <2>1 DEF In
<1>4. ASSUME NEW j \in Conn, NEW i \in 1..Len(p[j])
      PROVE  \E h \in 1..Len(q[j]) : /\ p[j][i] = q[j][h]
                                     /\ h = IF j = k THEN i + 1 ELSE i
  <2>1. CASE j = k
    <3>1. i + 1 \in 1..Len(q[k])
      BY <1>2, <2>1
    <3> QED BY <1>2, <2>1, <3>1
  <2>2. CASE j # k
    BY <1>2, <2>2
  <2> QED BY <2>1, <2>2
<1>5. \A d \in Cmd : In(d, p) => In(d, q)
  BY <1>4 DEF In
<1>6. ASSUME OncePerQueue(q) PROVE OncePerQueue(p) /\ ~In(Head(q[k]), p)
  <2>1. OncePerQueue(p)
    <3> SUFFICES ASSUME NEW j \in Conn, NEW m \in Conn,
                        NEW h \in 1..Len(p[j]), NEW i \in 1..Len(p[m]),
                        p[j][h] = p[m][i]
                 PROVE  j = m /\ h = i
      BY DEF OncePerQueue
    <3>1. PICK g \in 1..Len(q[j]) : /\ p[j][h] = q[j][g]
                                    /\ g = IF j = k THEN h + 1 ELSE h
      BY <1>4
    <3>2. PICK l \in 1..Len(q[m]) : /\ p[m][i] = q[m][l]
                                    /\ l = IF m = k THEN i + 1 ELSE i
      BY <1>4
    <3>3. j = m /\ g = l
      <4>1. q[j][g] = q[m][l]
        BY <3>1, <3>2
      <4> QED BY <1>6, <4>1 DEF OncePerQueue
    <3>4. h \in Nat /\ i \in Nat
      OBVIOUS
    <3> QED BY <3>1, <3>2, <3>3, <3>4
  <2>2. ASSUME In(Head(q[k]), p) PROVE FALSE
    <3>0. PICK j \in Conn : \E i \in 1..Len(p[j]) : p[j][i] = Head(q[k])
      BY <2>2 DEF In
    <3>1. PICK i \in 1..Len(p[j]) : p[j][i] = Head(q[k])
      BY <3>0
    <3>2. PICK h \in 1..Len(q[j]) : /\ p[j][i] = q[j][h]
                                    /\ h = IF j = k THEN i + 1 ELSE i
      BY <1>4
    <3>3. 1 \in 1..Len(q[k])
      BY <1>2
    <3>4. j = k /\ h = 1
      BY <1>2, <1>6, <3>1, <3>2, <3>3 DEF OncePerQueue
    <3> QED BY <3>2, <3>4
  <2> QED BY <2>1, <2>2
<1> QED BY <1>1, <1>3, <1>5, <1>6 DEF p

\* A crash empties some queues.
LEMMA DropQueues ==
  ASSUME NEW q \in Queues, NEW S, NEW p,
         p = [k \in Conn |-> IF k \in S THEN <<>> ELSE q[k]]
  PROVE  /\ p \in Queues
         /\ \A d \in Cmd : In(d, p) => In(d, q)
         /\ OncePerQueue(q) => OncePerQueue(p)
<1>1. p \in Queues
  BY DEF Queues
<1>2. \A k \in Conn : \A i \in 1..Len(p[k]) : /\ i \in 1..Len(q[k])
                                              /\ p[k][i] = q[k][i]
  BY DEF Queues
<1>3. \A d \in Cmd : In(d, p) => In(d, q)
  BY <1>2 DEF In
<1>4. OncePerQueue(q) => OncePerQueue(p)
  BY <1>2 DEF OncePerQueue
<1> QED BY <1>1, <1>3, <1>4
-----------------------------------------------------------------------------
(* Type correctness.  Only Answer needs more than TypeOK: the result it     *)
(* writes to a stream exists, and so does the stream.                       *)

USE DEF Results, Statuses, Records, Unknown

LEMMA WriteRowType ==
  ASSUME NEW c \in Cmd, NEW from, NEW to \in Statuses,
         status \in [Cmd -> Statuses], WriteRow(c, from, to)
  PROVE  status' \in [Cmd -> Statuses]
BY DEF WriteRow

LEMMA TypeHub ==
  ASSUME HubTypeOK, HubStep
  PROVE  HubTypeOK'
<1> USE DEF HubTypeOK, issueVars, channelVars
<1>1. ASSUME NEW c \in Cmd, CreateCommand(c) PROVE HubTypeOK'
  BY <1>1 DEF CreateCommand
<1>2. ASSUME NEW c \in Cmd, SealFails(c) PROVE HubTypeOK'
  BY <1>2 DEF SealFails, IssuerTo
<1>3. ASSUME NEW c \in Cmd, EnqueueLocal(c) PROVE HubTypeOK'
  <2>1. buf' \in [Conn -> Seq(Cmd)]
    BY <1>3, AppendQueue DEF EnqueueLocal, Push, Queues, AppendAt
  <2> QED BY <1>3, <2>1 DEF EnqueueLocal
<1>4. ASSUME NEW c \in Cmd, QueueFull(c) PROVE HubTypeOK'
  BY <1>4 DEF QueueFull, IssuerTo
<1>5. ASSUME NEW c \in Cmd, NotLocal(c) PROVE HubTypeOK'
  BY <1>5 DEF NotLocal, IssuerTo
<1>6. ASSUME NEW c \in Cmd, Request(c) PROVE HubTypeOK'
  BY <1>6 DEF Request
<1>7. ASSUME NEW c \in Cmd, NoResponders(c) PROVE HubTypeOK'
  BY <1>7 DEF NoResponders
<1>8. ASSUME NEW c \in Cmd, TakeReply(c) PROVE HubTypeOK'
  BY <1>8 DEF TakeReply
<1>9. ASSUME NEW c \in Cmd, RequestTimeout(c) PROVE HubTypeOK'
  BY <1>9 DEF RequestTimeout
<1>10. ASSUME NEW c \in Cmd, Retry(c) PROVE HubTypeOK'
  BY <1>10 DEF Retry, IssuerTo
<1>11. ASSUME NEW c \in Cmd, GiveUp(c) PROVE HubTypeOK'
  BY <1>11 DEF GiveUp, IssuerTo
<1>12. ASSUME NEW c \in Cmd, IssueReturns(c) PROVE HubTypeOK'
  BY <1>12 DEF IssueReturns, FinishPending, WriteRow
<1>13. ASSUME NEW c \in Cmd, NEW k \in Conn, Callback(c, k) PROVE HubTypeOK'
  <2>1. buf' \in [Conn -> Seq(Cmd)]
    <3>1. UNCHANGED buf \/ Push(k, c)
      BY <1>13 DEF Callback
    <3>2. UNCHANGED buf \/ buf' = AppendAt(buf, k, c)
      BY <3>1 DEF Push, AppendAt
    <3>3. buf \in Queues
      BY DEF Queues
    <3>4. buf' \in Queues
      BY <3>2, <3>3, AppendQueue
    <3> QED BY <3>4 DEF Queues
  <2>2. answer' \in [Cmd -> {"none", "ok", "gone", "full"}]
    <3>1. \A a \in {"ok", "gone", "full"} : Reply(c, a) =>
            answer' \in [Cmd -> {"none", "ok", "gone", "full"}]
      BY DEF Reply
    <3> QED BY <1>13, <3>1 DEF Callback
  <2> QED BY <1>13, <2>1, <2>2 DEF Callback
<1>14. ASSUME NEW c \in Cmd, NEW k \in Conn, LoseRequest(c, k) PROVE HubTypeOK'
  BY <1>14 DEF LoseRequest
<1>15. ASSUME NEW k \in Conn, Evict(k) PROVE HubTypeOK'
  BY <1>15 DEF Evict
<1>16. ASSUME NEW k \in Conn, LoseEvict(k) PROVE HubTypeOK'
  BY <1>16 DEF LoseEvict
<1>17. ASSUME NEW k \in Conn, Send(k) PROVE HubTypeOK'
  <2>1. buf' \in [Conn -> Seq(Cmd)] /\ Head(buf[k]) \in Cmd
    BY <1>17, TailQueue DEF Send, Pop, Queues, TailAt
  <2>2. wire' \in [Conn -> Seq(Cmd)]
    BY <1>17, <2>1, AppendQueue DEF Send, Queues, AppendAt
  <2> QED BY <1>17, <2>1, <2>2 DEF Send
<1>18. ASSUME NEW k \in Conn, SendFails(k) PROVE HubTypeOK'
  <2>1. buf' \in [Conn -> Seq(Cmd)] /\ Head(buf[k]) \in Cmd
    BY <1>18, TailQueue DEF SendFails, Pop, Queues, TailAt
  <2>2. wire' \in [Conn -> Seq(Cmd)]
    <3>1. CASE wire' = [wire EXCEPT ![k] = Append(@, Head(buf[k]))]
      BY <2>1, <3>1, AppendQueue DEF Queues, AppendAt
    <3>2. CASE UNCHANGED wire
      BY <3>2
    <3> QED BY <1>18, <3>1, <3>2 DEF SendFails
  <2> QED BY <1>18, <2>1, <2>2 DEF SendFails
<1>19. ASSUME NEW k \in Conn, SendFailed(k) PROVE HubTypeOK'
  <2>1. status' \in [Cmd -> Statuses]
    BY <1>19, WriteRowType DEF SendFailed, Settle
  <2> QED BY <1>19, <2>1 DEF SendFailed
<1>20. ASSUME NEW k \in Conn, Leave(k) PROVE HubTypeOK'
  BY <1>20 DEF Leave
<1>21. ASSUME NEW k \in Conn, Detach(k) PROVE HubTypeOK'
  BY <1>21 DEF Detach
<1>22. ASSUME NEW k \in Conn, Abandon(k) PROVE HubTypeOK'
  <2>1. buf' \in [Conn -> Seq(Cmd)] /\ Head(buf[k]) \in Cmd
    BY <1>22, TailQueue DEF Abandon, Pop, Queues, TailAt
  <2>2. status' \in [Cmd -> Statuses]
    BY <1>22, <2>1, WriteRowType DEF Abandon, Settle
  <2> QED BY <1>22, <2>1, <2>2 DEF Abandon
<1>23. ASSUME NEW k \in Conn, HandlerReturns(k) PROVE HubTypeOK'
  BY <1>23 DEF HandlerReturns
<1>24. ASSUME NEW n \in Node, NodeCrash(n) PROVE HubTypeOK'
  BY <1>24 DEF NodeCrash
<1> QED
  BY <1>1, <1>2, <1>3, <1>4, <1>5, <1>6, <1>7, <1>8, <1>9, <1>10, <1>11,
     <1>12, <1>13, <1>14, <1>15, <1>16, <1>17, <1>18, <1>19, <1>20, <1>21,
     <1>22, <1>23, <1>24 DEF HubStep, IssueStep, RouterStep, HandlerStep,
     StreamEnds, ChannelEnds

LEMMA TypeReceipts ==
  ASSUME ReceiptsTypeOK, NEW c \in Cmd,
         Accept(c) \/ RunStep(c) \/ Acknowledge(c)
  PROVE  ReceiptsTypeOK'
<1> USE DEF ReceiptsTypeOK, storeVars, hostVars
<1>1. CASE Accept(c)
  BY <1>1 DEF Accept
<1>2. CASE Reserve(c)
  BY <1>2 DEF Reserve, Stop
<1>3. CASE Duplicate(c)
  BY <1>3 DEF Duplicate, Stop
<1>4. CASE ReserveFails(c)
  BY <1>4 DEF ReserveFails, Stop
<1>5. CASE Start(c)
  BY <1>5 DEF Start
<1>6. ASSUME NEW r \in Results, Perform(c, r) PROVE ReceiptsTypeOK'
  BY <1>6 DEF Perform
<1>7. CASE Finish(c)
  BY <1>7 DEF Finish, Stop
<1>8. CASE FinishFails(c)
  BY <1>8 DEF FinishFails, Stop
<1>9. CASE FinishAgain(c)
  BY <1>9 DEF FinishAgain
<1>10. CASE Acknowledge(c)
  BY <1>10 DEF Acknowledge
<1> QED BY <1>1, <1>2, <1>3, <1>4, <1>5, <1>6, <1>7, <1>8, <1>9, <1>10
           DEF RunStep

LEMMA TypeAgent ==
  ASSUME ReceiptsTypeOK, AbortSession \/ Restart
  PROVE  ReceiptsTypeOK'
<1> USE DEF ReceiptsTypeOK, storeVars, hostVars
<1>1. CASE AbortSession
  BY <1>1 DEF AbortSession
<1>2. CASE Restart
  <2>1. record' \in [Cmd -> Records]
    BY <1>2 DEF Restart
  <2> QED BY <1>2, <2>1 DEF Restart
<1> QED BY <1>1, <1>2

LEMMA CompleteType ==
  ASSUME status \in [Cmd -> Statuses], NEW c \in Cmd,
         NEW r \in Results \union {Unknown}, Complete(c, r)
  PROVE  status' \in [Cmd -> Statuses]
BY DEF Complete

LEMMA TypeLink ==
  ASSUME TypeOK, RunAgrees, Next
  PROVE  TypeOK'
<1> USE DEF TypeOK
<1>1. CASE HubStep /\ UNCHANGED <<receiptsVars, linkVars>>
  <2>1. ReceiptsTypeOK'
    BY <1>1 DEF receiptsVars, storeVars, hostVars, ReceiptsTypeOK
  <2> QED BY <1>1, <2>1, TypeHub DEF linkVars
<1>2. ASSUME NEW k \in Conn, Connect(k) PROVE TypeOK'
  <2>1. HubTypeOK'
    <3> USE DEF HubTypeOK
    <3>1. /\ conn' \in [Node -> Conn \union {NoConn}]
          /\ handler' \in [Conn -> {"new", "serve", "sendfailed", "leaving",
                                    "abandon", "gone"}]
      BY <1>2 DEF Connect, Attach
    <3>2. closed' \in [Conn -> BOOLEAN]
      BY <1>2 DEF Connect, Attach
    <3>3. PICK subscribed \in BOOLEAN :
            /\ sub' = [j \in Conn |-> IF j = k THEN subscribed
                                      ELSE sub[j] /\ j # conn[Home[k]]]
            /\ evicting' = (evicting \ {conn[Home[k]]}) \union
                 {j \in Conn : subscribed /\ sub[j]
                                 /\ j \notin {k, conn[Home[k]]}}
      BY <1>2 DEF Connect, Attach
    <3>4. sub' \in [Conn -> BOOLEAN] /\ evicting' \subseteq Conn
      BY <3>3
    <3> QED BY <1>2, <3>1, <3>2, <3>4 DEF Connect, Attach, issueVars
  <2>2. ReceiptsTypeOK'
    BY <1>2 DEF Connect, receiptsVars, storeVars, hostVars, ReceiptsTypeOK
  <2> QED BY <1>2, <2>1, <2>2 DEF Connect
<1>3. ASSUME NEW k \in Conn, ReadWire(k)
      PROVE  HubTypeOK' /\ Head(wire[k]) \in Cmd
  <2>1. wire' \in [Conn -> Seq(Cmd)] /\ Head(wire[k]) \in Cmd
    BY <1>3, TailQueue DEF ReadWire, Queues, HubTypeOK, TailAt
  <2> QED BY <1>3, <2>1 DEF ReadWire, HubTypeOK, issueVars
<1>4. ASSUME NEW k \in Conn, Receive(k) PROVE TypeOK'
  BY <1>3, <1>4, TypeReceipts DEF Receive
<1>5. ASSUME NEW k \in Conn, RefuseSeal(k) PROVE TypeOK'
  <2>1. ReceiptsTypeOK'
    BY <1>5 DEF RefuseSeal, receiptsVars, storeVars, hostVars, ReceiptsTypeOK
  <2> QED BY <1>3, <1>5, <2>1 DEF RefuseSeal
<1>6. ASSUME UNCHANGED hubVars PROVE HubTypeOK'
  BY <1>6 DEF hubVars, HubTypeOK
<1>7. ASSUME UNCHANGED receiptsVars PROVE ReceiptsTypeOK'
  BY <1>7 DEF receiptsVars, storeVars, hostVars, ReceiptsTypeOK
<1>8. ASSUME NEW c \in Cmd, CannotReserve(c) PROVE TypeOK'
  BY <1>6, <1>8, TypeReceipts DEF CannotReserve, RunStep
<1>9. ASSUME NEW c \in Cmd, Answer(c) PROVE TypeOK'
  <2>1. HubTypeOK' /\ ReceiptsTypeOK'
    BY <1>6, <1>9, TypeReceipts DEF Answer, RunStep
  <2>2. outcome[c] \in Results
    BY <1>9 DEF Answer, Finish, RunAgrees, ReceiptsTypeOK
  <2>3. c \in attached => via[c] \in Conn
    BY DEF RunAgrees
  <2>4. streamed' \subseteq Conn \X Cmd \X Results
    BY <1>9, <2>2, <2>3 DEF Answer
  <2> QED BY <1>9, <2>1, <2>4 DEF Answer
<1>10. ASSUME NEW c \in Cmd, AgentRun(c) PROVE TypeOK'
  BY <1>6, <1>10, TypeReceipts DEF AgentRun, RunStep, linkVars
<1>11. ASSUME NEW c \in Cmd, Report(c) PROVE TypeOK'
  <2>1. Reported(c) \in Results \union {Unknown}
    BY DEF Reported
  <2> QED BY <1>6, <1>7, <1>11, <2>1 DEF Report
<1>12. ASSUME NEW c \in Cmd, TakeAck(c) PROVE TypeOK'
  BY <1>6, <1>12, TypeReceipts DEF TakeAck
<1>13. ASSUME NEW c \in Cmd, LoseAck(c) PROVE TypeOK'
  BY <1>6, <1>7, <1>13 DEF LoseAck
<1>14. ASSUME NEW m \in streamed, StreamedResult(m) PROVE TypeOK'
  <2>1. m[1] \in Conn /\ m[2] \in Cmd /\ m[3] \in Results
    OBVIOUS
  <2>2. HubTypeOK'
    <3> USE DEF HubTypeOK
    <3>0. \/ Complete(m[2], m[3]) /\ UNCHANGED handler
          \/ handler' = [handler EXCEPT ![m[1]] = "leaving"] /\ UNCHANGED status
      BY <1>14 DEF StreamedResult
    <3>1. status' \in [Cmd -> Statuses]
      BY <2>1, <3>0, CompleteType
    <3>2. handler' \in [Conn -> {"new", "serve", "sendfailed", "leaving",
                                 "abandon", "gone"}]
      BY <2>1, <3>0
    <3> QED BY <1>14, <3>1, <3>2 DEF StreamedResult, issueVars
  <2> QED BY <1>7, <1>14, <2>2 DEF StreamedResult
<1>15. ASSUME NEW m \in streamed, LoseStreamed(m) PROVE TypeOK'
  BY <1>6, <1>7, <1>15 DEF LoseStreamed
<1>16. ASSUME NEW m \in reports, StoreReport(m) PROVE TypeOK'
  <2>1. m[1] \in Cmd /\ m[2] \in Results \union {Unknown}
    OBVIOUS
  <2>2. HubTypeOK'
    BY <1>16, <2>1 DEF StoreReport, Complete, HubTypeOK, issueVars, channelVars
  <2> QED BY <1>7, <1>16, <2>1, <2>2 DEF StoreReport
<1>17. ASSUME NEW m \in reports, LoseReport(m) PROVE TypeOK'
  BY <1>6, <1>7, <1>17 DEF LoseReport
<1>18. CASE StreamDrops
  BY <1>6, <1>7, <1>18 DEF StreamDrops
<1>19. CASE Abort \/ AgentRestart
  BY <1>6, <1>19, TypeAgent DEF Abort, AgentRestart
<1> QED BY <1>1, <1>2, <1>4, <1>5, <1>8, <1>9, <1>10, <1>11, <1>12, <1>13,
           <1>14, <1>15, <1>16, <1>17, <1>18, <1>19 DEF Next, AgentStep
-----------------------------------------------------------------------------
(* One place at a time.  A command only moves on along the places, and one  *)
(* that is past them all stays so.                                          *)

PlacesKept == OnePlace' /\ \A d \in Cmd : Past(d) => Past(d)'

\* What the lemmas on queues say of the channels and of the wires.
LEMMA PushPlaces ==
  ASSUME HubTypeOK, NEW k \in Conn, NEW c \in Cmd, Push(k, c)
  PROVE  /\ \A d \in Cmd : Buffered(d)' <=> Buffered(d) \/ d = c
         /\ OncePerQueue(buf) /\ ~Buffered(c) => OncePerQueue(buf)'
<1>1. buf \in Queues /\ buf' = AppendAt(buf, k, c)
  BY DEF HubTypeOK, Queues, Push, AppendAt
<1> QED BY <1>1, AppendQueue DEF Buffered

LEMMA PopPlaces ==
  ASSUME HubTypeOK, NEW k \in Conn, buf[k] # <<>>, Pop(k)
  PROVE  /\ Head(buf[k]) \in Cmd
         /\ Buffered(Head(buf[k]))
         /\ \A d \in Cmd : Buffered(d)' => Buffered(d)
         /\ OncePerQueue(buf) =>
              OncePerQueue(buf)' /\ ~In(Head(buf[k]), buf')
<1>1. buf \in Queues /\ buf' = TailAt(buf, k)
  BY DEF HubTypeOK, Queues, Pop, TailAt
<1> QED BY <1>1, TailQueue DEF Buffered

LEMMA WritePlaces ==
  ASSUME HubTypeOK, NEW k \in Conn, NEW c \in Cmd, wire' = AppendAt(wire, k, c)
  PROVE  /\ \A d \in Cmd : OnWire(d)' <=> OnWire(d) \/ d = c
         /\ OncePerQueue(wire) /\ ~OnWire(c) => OncePerQueue(wire)'
<1>1. wire \in Queues
  BY DEF HubTypeOK, Queues
<1> QED BY <1>1, AppendQueue DEF OnWire

LEMMA ReadPlaces ==
  ASSUME HubTypeOK, NEW k \in Conn, ReadWire(k)
  PROVE  /\ Head(wire[k]) \in Cmd
         /\ OnWire(Head(wire[k]))
         /\ \A d \in Cmd : OnWire(d)' => OnWire(d)
         /\ OncePerQueue(wire) =>
              OncePerQueue(wire)' /\ ~In(Head(wire[k]), wire')
<1>1. wire \in Queues /\ wire[k] # <<>> /\ wire' = TailAt(wire, k)
  BY DEF HubTypeOK, Queues, ReadWire, TailAt
<1> QED BY <1>1, TailQueue DEF OnWire

\* Steps that leave the four places of every command alone.
LEMMA SamePlaces ==
  ASSUME OnePlace, UNCHANGED <<issuer, answer, inflight, buf, wire>>
  PROVE  PlacesKept
BY DEF OnePlace, PlacesKept, Past, AtIssuer, InRequest, Buffered, OnWire

\* Steps of a caller of issue that hand the command to nobody.
LEMMA IssuerPlaces ==
  ASSUME OnePlace, RowHasIssuer, HubTypeOK, NEW c \in Cmd,
         UNCHANGED <<inflight, buf, wire>>,
         AtIssuer(c) \/ ~AtIssuer(c)',
         answer'[c] = "none" \/ answer'[c] = answer[c],
         \A d \in Cmd \ {c} : issuer'[d] = issuer[d] /\ answer'[d] = answer[d]
  PROVE  PlacesKept
BY DEF OnePlace, PlacesKept, Past, AtIssuer, InRequest, Buffered, OnWire

LEMMA PlacesHub ==
  ASSUME OnePlace, RowHasIssuer, HubTypeOK, HubStep
  PROVE  PlacesKept
<1> USE DEF HubTypeOK, channelVars, issueVars
<1>1. ASSUME NEW c \in Cmd, CreateCommand(c) PROVE PlacesKept
  BY <1>1, IssuerPlaces DEF CreateCommand, RowHasIssuer, AtIssuer
<1>2. ASSUME NEW c \in Cmd,
             \/ SealFails(c) \/ QueueFull(c) \/ NotLocal(c)
             \/ Retry(c) \/ GiveUp(c)
      PROVE  PlacesKept
  <2>1. AtIssuer(c) /\ UNCHANGED answer /\ UNCHANGED <<inflight, buf, wire>>
    BY <1>2 DEF SealFails, QueueFull, NotLocal, Retry, GiveUp, IssuerTo, AtIssuer
  <2>2. \A d \in Cmd \ {c} : issuer'[d] = issuer[d]
    BY <1>2 DEF SealFails, QueueFull, NotLocal, Retry, GiveUp, IssuerTo
  <2> QED BY <2>1, <2>2, IssuerPlaces
<1>3. ASSUME NEW c \in Cmd, EnqueueLocal(c) PROVE PlacesKept
  <2>1. /\ \A d \in Cmd : Buffered(d)' <=> Buffered(d) \/ d = c
        /\ OncePerQueue(buf) /\ ~Buffered(c) => OncePerQueue(buf)'
    <3>1. conn[Origin[c]] \in Conn /\ Push(conn[Origin[c]], c)
      BY <1>3 DEF EnqueueLocal
    <3> QED BY <3>1, PushPlaces
  <2>2. /\ AtIssuer(c) /\ ~AtIssuer(c)' /\ UNCHANGED <<answer, inflight, wire>>
        /\ \A d \in Cmd \ {c} : issuer'[d] = issuer[d]
    BY <1>3 DEF EnqueueLocal, AtIssuer
  <2> QED BY <2>1, <2>2 DEF OnePlace, PlacesKept, Past, AtIssuer, InRequest, OnWire
<1>4. ASSUME NEW c \in Cmd, Request(c) PROVE PlacesKept
  <2>1. PICK k \in Conn : inflight' = inflight \union {<<c, k>>}
    BY <1>4 DEF Request
  <2>2. /\ AtIssuer(c) /\ ~AtIssuer(c)' /\ answer[c] = "none"
        /\ UNCHANGED <<answer, buf, wire>>
        /\ \A d \in Cmd \ {c} : issuer'[d] = issuer[d]
    BY <1>4 DEF Request, AtIssuer, RowHasIssuer
  <2>3. \A d \in Cmd : InRequest(d)' <=> InRequest(d) \/ d = c
    BY <2>1 DEF InRequest
  <2>4. ~InRequest(c)
    BY <2>2 DEF OnePlace
  <2>5. \A m, w \in inflight' : m[1] = w[1] => m = w
    <3>1. ASSUME NEW m \in inflight, m[1] = c PROVE FALSE
      <4>1. m \in Cmd \X Conn
        OBVIOUS
      <4>2. m = <<c, m[2]>> /\ m[2] \in Conn
        BY <3>1, <4>1
      <4> QED BY <2>4, <4>2 DEF InRequest
    <3> SUFFICES ASSUME NEW m \in inflight', NEW w \in inflight', m[1] = w[1]
                 PROVE  m = w
      OBVIOUS
    <3>2. /\ m \in inflight \/ (m = <<c, k>> /\ m[1] = c)
          /\ w \in inflight \/ (w = <<c, k>> /\ w[1] = c)
      BY <2>1
    <3>3. CASE m \in inflight /\ w \in inflight
      BY <3>3 DEF OnePlace
    <3> QED BY <3>1, <3>2, <3>3
  <2> QED BY <2>2, <2>3, <2>5
          DEF OnePlace, PlacesKept, Past, AtIssuer, Buffered, OnWire
<1>5. ASSUME NEW c \in Cmd, NoResponders(c) PROVE PlacesKept
  BY <1>5, IssuerPlaces DEF NoResponders, AtIssuer
<1>6. ASSUME NEW c \in Cmd, TakeReply(c) PROVE PlacesKept
  BY <1>6, IssuerPlaces DEF TakeReply, AtIssuer
<1>7. ASSUME NEW c \in Cmd, RequestTimeout(c) PROVE PlacesKept
  BY <1>7, IssuerPlaces DEF RequestTimeout, AtIssuer
<1>8. ASSUME NEW c \in Cmd, IssueReturns(c) PROVE PlacesKept
  <2>1. /\ UNCHANGED <<answer, inflight, buf, wire>>
        /\ issuer' = [issuer EXCEPT ![c] = "done"]
    BY <1>8 DEF IssueReturns
  <2> QED BY <2>1, IssuerPlaces DEF AtIssuer
<1>9. ASSUME NEW c \in Cmd, NEW k \in Conn, Callback(c, k) PROVE PlacesKept
  <2>1. InRequest(c) /\ ~InRequest(c)'
    <3>1. <<c, k>> \in inflight /\ inflight' = inflight \ {<<c, k>>}
      BY <1>9 DEF Callback
    <3>2. \A j \in Conn : <<c, j>> \in inflight => <<c, j>> = <<c, k>>
      BY <3>1 DEF OnePlace
    <3> QED BY <3>1, <3>2 DEF InRequest
  <2>2. /\ UNCHANGED <<issuer, wire>>
        /\ \A d \in Cmd \ {c} : answer'[d] = answer[d]
        /\ \A d \in Cmd : InRequest(d)' => InRequest(d)
        /\ \A m, w \in inflight' : m[1] = w[1] => m = w
    BY <1>9 DEF Callback, Reply, InRequest, OnePlace
  <2>3. CASE UNCHANGED buf
    BY <2>1, <2>2, <2>3
       DEF OnePlace, PlacesKept, Past, AtIssuer, Buffered, OnWire
  <2>4. CASE Push(k, c) /\ Reply(c, "ok")
    <3>1. /\ \A d \in Cmd : Buffered(d)' <=> Buffered(d) \/ d = c
          /\ OncePerQueue(buf) /\ ~Buffered(c) => OncePerQueue(buf)'
      BY <2>4, PushPlaces
    <3>2. answer'[c] \in {"none", "ok"}
      BY <2>1, <2>4 DEF Reply, OnePlace
    <3>3. ~AtIssuer(c)'
      BY <2>1, <2>2, <3>2 DEF OnePlace, AtIssuer
    <3> QED BY <2>1, <2>2, <3>1, <3>3
            DEF OnePlace, PlacesKept, Past, AtIssuer, OnWire
  <2> QED BY <1>9, <2>3, <2>4 DEF Callback
<1>10. ASSUME NEW c \in Cmd, NEW k \in Conn, LoseRequest(c, k)
       PROVE  PlacesKept
  <2>1. /\ UNCHANGED <<issuer, answer, buf, wire>>
        /\ \A d \in Cmd : InRequest(d)' => InRequest(d)
        /\ \A m, w \in inflight' : m[1] = w[1] => m = w
    BY <1>10 DEF LoseRequest, InRequest, OnePlace
  <2> QED BY <2>1 DEF OnePlace, PlacesKept, Past, AtIssuer, Buffered, OnWire
<1>11. ASSUME NEW k \in Conn, \/ Evict(k) \/ LoseEvict(k) \/ SendFailed(k)
                              \/ Leave(k) \/ Detach(k) \/ HandlerReturns(k)
       PROVE  PlacesKept
  <2>1. UNCHANGED <<issuer, answer, inflight, buf, wire>>
    BY <1>11 DEF Evict, LoseEvict, SendFailed, Leave, Detach, HandlerReturns
  <2> QED BY <2>1, SamePlaces
<1>12. ASSUME NEW k \in Conn, Send(k) \/ SendFails(k) PROVE PlacesKept
  <2> DEFINE c == Head(buf[k])
  <2>1. /\ UNCHANGED <<issuer, answer, inflight>>
        /\ buf[k] # <<>> /\ buf' = [buf EXCEPT ![k] = Tail(@)]
        /\ \/ UNCHANGED wire
           \/ wire' = [wire EXCEPT ![k] = Append(@, c)]
    BY <1>12 DEF Send, SendFails, Pop
  <2>2. /\ c \in Cmd
        /\ Buffered(c)
        /\ \A d \in Cmd : Buffered(d)' => Buffered(d)
        /\ OncePerQueue(buf) => OncePerQueue(buf)' /\ ~In(c, buf')
    BY <2>1, PopPlaces DEF Pop
  <2>3. CASE UNCHANGED wire
    BY <2>1, <2>2, <2>3 DEF OnePlace, PlacesKept, Past, AtIssuer, InRequest, OnWire
  <2>4. CASE wire' = [wire EXCEPT ![k] = Append(@, c)]
    <3>1. /\ \A d \in Cmd : OnWire(d)' <=> OnWire(d) \/ d = c
          /\ OncePerQueue(wire) /\ ~OnWire(c) => OncePerQueue(wire)'
      BY <2>2, <2>4, WritePlaces DEF AppendAt
    <3> HIDE DEF c
    <3>2. \A d \in Cmd : d = c => ~Buffered(d)'
      BY <2>2 DEF OnePlace, Buffered
    <3>3. ~AtIssuer(c) /\ ~InRequest(c) /\ ~OnWire(c)
      BY <2>2 DEF OnePlace
    <3> QED BY <2>1, <2>2, <3>1, <3>2, <3>3
            DEF OnePlace, PlacesKept, Past, AtIssuer, InRequest
  <2> QED BY <2>1, <2>3, <2>4
<1>13. ASSUME NEW k \in Conn, Abandon(k) PROVE PlacesKept
  <2>1. /\ UNCHANGED <<issuer, answer, inflight, wire>>
        /\ \A d \in Cmd : Buffered(d)' => Buffered(d)
        /\ OncePerQueue(buf) => OncePerQueue(buf)'
    BY <1>13, PopPlaces DEF Abandon
  <2> QED BY <2>1 DEF OnePlace, PlacesKept, Past, AtIssuer, InRequest, OnWire
<1>14. ASSUME NEW n \in Node, NodeCrash(n) PROVE PlacesKept
  <2>1. /\ \A d \in Cmd : Buffered(d)' => Buffered(d)
        /\ OncePerQueue(buf) => OncePerQueue(buf)'
    BY <1>14, DropQueues DEF NodeCrash, Queues, Buffered
  <2>2. /\ UNCHANGED wire
        /\ inflight' \subseteq inflight
        /\ \A d \in Cmd : AtIssuer(d)' => AtIssuer(d)
        /\ \A d \in Cmd : answer'[d] \in {"none", answer[d]}
    BY <1>14 DEF NodeCrash, AtIssuer
  <2> QED BY <2>1, <2>2 DEF OnePlace, PlacesKept, Past, InRequest, OnWire
<1> QED BY <1>1, <1>2, <1>3, <1>4, <1>5, <1>6, <1>7, <1>8, <1>9, <1>10,
           <1>11, <1>12, <1>13, <1>14
        DEF HubStep, IssueStep, RouterStep, HandlerStep, StreamEnds, ChannelEnds

LEMMA PlacesStep ==
  ASSUME OnePlace, RowHasIssuer, TypeOK, Next
  PROVE  PlacesKept
<1> USE DEF issueVars, channelVars
<1>1. CASE HubStep
  BY <1>1, PlacesHub DEF TypeOK
<1>2. ASSUME NEW k \in Conn, ReadWire(k) PROVE PlacesKept
  <2>1. UNCHANGED <<issuer, answer, inflight, buf>>
    BY <1>2 DEF ReadWire
  <2>2. /\ \A d \in Cmd : OnWire(d)' => OnWire(d)
        /\ OncePerQueue(wire) => OncePerQueue(wire)'
    BY <1>2, ReadPlaces DEF TypeOK
  <2> QED BY <2>1, <2>2
          DEF OnePlace, PlacesKept, Past, AtIssuer, InRequest, Buffered
<1>3. ASSUME UNCHANGED <<issueVars, buf, wire>> PROVE PlacesKept
  BY <1>3, SamePlaces
<1>4. ASSUME NEW k \in Conn, Connect(k) PROVE PlacesKept
  BY <1>3, <1>4 DEF Connect, Attach
<1>5. ASSUME NEW k \in Conn, Receive(k) \/ RefuseSeal(k) PROVE PlacesKept
  BY <1>2, <1>5 DEF Receive, RefuseSeal
<1>6. ASSUME NEW c \in Cmd, AgentStep(c) \/ TakeAck(c) \/ LoseAck(c)
      PROVE  PlacesKept
  <2>1. UNCHANGED hubVars
    BY <1>6 DEF AgentStep, CannotReserve, Answer, AgentRun, Report, TakeAck,
                LoseAck
  <2> QED BY <1>3, <2>1 DEF hubVars
<1>7. ASSUME NEW m \in streamed, StreamedResult(m) PROVE PlacesKept
  BY <1>3, <1>7 DEF StreamedResult
<1>8. ASSUME NEW m \in streamed, LoseStreamed(m) PROVE PlacesKept
  BY <1>3, <1>8 DEF LoseStreamed, hubVars
<1>9. ASSUME NEW m \in reports, StoreReport(m) \/ LoseReport(m)
      PROVE  PlacesKept
  BY <1>3, <1>9 DEF StoreReport, LoseReport, hubVars
<1>10. CASE StreamDrops \/ Abort \/ AgentRestart
  BY <1>3, <1>10 DEF StreamDrops, Abort, AgentRestart, hubVars
<1> QED BY <1>1, <1>4, <1>5, <1>6, <1>7, <1>8, <1>9, <1>10 DEF Next
-----------------------------------------------------------------------------
(* What a step can do to the row of a command, and to its host.             *)

Open == {"pending", "sent", "unknown"}

\* The row of c goes to v: issued, sent, doubted, refused without ever having
\* reached the agent, or closed with what a result on its way says
RowMoves(c, v) ==
  \/ status[c] = "none" /\ v = "pending"
  \/ status[c] = "pending" /\ v = "sent"
  \/ status[c] \in Open /\ v = "unknown"
  \/ status[c] \in Open /\ v = "failed" /\ ~Landed(c) /\ Past(c)'
  \/ /\ status[c] \in Open /\ v \in Results
     /\ \/ \E m \in streamed : m[2] = c /\ m[3] = v
        \/ \E m \in reports : m[1] = c /\ m[2] = v

RowStep == \/ UNCHANGED status
           \/ \E c \in Cmd : \E v \in Statuses :
                status' = [status EXCEPT ![c] = v] /\ RowMoves(c, v)

\* The updates of the commands table write one row, or none.
LEMMA OneRow ==
  ASSUME HubTypeOK, NEW c \in Cmd, NEW from, NEW to, WriteRow(c, from, to)
  PROVE  \/ UNCHANGED status
         \/ status[c] \in from /\ status' = [status EXCEPT ![c] = to]
BY DEF HubTypeOK, WriteRow

LEMMA OneCompletion ==
  ASSUME HubTypeOK, NEW c \in Cmd, NEW to, Complete(c, to)
  PROVE  \/ UNCHANGED status
         \/ status[c] \in Open /\ status' = [status EXCEPT ![c] = to]
BY DEF HubTypeOK, Complete, Open

LEMMA HubRows ==
  ASSUME OnePlace, LandedIsPast, HubTypeOK, HubStep
  PROVE  RowStep
<1> USE DEF issueVars, channelVars
<1>1. ASSUME NEW c \in Cmd, CreateCommand(c) PROVE RowStep
  BY <1>1 DEF CreateCommand, RowStep, RowMoves, Statuses
<1>2. ASSUME NEW c \in Cmd, IssueReturns(c) PROVE RowStep
  <2>1. CASE issuer[c] = "mark" /\ FinishPending(c, "sent")
    BY <2>1, OneRow DEF FinishPending, RowStep, RowMoves, Statuses
  <2>2. CASE issuer[c] = "unknown" /\ FinishPending(c, "unknown")
    BY <2>2, OneRow DEF FinishPending, RowStep, RowMoves, Statuses, Open
  <2>3. CASE issuer[c] = "refused" /\ FinishPending(c, "failed")
    <3>1. AtIssuer(c) /\ ~AtIssuer(c)'
      BY <1>2, <2>3 DEF IssueReturns, AtIssuer, HubTypeOK
    <3>2. ~Landed(c) /\ Past(c)'
      BY <1>2, <3>1 DEF IssueReturns, LandedIsPast, OnePlace, Past, InRequest,
                        Buffered, OnWire
    <3>3. \/ UNCHANGED status
          \/ status[c] \in {"pending"} /\ status' = [status EXCEPT ![c] = "failed"]
      BY <2>3, OneRow DEF FinishPending
    <3> QED BY <3>2, <3>3 DEF RowStep, RowMoves, Statuses, Open, Results
  <2> QED BY <1>2, <2>1, <2>2, <2>3 DEF IssueReturns
<1>3. ASSUME NEW k \in Conn, SendFailed(k) PROVE RowStep
  <2>1. PICK c \in hold[k] : Settle(c, "unknown")
    BY <1>3 DEF SendFailed
  <2>2. c \in Cmd
    BY DEF HubTypeOK
  <2> QED BY <2>1, <2>2, OneRow DEF Settle, RowStep, RowMoves, Statuses, Open
<1>4. ASSUME NEW k \in Conn, Abandon(k) PROVE RowStep
  <2>0. Head(buf[k]) \in Cmd
    BY <1>4, PopPlaces DEF Abandon
  <2> PICK c \in Cmd : c = Head(buf[k])
    BY <2>0
  <2>1. Buffered(c) /\ (OncePerQueue(buf) => ~In(c, buf'))
    BY <1>4, PopPlaces DEF Abandon
  <2>2. Settle(c, "failed") /\ UNCHANGED <<issuer, answer, inflight, wire>>
    BY <1>4 DEF Abandon
  <2>3. ~Landed(c)
    BY <2>1 DEF LandedIsPast, Past
  <2>4. ~AtIssuer(c) /\ ~InRequest(c) /\ ~OnWire(c) /\ ~In(c, buf')
    BY <2>1 DEF OnePlace
  <2>5. Past(c)'
    BY <2>2, <2>4 DEF Past, AtIssuer, InRequest, Buffered, OnWire
  <2>6. \/ UNCHANGED status
        \/ /\ status[c] \in {"pending", "sent"}
           /\ status' = [status EXCEPT ![c] = "failed"]
    BY <2>1, <2>2, OneRow DEF Settle
  <2> QED BY <2>1, <2>3, <2>5, <2>6 DEF RowStep, RowMoves, Statuses, Open, Results
<1>5. CASE UNCHANGED status
  BY <1>5 DEF RowStep
<1>6. ASSUME NEW c \in Cmd, \/ SealFails(c) \/ EnqueueLocal(c) \/ QueueFull(c)
                            \/ NotLocal(c) \/ Request(c) \/ NoResponders(c)
                            \/ TakeReply(c) \/ RequestTimeout(c) \/ Retry(c)
                            \/ GiveUp(c)
      PROVE  UNCHANGED status
  BY <1>6 DEF SealFails, EnqueueLocal, QueueFull, NotLocal, Request, IssuerTo,
              NoResponders, TakeReply, RequestTimeout, Retry, GiveUp
<1>7. ASSUME NEW k \in Conn, RouterStep(k) PROVE UNCHANGED status
  BY <1>7 DEF RouterStep, Callback, LoseRequest, Evict, LoseEvict
<1>8. ASSUME NEW k \in Conn, \/ Send(k) \/ SendFails(k) \/ Leave(k)
                             \/ Detach(k) \/ HandlerReturns(k)
      PROVE  UNCHANGED status
  BY <1>8 DEF Send, SendFails, Leave, Detach, HandlerReturns
<1>9. ASSUME NEW n \in Node, NodeCrash(n) PROVE UNCHANGED status
  BY <1>9 DEF NodeCrash
<1> QED BY <1>1, <1>2, <1>3, <1>4, <1>5, <1>6, <1>7, <1>8, <1>9
        DEF HubStep, IssueStep, HandlerStep, StreamEnds, ChannelEnds

LEMMA AnyRow ==
  ASSUME OnePlace, LandedIsPast, TypeOK, Next
  PROVE  RowStep
<1>1. CASE HubStep
  BY <1>1, HubRows DEF TypeOK
<1>2. CASE UNCHANGED status
  BY <1>2 DEF RowStep
<1>3. ASSUME NEW m \in streamed, StreamedResult(m) PROVE RowStep
  <2>1. m[2] \in Cmd /\ m[3] \in Results
    BY DEF TypeOK
  <2>2. CASE Complete(m[2], m[3])
    <3>1. \/ UNCHANGED status
          \/ status[m[2]] \in Open /\ status' = [status EXCEPT ![m[2]] = m[3]]
      BY <2>1, <2>2, OneCompletion DEF TypeOK
    <3> QED BY <2>1, <3>1 DEF RowStep, RowMoves, Statuses
  <2> QED BY <1>2, <1>3, <2>2 DEF StreamedResult
<1>4. ASSUME NEW m \in reports, StoreReport(m) PROVE RowStep
  <2>1. m[1] \in Cmd /\ m[2] \in Results \union {Unknown}
    BY DEF TypeOK
  <2>2. \/ UNCHANGED status
        \/ status[m[1]] \in Open /\ status' = [status EXCEPT ![m[1]] = m[2]]
    BY <1>4, <2>1, OneCompletion DEF StoreReport, TypeOK
  <2>3. CASE m[2] \in Results
    BY <2>1, <2>2, <2>3 DEF RowStep, RowMoves, Statuses
  <2>4. CASE m[2] = Unknown
    BY <2>1, <2>2, <2>4 DEF RowStep, RowMoves, Statuses, Unknown
  <2> QED BY <2>1, <2>3, <2>4
<1>5. ASSUME NEW k \in Conn, Connect(k) \/ Receive(k) \/ RefuseSeal(k)
      PROVE  UNCHANGED status
  BY <1>5 DEF Connect, Attach, Receive, RefuseSeal, ReadWire
<1>6. ASSUME NEW c \in Cmd, AgentStep(c) \/ TakeAck(c) \/ LoseAck(c)
      PROVE  UNCHANGED status
  BY <1>6 DEF AgentStep, CannotReserve, Answer, AgentRun, Report, TakeAck,
              LoseAck, hubVars
<1>7. ASSUME NEW m \in streamed, LoseStreamed(m) PROVE UNCHANGED status
  BY <1>7 DEF LoseStreamed, hubVars
<1>8. ASSUME NEW m \in reports, LoseReport(m) PROVE UNCHANGED status
  BY <1>8 DEF LoseReport, hubVars
<1>9. CASE StreamDrops \/ Abort \/ AgentRestart
  BY <1>2, <1>9 DEF StreamDrops, Abort, AgentRestart, hubVars
<1> QED BY <1>1, <1>2, <1>3, <1>4, <1>5, <1>6, <1>7, <1>8, <1>9 DEF Next

\* The host begins a reserved command, or ends a running one; nothing else
\* in the whole channel touches the host.
Begins(c)  == /\ run[c] = "reserved"
              /\ started' = [started EXCEPT ![c] = @ + 1]
              /\ UNCHANGED <<outcome, status>>
Ends(c, r) == /\ run[c] = "running"
              /\ outcome' = [outcome EXCEPT ![c] = r]
              /\ UNCHANGED <<started, status>>

HostStep == \/ UNCHANGED hostVars
            \/ \E c \in Cmd : Begins(c)
            \/ \E c \in Cmd : \E r \in Results : Ends(c, r)

LEMMA AnyHost ==
  ASSUME Next
  PROVE  HostStep
<1> USE DEF HostStep
<1>1. ASSUME NEW c \in Cmd, AgentRun(c) PROVE HostStep
  <2>1. CASE Start(c)
    BY <1>1, <2>1 DEF AgentRun, Start, Begins, hubVars
  <2>2. ASSUME NEW r \in Results, Perform(c, r) PROVE HostStep
    BY <1>1, <2>2 DEF AgentRun, Perform, Ends, hubVars
  <2>3. CASE Reserve(c) \/ Duplicate(c) \/ FinishFails(c) \/ FinishAgain(c)
    BY <2>3 DEF Reserve, Duplicate, FinishFails, FinishAgain
  <2> QED BY <1>1, <2>1, <2>2, <2>3 DEF AgentRun
<1>2. CASE UNCHANGED receiptsVars
  BY <1>2 DEF receiptsVars
<1>3. ASSUME NEW k \in Conn, Connect(k) \/ Receive(k) \/ RefuseSeal(k)
      PROVE  HostStep
  BY <1>3 DEF Connect, Receive, Accept, RefuseSeal, receiptsVars
<1>4. ASSUME NEW c \in Cmd, CannotReserve(c) \/ Answer(c) \/ TakeAck(c)
      PROVE  HostStep
  BY <1>4 DEF CannotReserve, ReserveFails, Answer, Finish, TakeAck, Acknowledge
<1>5. ASSUME NEW c \in Cmd, Report(c) \/ LoseAck(c) PROVE UNCHANGED receiptsVars
  BY <1>5 DEF Report, LoseAck
<1>6. ASSUME NEW m \in streamed, StreamedResult(m) \/ LoseStreamed(m)
      PROVE  UNCHANGED receiptsVars
  BY <1>6 DEF StreamedResult, LoseStreamed
<1>7. ASSUME NEW m \in reports, StoreReport(m) \/ LoseReport(m)
      PROVE  UNCHANGED receiptsVars
  BY <1>7 DEF StoreReport, LoseReport
<1>8. CASE StreamDrops \/ Abort \/ AgentRestart
  BY <1>8 DEF StreamDrops, Abort, AbortSession, AgentRestart, Restart,
              receiptsVars
<1> QED BY <1>1, <1>2, <1>3, <1>4, <1>5, <1>6, <1>7, <1>8 DEF Next, AgentStep
-----------------------------------------------------------------------------
(* The other conjuncts of the invariant.                                    *)

\* A row is created with its caller, and replies are kept only for callers.
LEMMA IssuersStep ==
  ASSUME RowHasIssuer, TypeOK, Next
  PROVE  RowHasIssuer'
<1> USE DEF RowHasIssuer
<1>0. HubTypeOK
  BY DEF TypeOK
<1>1. ASSUME UNCHANGED <<status, issuer, answer>> PROVE RowHasIssuer'
  BY <1>1
<1>2. ASSUME UNCHANGED <<issuer, answer>>, NEW c \in Cmd, status[c] # "none",
             NEW v, v # "none", status' = [status EXCEPT ![c] = v]
      PROVE  RowHasIssuer'
  BY <1>0, <1>2 DEF HubTypeOK
<1>3. ASSUME NEW c \in Cmd, CreateCommand(c) PROVE RowHasIssuer'
  BY <1>0, <1>3 DEF CreateCommand, HubTypeOK
<1>4. ASSUME NEW c \in Cmd, issuer[c] # "idle", issuer'[c] # "idle",
             answer'[c] = "none" \/ issuer'[c] = "await",
             UNCHANGED status,
             \A d \in Cmd \ {c} : issuer'[d] = issuer[d] /\ answer'[d] = answer[d]
      PROVE  RowHasIssuer'
  BY <1>4
<1>5. ASSUME NEW c \in Cmd, IssueReturns(c) PROVE RowHasIssuer'
  <2>1. /\ issuer[c] \in {"mark", "refused", "unknown"}
        /\ issuer' = [issuer EXCEPT ![c] = "done"]
        /\ UNCHANGED answer
    BY <1>5 DEF IssueReturns
  <2>2. PICK v \in {"sent", "failed", "unknown"} : WriteRow(c, {"pending"}, v)
    BY <1>5 DEF IssueReturns, FinishPending
  <2>3. \/ UNCHANGED status
        \/ status[c] = "pending" /\ status' = [status EXCEPT ![c] = v]
    BY <1>0, <2>2, OneRow
  <2> QED BY <1>0, <2>1, <2>3 DEF HubTypeOK
<1>6. ASSUME NEW c \in Cmd, \/ SealFails(c) \/ EnqueueLocal(c) \/ QueueFull(c)
                            \/ NotLocal(c) \/ Request(c) \/ NoResponders(c)
                            \/ Retry(c) \/ GiveUp(c)
      PROVE  RowHasIssuer'
  <2>1. issuer[c] \in {"created", "route", "gone"} /\ answer[c] = "none"
    BY <1>6 DEF SealFails, EnqueueLocal, QueueFull, NotLocal, Request,
                NoResponders, Retry, GiveUp
  <2>2. UNCHANGED <<status, answer>>
    BY <1>6 DEF SealFails, EnqueueLocal, QueueFull, NotLocal, Request, IssuerTo,
                NoResponders, Retry, GiveUp
  <2>3. /\ issuer'[c] # "idle"
        /\ \A d \in Cmd \ {c} : issuer'[d] = issuer[d]
    BY <1>0, <1>6 DEF SealFails, EnqueueLocal, QueueFull, NotLocal, Request,
                      IssuerTo, NoResponders, Retry, GiveUp, HubTypeOK
  <2> QED BY <1>4, <2>1, <2>2, <2>3
<1>7. ASSUME NEW c \in Cmd, TakeReply(c) \/ RequestTimeout(c) PROVE RowHasIssuer'
  <2>1. /\ issuer[c] = "await" /\ UNCHANGED status
        /\ answer' = [answer EXCEPT ![c] = "none"]
    BY <1>7 DEF TakeReply, RequestTimeout
  <2>2. /\ issuer'[c] # "idle"
        /\ \A d \in Cmd \ {c} : issuer'[d] = issuer[d]
    BY <1>0, <1>7 DEF TakeReply, RequestTimeout, HubTypeOK
  <2> QED BY <1>0, <1>4, <2>1, <2>2 DEF HubTypeOK
<1>8. ASSUME NEW c \in Cmd, NEW k \in Conn, Callback(c, k) PROVE RowHasIssuer'
  <2>1. /\ UNCHANGED <<status, issuer>>
        /\ \A d \in Cmd : answer'[d] = answer[d] \/ issuer[d] = "await"
    BY <1>0, <1>8 DEF Callback, Reply, HubTypeOK
  <2> QED BY <2>1
<1>9. ASSUME NEW k \in Conn, \/ \E c \in Cmd : LoseRequest(c, k)
                             \/ Evict(k) \/ LoseEvict(k) \/ Send(k)
                             \/ SendFails(k) \/ Leave(k) \/ Detach(k)
                             \/ HandlerReturns(k)
      PROVE  RowHasIssuer'
  BY <1>1, <1>9 DEF LoseRequest, Evict, LoseEvict, Send, SendFails, Leave,
                    Detach, HandlerReturns, issueVars
<1>10. ASSUME NEW k \in Conn, SendFailed(k) \/ Abandon(k) PROVE RowHasIssuer'
  <2>1. UNCHANGED <<issuer, answer>>
    BY <1>10 DEF SendFailed, Abandon, issueVars
  <2>2. \E c \in Cmd, v \in {"unknown", "failed"} : Settle(c, v)
    <3>1. CASE SendFailed(k)
      BY <1>0, <3>1 DEF SendFailed, HubTypeOK
    <3>2. CASE Abandon(k)
      BY <1>0, <3>2, PopPlaces DEF Abandon
    <3> QED BY <1>10, <3>1, <3>2
  <2>3. PICK c \in Cmd, v \in {"unknown", "failed"} : Settle(c, v)
    BY <2>2
  <2>4. \/ UNCHANGED status
        \/ /\ status[c] \in {"pending", "sent"}
           /\ status' = [status EXCEPT ![c] = v]
    BY <1>0, <2>3, OneRow DEF Settle
  <2> QED BY <1>1, <1>2, <2>1, <2>4
<1>11. ASSUME NEW n \in Node, NodeCrash(n) PROVE RowHasIssuer'
  BY <1>0, <1>11 DEF NodeCrash, HubTypeOK
<1>12. ASSUME UNCHANGED hubVars PROVE RowHasIssuer'
  BY <1>1, <1>12 DEF hubVars, issueVars
<1>13. ASSUME NEW c \in Cmd, NEW v, v # "none", Complete(c, v),
              UNCHANGED issueVars
       PROVE  RowHasIssuer'
  <2>1. \/ UNCHANGED status
        \/ status[c] \in Open /\ status' = [status EXCEPT ![c] = v]
    BY <1>0, <1>13, OneCompletion
  <2> QED BY <1>1, <1>2, <1>13, <2>1 DEF Open, issueVars
<1>14. ASSUME NEW k \in Conn, Connect(k) \/ Receive(k) \/ RefuseSeal(k)
       PROVE  RowHasIssuer'
  BY <1>1, <1>14 DEF Connect, Attach, Receive, RefuseSeal, ReadWire, issueVars
<1>15. ASSUME NEW m \in streamed, StreamedResult(m) \/ LoseStreamed(m)
       PROVE  RowHasIssuer'
  <2>1. m[2] \in Cmd /\ m[3] \in Results /\ m[3] # "none"
    BY DEF TypeOK, Results
  <2> QED BY <1>1, <1>12, <1>13, <1>15, <2>1
          DEF StreamedResult, LoseStreamed, issueVars
<1>16. ASSUME NEW m \in reports, StoreReport(m) \/ LoseReport(m)
       PROVE  RowHasIssuer'
  <2>1. m[1] \in Cmd /\ m[2] # "none"
    BY DEF TypeOK, Results, Unknown
  <2> QED BY <1>12, <1>13, <1>16, <2>1 DEF StoreReport, LoseReport
<1>17. ASSUME NEW c \in Cmd, AgentStep(c) \/ TakeAck(c) \/ LoseAck(c)
       PROVE  RowHasIssuer'
  BY <1>12, <1>17 DEF AgentStep, CannotReserve, Answer, AgentRun, Report,
                      TakeAck, LoseAck
<1>18. CASE StreamDrops \/ Abort \/ AgentRestart
  BY <1>12, <1>18 DEF StreamDrops, Abort, AgentRestart
<1> QED BY <1>3, <1>5, <1>6, <1>7, <1>8, <1>9, <1>10, <1>11, <1>14, <1>15,
           <1>16, <1>17, <1>18
        DEF Next, HubStep, IssueStep, RouterStep, HandlerStep, StreamEnds,
            ChannelEnds

\* The first trace of a command's arrival appears as it leaves the wire, the
\* channel of an abandoned handler or the caller of issue.
LEMMA LandedStep ==
  ASSUME OnePlace, LandedIsPast, RowHasIssuer, RunAgrees, TypeOK, Next
  PROVE  LandedIsPast'
<1> SUFFICES ASSUME NEW d \in Cmd, Landed(d)', ~Landed(d)
             PROVE  Past(d)'
  BY PlacesStep DEF LandedIsPast, PlacesKept
<1>0. ReceiptsTypeOK /\ HubTypeOK
  BY DEF TypeOK
<1> DEFINE Traces(c) == <<run[c], started[c], record[c], durable[c]>>
           Told(c)   == \/ \E m \in streamed : m[2] = c
                        \/ \E m \in reports : m[1] = c
                        \/ c \in acks
<1>1. ASSUME status'[d] \in Results PROVE Past(d)'
  <2>1. status[d] \notin Results /\ ~Told(d)
    BY DEF Landed
  <2>2. PICK c \in Cmd, v \in Statuses :
               status' = [status EXCEPT ![c] = v] /\ RowMoves(c, v)
    BY <1>1, <2>1, AnyRow DEF RowStep
  <2>3. c = d /\ v \in Results
    BY <1>0, <1>1, <2>1, <2>2 DEF HubTypeOK
  <2> QED BY <2>1, <2>2, <2>3 DEF RowMoves, Results
<1>2. ASSUME NEW k \in Conn, Receive(k) \/ RefuseSeal(k) PROVE Past(d)'
  <2>1. ReadWire(k) /\ UNCHANGED <<issuer, answer, inflight, buf, status>>
    BY <1>2 DEF Receive, RefuseSeal, ReadWire, issueVars
  <2>2. /\ OnWire(Head(wire[k]))
        /\ OncePerQueue(wire) => ~In(Head(wire[k]), wire')
    BY <1>0, <2>1, ReadPlaces
  <2>3. d = Head(wire[k])
    <3>1. CASE Receive(k)
      BY <1>0, <3>1 DEF Receive, Accept, Landed, ReceiptsTypeOK, storeVars,
                        hostVars, ReadWire
    <3>2. CASE RefuseSeal(k)
      BY <3>2 DEF RefuseSeal, Landed, receiptsVars, storeVars, hostVars, ReadWire
    <3> QED BY <1>2, <3>1, <3>2
  <2>4. ~AtIssuer(d) /\ ~InRequest(d) /\ ~Buffered(d) /\ ~In(d, wire')
    BY <2>2, <2>3 DEF OnePlace
  <2> QED BY <2>1, <2>4 DEF Past, AtIssuer, InRequest, Buffered, OnWire
<1>3. CASE UNCHANGED <<receiptsVars, linkVars>>
  BY <1>1, <1>3 DEF Landed, receiptsVars, storeVars, hostVars, linkVars
<1>4. ASSUME NEW k \in Conn, Connect(k) PROVE Past(d)'
  BY <1>1, <1>4 DEF Connect, Landed, receiptsVars, storeVars, hostVars
<1>5. ASSUME NEW c \in Cmd, AgentStep(c) PROVE Past(d)'
  <2> USE <1>0 DEF ReceiptsTypeOK, Landed
  <2>1. CASE AgentRun(c)
    <3>1. UNCHANGED linkVars
      BY <2>1 DEF AgentRun
    <3>2. run[c] # "none" /\ \A e \in Cmd \ {c} : Traces(e)' = Traces(e)
      BY <2>1 DEF AgentRun, Reserve, Duplicate, Stop, Start, Perform,
                  FinishFails, FinishAgain, storeVars, hostVars
    <3>3. d # c
      BY <3>2
    <3> QED BY <1>1, <3>1, <3>2, <3>3 DEF linkVars
  <2>2. CASE CannotReserve(c)
    <3>1. run[c] # "none" /\ \A e \in Cmd \ {c} : Traces(e)' = Traces(e)
      BY <2>2 DEF CannotReserve, ReserveFails, Stop, hostVars
    <3>2. d # c
      BY <3>1
    <3> QED BY <1>1, <2>2, <3>1, <3>2 DEF CannotReserve
  <2>3. CASE Answer(c)
    <3>1. run[c] # "none" /\ \A e \in Cmd \ {c} : Traces(e)' = Traces(e)
      BY <2>3 DEF Answer, Finish, Stop, hostVars
    <3>2. d # c
      BY <3>1
    <3>3. \A m \in streamed' : m \in streamed \/ m[2] = c
      BY <2>3 DEF Answer
    <3> QED BY <1>1, <2>3, <3>1, <3>2, <3>3 DEF Answer
  <2>4. CASE Report(c)
    <3>1. record[c] # "none" /\ d # c
      BY <2>4 DEF Report, RunAgrees
    <3>2. UNCHANGED Traces(d)
      BY <2>4 DEF Report, receiptsVars, storeVars, hostVars
    <3>3. \A m \in reports' : m \in reports \/ m[1] = c
      BY <2>4 DEF Report
    <3> QED BY <1>1, <2>4, <3>1, <3>2, <3>3 DEF Report
  <2> QED BY <1>5, <2>1, <2>2, <2>3, <2>4 DEF AgentStep
<1>6. ASSUME NEW c \in Cmd, TakeAck(c) \/ LoseAck(c) PROVE Past(d)'
  <2> USE <1>0 DEF ReceiptsTypeOK, Landed
  <2>1. c \in acks /\ d # c
    BY <1>6 DEF TakeAck, LoseAck
  <2>2. Traces(d)' = Traces(d)
    BY <1>6, <2>1 DEF TakeAck, LoseAck, Acknowledge, receiptsVars, storeVars,
                      hostVars
  <2> QED BY <1>1, <1>6, <2>1, <2>2 DEF TakeAck, LoseAck
<1>7. ASSUME NEW m \in streamed, StreamedResult(m) \/ LoseStreamed(m)
      PROVE  Past(d)'
  BY <1>1, <1>7 DEF StreamedResult, LoseStreamed, Landed, receiptsVars,
                    storeVars, hostVars
<1>8. ASSUME NEW m \in reports, StoreReport(m) \/ LoseReport(m) PROVE Past(d)'
  BY <1>1, <1>8 DEF StoreReport, LoseReport, Landed, receiptsVars, storeVars,
                    hostVars
<1>9. CASE StreamDrops
  BY <1>1, <1>9 DEF StreamDrops, Landed, receiptsVars, storeVars, hostVars
<1>10. CASE Abort
  BY <1>0, <1>1, <1>10 DEF Abort, AbortSession, Landed, storeVars, hostVars,
                           ReceiptsTypeOK
<1>11. CASE AgentRestart
  BY <1>0, <1>1, <1>11 DEF AgentRestart, Restart, Landed, hostVars,
                           ReceiptsTypeOK
<1> QED BY <1>2, <1>3, <1>4, <1>5, <1>6, <1>7, <1>8, <1>9, <1>10, <1>11 DEF Next

\* The run, the host and the disk move together.
LEMMA RunsStep ==
  ASSUME OnePlace, LandedIsPast, RunAgrees, TypeOK, Next
  PROVE  RunAgrees'
<1>0. ReceiptsTypeOK
  BY DEF TypeOK
<1> USE <1>0 DEF ReceiptsTypeOK, RunAgrees, Results
<1>1. ASSUME UNCHANGED <<receiptsVars, via>> PROVE RunAgrees'
  BY <1>1 DEF receiptsVars, storeVars, hostVars
<1>2. CASE HubStep /\ UNCHANGED <<receiptsVars, linkVars>>
  BY <1>1, <1>2 DEF linkVars
<1>3. ASSUME NEW k \in Conn, Connect(k) \/ RefuseSeal(k) PROVE RunAgrees'
  BY <1>1, <1>3 DEF Connect, RefuseSeal
<1>4. ASSUME NEW k \in Conn, Receive(k) PROVE RunAgrees'
  <2>0. OnWire(Head(wire[k])) /\ Head(wire[k]) \in Cmd
    BY <1>4, ReadPlaces DEF Receive, TypeOK
  <2> PICK c \in Cmd : c = Head(wire[k])
    BY <2>0
  <2>1. ~Landed(c)
    BY <2>0 DEF LandedIsPast, Past
  <2>2. /\ run' = [run EXCEPT ![c] = "reserving"]
        /\ attached' = attached \union {c}
        /\ via' = [via EXCEPT ![c] = k]
        /\ UNCHANGED <<record, durable, ready, started, outcome>>
    BY <1>4 DEF Receive, Accept, storeVars, hostVars
  <2>3. k # NoConn /\ via \in [Cmd -> Conn \union {NoConn}]
    BY DEF TypeOK
  <2> QED BY <2>1, <2>2, <2>3 DEF Landed
<1>5. ASSUME NEW c \in Cmd, AgentRun(c) PROVE RunAgrees'
  <2>0. UNCHANGED via
    BY <1>5 DEF AgentRun, linkVars
  <2>1. CASE Reserve(c)
    BY <2>0, <2>1 DEF Reserve, Stop, hostVars
  <2>2. CASE Duplicate(c)
    BY <2>0, <2>2 DEF Duplicate, Stop, storeVars, hostVars
  <2>3. CASE Start(c)
    BY <2>0, <2>3 DEF Start, storeVars
  <2>4. ASSUME NEW r \in Results, Perform(c, r) PROVE RunAgrees'
    BY <2>0, <2>4 DEF Perform, storeVars
  <2>5. CASE FinishFails(c)
    BY <2>0, <2>5 DEF FinishFails, Stop, hostVars
  <2>6. CASE FinishAgain(c)
    BY <2>0, <2>6 DEF FinishAgain, storeVars, hostVars
  <2> QED BY <1>5, <2>1, <2>2, <2>3, <2>4, <2>5, <2>6 DEF AgentRun
<1>6. ASSUME NEW c \in Cmd, CannotReserve(c) PROVE RunAgrees'
  BY <1>6 DEF CannotReserve, ReserveFails, Stop, hostVars
<1>7. ASSUME NEW c \in Cmd, Answer(c) PROVE RunAgrees'
  BY <1>7 DEF Answer, Finish, Stop, hostVars
<1>8. ASSUME NEW c \in Cmd, TakeAck(c) PROVE RunAgrees'
  BY <1>8 DEF TakeAck, Acknowledge, hostVars
<1>9. ASSUME NEW c \in Cmd, Report(c) \/ LoseAck(c) PROVE RunAgrees'
  BY <1>1, <1>9 DEF Report, LoseAck
<1>10. ASSUME NEW m \in streamed, StreamedResult(m) \/ LoseStreamed(m)
       PROVE  RunAgrees'
  BY <1>1, <1>10 DEF StreamedResult, LoseStreamed
<1>11. ASSUME NEW m \in reports, StoreReport(m) \/ LoseReport(m) PROVE RunAgrees'
  BY <1>1, <1>11 DEF StoreReport, LoseReport
<1>12. CASE StreamDrops
  BY <1>1, <1>12 DEF StreamDrops
<1>13. CASE Abort
  BY <1>13 DEF Abort, AbortSession, storeVars, hostVars
<1>14. CASE AgentRestart
  BY <1>14 DEF AgentRestart, Restart, hostVars
<1> QED BY <1>2, <1>3, <1>4, <1>5, <1>6, <1>7, <1>8, <1>9, <1>10, <1>11, <1>12,
           <1>13, <1>14 DEF Next, AgentStep

\* A command that has landed begins to run only if it already is on its way:
\* the run of one that has not is "none" for ever.
LEMMA TruthKept ==
  ASSUME LandedIsPast, RunAgrees, TypeOK, Next,
         NEW c \in Cmd, Landed(c), NEW r \in Results, Truthful(c, r)
  PROVE  Truthful(c, r)'
<1>0. ReceiptsTypeOK
  BY DEF TypeOK
<1>1. CASE r = outcome[c]
  <2>1. outcome'[c] = outcome[c]
    <3>1. HostStep
      BY AnyHost
    <3>2. ASSUME NEW d \in Cmd, NEW s \in Results, Ends(d, s) PROVE d # c
      BY <1>1, <3>2 DEF Ends, RunAgrees, Results
    <3> QED BY <1>0, <3>1, <3>2 DEF HostStep, Begins, Ends, hostVars, ReceiptsTypeOK
  <2> QED BY <1>1, <2>1 DEF Truthful
<1>2. CASE r = "failed" /\ started[c] = 0 /\ run[c] = "none"
  <2>1. started'[c] = 0
    <3>1. HostStep
      BY AnyHost
    <3>2. ASSUME NEW d \in Cmd, Begins(d) PROVE d # c
      BY <1>2, <3>2 DEF Begins
    <3> QED BY <1>0, <1>2, <3>1, <3>2
            DEF HostStep, Begins, Ends, hostVars, ReceiptsTypeOK
  <2>2. run'[c] = "none"
    <3> USE <1>0, <1>2 DEF ReceiptsTypeOK
    <3>1. ASSUME NEW k \in Conn, Receive(k) PROVE run'[c] = "none"
      <4>1. OnWire(Head(wire[k])) /\ Head(wire[k]) \in Cmd
        BY <3>1, ReadPlaces DEF Receive, TypeOK
      <4>2. Head(wire[k]) # c
        BY <4>1 DEF LandedIsPast, Past
      <4> QED BY <3>1, <4>2 DEF Receive, Accept
    <3>2. ASSUME NEW d \in Cmd, AgentRun(d) \/ CannotReserve(d) \/ Answer(d)
          PROVE  run'[c] = "none"
      <4>1. d # c
        BY <3>2 DEF AgentRun, CannotReserve, Answer, Reserve, Duplicate, Start,
                    Perform, FinishFails, FinishAgain, ReserveFails, Finish
      <4>2. run'[c] = run[c]
        BY <3>2, <4>1 DEF AgentRun, CannotReserve, Answer, Reserve, Duplicate,
                    Start, Perform, FinishFails, FinishAgain, ReserveFails,
                    Finish, Stop
      <4> QED BY <4>2
    <3>3. CASE UNCHANGED run
      BY <3>3
    <3>4. ASSUME NEW k \in Conn, Connect(k) \/ RefuseSeal(k) PROVE UNCHANGED run
      BY <3>4 DEF Connect, RefuseSeal, receiptsVars
    <3>5. ASSUME NEW d \in Cmd, Report(d) \/ TakeAck(d) \/ LoseAck(d)
          PROVE  UNCHANGED run
      BY <3>5 DEF Report, TakeAck, LoseAck, Acknowledge, receiptsVars
    <3>6. ASSUME NEW m \in streamed, StreamedResult(m) \/ LoseStreamed(m)
          PROVE  UNCHANGED run
      BY <3>6 DEF StreamedResult, LoseStreamed, receiptsVars
    <3>7. ASSUME NEW m \in reports, StoreReport(m) \/ LoseReport(m)
          PROVE  UNCHANGED run
      BY <3>7 DEF StoreReport, LoseReport, receiptsVars
    <3>8. CASE StreamDrops \/ (HubStep /\ UNCHANGED <<receiptsVars, linkVars>>)
      BY <3>8 DEF StreamDrops, receiptsVars
    <3>9. CASE Abort \/ AgentRestart
      BY <3>9 DEF Abort, AbortSession, AgentRestart, Restart
    <3> QED BY <3>1, <3>2, <3>3, <3>4, <3>5, <3>6, <3>7, <3>8, <3>9
            DEF Next, AgentStep
  <2> QED BY <1>2, <2>1, <2>2 DEF Truthful
<1> QED BY <1>1, <1>2 DEF Truthful

\* What has landed nowhere can only be said to have failed.
LEMMA FailureOfNothing ==
  ASSUME RunAgrees, TypeOK, NEW c \in Cmd, ~Landed(c)
  PROVE  Truthful(c, "failed") /\ started[c] = 0 /\ outcome[c] = "none"
BY DEF Truthful, Landed, RunAgrees

\* The host's own result does not change.
LEMMA OutcomeKept ==
  ASSUME RunAgrees, ReceiptsTypeOK, Next, NEW c \in Cmd, outcome[c] \in Results
  PROVE  outcome'[c] = outcome[c]
<1>1. HostStep
  BY AnyHost
<1>2. ASSUME NEW d \in Cmd, NEW s \in Results, Ends(d, s) PROVE d # c
  BY <1>2 DEF Ends, RunAgrees, Results
<1> QED BY <1>1, <1>2 DEF HostStep, Begins, Ends, hostVars, ReceiptsTypeOK

\* A row is never written in the same step as the agent's own state.
LEMMA RowsApart ==
  ASSUME Next
  PROVE  UNCHANGED status \/ UNCHANGED receiptsVars
<1>1. ASSUME NEW k \in Conn, Connect(k) \/ Receive(k) \/ RefuseSeal(k)
      PROVE  UNCHANGED status
  BY <1>1 DEF Connect, Attach, Receive, RefuseSeal, ReadWire
<1>2. ASSUME NEW c \in Cmd, AgentStep(c) \/ TakeAck(c) \/ LoseAck(c)
      PROVE  UNCHANGED status
  BY <1>2 DEF AgentStep, CannotReserve, Answer, AgentRun, Report, TakeAck,
              LoseAck, hubVars
<1>3. ASSUME NEW m \in streamed, StreamedResult(m) \/ LoseStreamed(m)
      PROVE  UNCHANGED receiptsVars
  BY <1>3 DEF StreamedResult, LoseStreamed
<1>4. ASSUME NEW m \in reports, StoreReport(m) \/ LoseReport(m)
      PROVE  UNCHANGED receiptsVars
  BY <1>4 DEF StoreReport, LoseReport
<1>5. CASE StreamDrops \/ Abort \/ AgentRestart
  BY <1>5 DEF StreamDrops, Abort, AgentRestart, hubVars
<1> QED BY <1>1, <1>2, <1>3, <1>4, <1>5 DEF Next

\* Every result written into a row or on its way to one stays true.
LEMMA MessagesStep ==
  ASSUME IInv, Next
  PROVE  MessagesTrue'
<1> USE DEF IInv
<1>0. ReceiptsTypeOK /\ HubTypeOK
  BY DEF TypeOK
<1>1. ASSUME UNCHANGED receiptsVars, NEW c \in Cmd, NEW r, Truthful(c, r)
      PROVE  Truthful(c, r)'
  BY <1>1 DEF Truthful, receiptsVars, hostVars
<1>2. ASSUME NEW c \in Cmd, NEW r \in Results, status'[c] = r
      PROVE  Truthful(c, r)'
  <2>1. CASE status[c] = r
    BY <2>1, TruthKept DEF MessagesTrue, Landed
  <2>2. CASE status[c] # r
    <3>1. PICK d \in Cmd, v \in Statuses :
                 status' = [status EXCEPT ![d] = v] /\ RowMoves(d, v)
      BY <1>2, <2>2, AnyRow DEF RowStep
    <3>2. d = c /\ v = r
      BY <1>0, <1>2, <2>2, <3>1 DEF HubTypeOK
    <3>3. Truthful(c, r)
      BY <3>1, <3>2, FailureOfNothing
         DEF RowMoves, MessagesTrue, Truthful, Results, Unknown
    <3>4. UNCHANGED receiptsVars
      BY <1>2, <2>2, RowsApart
    <3> QED BY <1>1, <3>3, <3>4
  <2> QED BY <2>1, <2>2
<1>3. ASSUME NEW m \in streamed', m \in Conn \X Cmd \X Results
      PROVE  Truthful(m[2], m[3])'
  <2>0. m[2] \in Cmd /\ m[3] \in Results
    BY <1>3
  <2>1. CASE m \in streamed
    BY <2>0, <2>1, TruthKept DEF MessagesTrue, Landed
  <2>2. ASSUME NEW k \in Conn, RefuseSeal(k) PROVE Truthful(m[2], m[3])'
    <3>1. OnWire(Head(wire[k])) /\ Head(wire[k]) \in Cmd
      BY <1>0, <2>2, ReadPlaces DEF RefuseSeal
    <3>2. CASE m = <<k, Head(wire[k]), "failed">>
      <4>1. m[2] = Head(wire[k]) /\ m[3] = "failed"
        BY <3>2
      <4>2. ~Landed(m[2])
        BY <3>1, <4>1 DEF LandedIsPast, Past
      <4> QED BY <1>1, <2>0, <2>2, <4>1, <4>2, FailureOfNothing DEF RefuseSeal
    <3> QED BY <2>1, <2>2, <3>2 DEF RefuseSeal
  <2>3. ASSUME NEW c \in Cmd, Answer(c) PROVE Truthful(m[2], m[3])'
    <3>1. CASE m = <<via[c], c, outcome[c]>>
      BY <2>3, <3>1 DEF Answer, Finish, hostVars, Truthful
    <3> QED BY <2>1, <2>3, <3>1 DEF Answer
  <2>4. ASSUME streamed' \subseteq streamed PROVE Truthful(m[2], m[3])'
    BY <2>1, <2>4
  <2>5. ASSUME NEW k \in Conn, Connect(k) \/ Receive(k)
        PROVE  streamed' \subseteq streamed
    BY <2>5 DEF Connect, Receive
  <2>6. ASSUME NEW c \in Cmd, \/ CannotReserve(c) \/ AgentRun(c) \/ Report(c)
                              \/ TakeAck(c) \/ LoseAck(c)
        PROVE  streamed' \subseteq streamed
    BY <2>6 DEF CannotReserve, AgentRun, Report, TakeAck, LoseAck, linkVars
  <2>7. ASSUME NEW w \in streamed, StreamedResult(w) \/ LoseStreamed(w)
        PROVE  streamed' \subseteq streamed
    BY <2>7 DEF StreamedResult, LoseStreamed
  <2>8. ASSUME NEW w \in reports, StoreReport(w) \/ LoseReport(w)
        PROVE  streamed' \subseteq streamed
    BY <2>8 DEF StoreReport, LoseReport
  <2>9. CASE \/ StreamDrops \/ Abort \/ AgentRestart
             \/ HubStep /\ UNCHANGED <<receiptsVars, linkVars>>
    BY <2>4, <2>9 DEF StreamDrops, Abort, AgentRestart, linkVars
  <2> QED BY <2>2, <2>3, <2>4, <2>5, <2>6, <2>7, <2>8, <2>9 DEF Next, AgentStep
<1>4. ASSUME NEW m \in reports', m \in Cmd \X (Results \union {Unknown})
      PROVE  m[2] \in {Unknown, outcome'[m[1]]}
  <2>0. m[1] \in Cmd /\ m[2] \in Results \union {Unknown}
    BY <1>4
  <2>1. CASE m \in reports
    BY <1>0, <2>0, <2>1, OutcomeKept DEF MessagesTrue
  <2>2. ASSUME NEW c \in Cmd, Report(c) PROVE m[2] \in {Unknown, outcome'[m[1]]}
    <3>1. CASE m = <<c, Reported(c)>>
      <4>1. m[1] = c /\ m[2] = Reported(c)
        BY <3>1
      <4>2. Reported(c) \in {Unknown, outcome[c]}
        BY DEF Reported, RunAgrees, Results
      <4> QED BY <2>2, <4>1, <4>2 DEF Report, receiptsVars, hostVars
    <3> QED BY <2>1, <2>2, <3>1 DEF Report
  <2>3. ASSUME reports' \subseteq reports PROVE m[2] \in {Unknown, outcome'[m[1]]}
    BY <2>1, <2>3
  <2>4. ASSUME NEW k \in Conn, Connect(k) \/ Receive(k) \/ RefuseSeal(k)
        PROVE  reports' \subseteq reports
    BY <2>4 DEF Connect, Receive, RefuseSeal
  <2>5. ASSUME NEW c \in Cmd, \/ CannotReserve(c) \/ AgentRun(c) \/ Answer(c)
                              \/ TakeAck(c) \/ LoseAck(c)
        PROVE  reports' \subseteq reports
    BY <2>5 DEF CannotReserve, AgentRun, Answer, TakeAck, LoseAck, linkVars
  <2>6. ASSUME NEW w \in streamed, StreamedResult(w) \/ LoseStreamed(w)
        PROVE  reports' \subseteq reports
    BY <2>6 DEF StreamedResult, LoseStreamed
  <2>7. ASSUME NEW w \in reports, StoreReport(w) \/ LoseReport(w)
        PROVE  reports' \subseteq reports
    BY <2>7 DEF StoreReport, LoseReport
  <2>8. CASE \/ StreamDrops \/ Abort \/ AgentRestart
             \/ HubStep /\ UNCHANGED <<receiptsVars, linkVars>>
    BY <2>3, <2>8 DEF StreamDrops, Abort, AgentRestart, linkVars
  <2> QED BY <2>2, <2>3, <2>4, <2>5, <2>6, <2>7, <2>8 DEF Next, AgentStep
<1>5. TypeOK'
  BY TypeLink
<1> QED BY <1>2, <1>3, <1>4, <1>5 DEF MessagesTrue, TypeOK

\* A settled row stays settled.
LEMMA SettledKept ==
  ASSUME IInv, Next, NEW c \in Cmd, Settled(c)
  PROVE  Settled(c)'
<1>1. RowStep /\ HubTypeOK
  BY AnyRow DEF IInv, TypeOK
<1>2. ASSUME NEW d \in Cmd, NEW v \in Statuses,
             status' = [status EXCEPT ![d] = v], RowMoves(d, v)
      PROVE  Settled(c)'
  BY <1>1, <1>2 DEF Settled, RowMoves, HubTypeOK, Results, Unknown
<1> QED BY <1>1, <1>2 DEF RowStep, Settled

\* The record of a command that began outlives every loss until its row is
\* settled, and acknowledgements come only from settled rows.
LEMMA ForgottenStep ==
  ASSUME IInv, Next
  PROVE  ForgottenIsSettled'
<1> USE DEF IInv
<1>0. ReceiptsTypeOK /\ HubTypeOK
  BY DEF TypeOK
<1> DEFINE Safe(c) == /\ c \in acks => Settled(c)
                      /\ record[c] = "none" /\ durable[c] # "none" => Settled(c)
                      /\ started[c] > 0 => durable[c] # "none" \/ Settled(c)
<1> SUFFICES ASSUME NEW c \in Cmd, ~Settled(c)' PROVE Safe(c)'
  BY DEF ForgottenIsSettled
<1>1. ~Settled(c) /\ Safe(c) /\ c \notin acks
  BY SettledKept DEF ForgottenIsSettled
<1>2. ASSUME UNCHANGED receiptsVars, c \notin acks' PROVE Safe(c)'
  BY <1>1, <1>2 DEF receiptsVars, storeVars, hostVars
<1>3. CASE HubStep /\ UNCHANGED <<receiptsVars, linkVars>>
  BY <1>1, <1>2, <1>3 DEF linkVars
<1>4. ASSUME NEW k \in Conn, Connect(k) \/ RefuseSeal(k) PROVE Safe(c)'
  BY <1>1, <1>2, <1>4 DEF Connect, RefuseSeal
<1>5. ASSUME NEW k \in Conn, Receive(k) PROVE Safe(c)'
  BY <1>1, <1>5 DEF Receive, Accept, storeVars, hostVars
<1>6. ASSUME NEW d \in Cmd, AgentRun(d) PROVE Safe(c)'
  <2> USE <1>0, <1>1, <1>6 DEF ReceiptsTypeOK
  <2>0. c \notin acks'
    BY DEF AgentRun, linkVars
  <2>1. CASE Start(d)
    BY <2>0, <2>1 DEF Start, storeVars, RunAgrees
  <2>2. CASE Reserve(d)
    BY <2>0, <2>2 DEF Reserve, hostVars
  <2>3. CASE FinishFails(d)
    BY <2>0, <2>3 DEF FinishFails, hostVars, RunAgrees
  <2>4. CASE Duplicate(d) \/ FinishAgain(d)
    BY <2>0, <2>4 DEF Duplicate, FinishAgain, storeVars, hostVars
  <2>5. ASSUME NEW r \in Results, Perform(d, r) PROVE Safe(c)'
    BY <2>0, <2>5 DEF Perform, storeVars
  <2> QED BY <2>1, <2>2, <2>3, <2>4, <2>5 DEF AgentRun
<1>7. ASSUME NEW d \in Cmd, CannotReserve(d) PROVE Safe(c)'
  BY <1>0, <1>1, <1>7 DEF CannotReserve, ReserveFails, hostVars, ReceiptsTypeOK
<1>8. ASSUME NEW d \in Cmd, Answer(d) PROVE Safe(c)'
  BY <1>0, <1>1, <1>8 DEF Answer, Finish, hostVars, ReceiptsTypeOK, RunAgrees
<1>9. ASSUME NEW d \in Cmd, TakeAck(d) PROVE Safe(c)'
  <2>1. d # c
    BY <1>1, <1>9 DEF TakeAck
  <2> QED BY <1>0, <1>1, <1>9, <2>1
          DEF TakeAck, Acknowledge, hostVars, ReceiptsTypeOK
<1>10. ASSUME NEW d \in Cmd, Report(d) \/ LoseAck(d) PROVE Safe(c)'
  BY <1>1, <1>2, <1>10 DEF Report, LoseAck
<1>11. ASSUME NEW m \in streamed, StreamedResult(m) \/ LoseStreamed(m)
       PROVE  Safe(c)'
  BY <1>1, <1>2, <1>11 DEF StreamedResult, LoseStreamed
<1>12. ASSUME NEW m \in reports, LoseReport(m) PROVE Safe(c)'
  BY <1>1, <1>2, <1>12 DEF LoseReport
<1>13. ASSUME NEW m \in reports, StoreReport(m) PROVE Safe(c)'
  <2>1. m[1] \in Cmd /\ m[2] \in Results \union {Unknown}
    BY DEF TypeOK
  <2>2. CASE m[1] = c
    <3>1. Landed(c)
      BY <2>1, <2>2 DEF Landed
    <3>2. status[c] # "none"
      BY <3>1 DEF LandedIsPast, Past, AtIssuer, RowHasIssuer
    <3>3. status[c] \in {"pending", "sent", "unknown"}
      BY <1>0, <1>1, <3>2 DEF HubTypeOK, Statuses, Settled
    <3>4. status'[c] = m[2]
      BY <1>0, <1>13, <2>2, <3>3 DEF StoreReport, Complete, HubTypeOK
    <3> QED BY <2>1, <3>4 DEF Settled
  <2>3. CASE m[1] # c
    BY <1>1, <1>2, <1>13, <2>3 DEF StoreReport
  <2> QED BY <2>2, <2>3
<1>14. CASE StreamDrops
  BY <1>1, <1>2, <1>14 DEF StreamDrops
<1>15. CASE Abort
  BY <1>1, <1>15 DEF Abort, AbortSession, storeVars, hostVars
<1>16. CASE AgentRestart
  <2>1. c \notin acks' /\ durable' = record' /\ UNCHANGED started
    BY <1>16 DEF AgentRestart, Restart, hostVars
  <2>2. record'[c] \in {record[c], durable[c]}
    BY <1>16 DEF AgentRestart, Restart
  <2>3. record'[c] = "none" => record[c] = "none" \/ durable[c] = "none"
    BY <2>2
  <2> QED BY <1>0, <1>1, <2>1, <2>3 DEF ReceiptsTypeOK, RunAgrees
<1> QED BY <1>3, <1>4, <1>5, <1>6, <1>7, <1>8, <1>9, <1>10, <1>11, <1>12,
           <1>13, <1>14, <1>15, <1>16 DEF Next, AgentStep
-----------------------------------------------------------------------------
(* The theorems.                                                            *)

LEMMA InitInv == Init => IInv
<1> SUFFICES ASSUME Init PROVE IInv
  OBVIOUS
<1> USE DEF Init, HubInit, ReceiptsInit
<1>1. TypeOK
  <2>1. HubTypeOK
    <3>1. buf \in [Conn -> Seq(Cmd)] /\ wire \in [Conn -> Seq(Cmd)]
      OBVIOUS
    <3> QED BY <3>1 DEF HubTypeOK, Statuses
  <2> QED BY <2>1 DEF TypeOK, ReceiptsTypeOK, Records
<1>2. \A c \in Cmd : ~InRequest(c) /\ ~Buffered(c) /\ ~OnWire(c)
  <2>1. \A k \in Conn : 1..Len(buf[k]) = {} /\ 1..Len(wire[k]) = {}
    <3>1. \A k \in Conn : Len(buf[k]) = 0 /\ Len(wire[k]) = 0
      OBVIOUS
    <3> QED BY <3>1
  <2>2. inflight = {}
    OBVIOUS
  <2> HIDE DEF Init, HubInit, ReceiptsInit
  <2> QED BY <2>1, <2>2 DEF InRequest, Buffered, OnWire, In
<1>3. OnePlace
  BY <1>2 DEF OnePlace, OncePerQueue
<1>4. LandedIsPast
  BY DEF LandedIsPast, Landed, Results
<1>5. RowHasIssuer /\ RunAgrees
  BY DEF RowHasIssuer, RunAgrees
<1>6. MessagesTrue /\ ForgottenIsSettled
  BY DEF MessagesTrue, ForgottenIsSettled, Results
<1> QED BY <1>1, <1>3, <1>4, <1>5, <1>6 DEF IInv

LEMMA NextInv == IInv /\ [Next]_vars => IInv'
<1> SUFFICES ASSUME IInv, [Next]_vars PROVE IInv'
  OBVIOUS
<1>1. CASE Next
  <2>1. TypeOK' /\ RowHasIssuer' /\ RunAgrees'
    BY <1>1, TypeLink, IssuersStep, RunsStep DEF IInv
  <2>2. OnePlace' /\ LandedIsPast'
    BY <1>1, PlacesStep, LandedStep DEF IInv, PlacesKept
  <2>3. MessagesTrue' /\ ForgottenIsSettled'
    BY <1>1, MessagesStep, ForgottenStep
  <2> QED BY <2>1, <2>2, <2>3 DEF IInv
<1>2. CASE UNCHANGED vars
  <2> USE <1>2 DEF vars, hubVars, issueVars, channelVars, receiptsVars,
                   storeVars, hostVars, linkVars, IInv
  <2>1. TypeOK'
    BY DEF TypeOK, HubTypeOK, ReceiptsTypeOK
  <2>2. OnePlace'
    BY DEF OnePlace, AtIssuer, InRequest, Buffered, OnWire
  <2>3. LandedIsPast'
    BY DEF LandedIsPast, Landed, Past, AtIssuer, InRequest, Buffered, OnWire
  <2>4. RowHasIssuer' /\ RunAgrees'
    BY DEF RowHasIssuer, RunAgrees
  <2>5. MessagesTrue' /\ ForgottenIsSettled'
    BY DEF MessagesTrue, Truthful, ForgottenIsSettled, Settled
  <2> QED BY <2>1, <2>2, <2>3, <2>4, <2>5
<1> QED BY <1>1, <1>2

\* The inductive invariant holds throughout.
THEOREM Invariance == Spec => []IInv
BY InitInv, NextInv, PTL DEF Spec

\* Every variable keeps its type.
THEOREM TypeCorrect == Spec => []TypeOK
BY Invariance, PTL DEF IInv

\* router.go promises never to send again what may have arrived: no command
\* begins twice on the host, whatever is retried, replaced or restarted.
THEOREM RunsAtMostOnce == Spec => []AtMostOnce
<1>1. ASSUME IInv, NEW c \in Cmd PROVE started[c] <= 1
  <2>1. started[c] \in {0, 1}
    BY <1>1 DEF IInv, RunAgrees
  <2> QED BY <2>1
<1>2. IInv => AtMostOnce
  BY <1>1 DEF AtMostOnce
<1> QED BY <1>2, Invariance, PTL

\* Every closed row of the commands table is true of the host: settle, Abandon
\* and finish write "failed" only of what never ran, Complete only what did.
THEOREM RowsAreTrue == Spec => []RowIsTrue
<1>1. IInv => RowIsTrue
  BY DEF IInv, RowIsTrue, MessagesTrue, Truthful, RunAgrees
<1> QED BY <1>1, Invariance, PTL

\* Receipts.open finds a record of all that began and is not settled.
THEOREM NothingIsForgotten == Spec => []NothingForgotten
<1>1. IInv => NothingForgotten
  BY DEF IInv, ForgottenIsSettled, NothingForgotten
<1> QED BY <1>1, Invariance, PTL

-----------------------------------------------------------------------------
(* No node sends on a closed channel.                                       *)

\* An open channel belongs to a handler that has not detached it; a channel
\* nobody has attached yet is open, too.
ChannelInv == OpenChannel /\ \A k \in Conn : handler[k] = "new" => ~closed[k]

LEMMA ChannelStep ==
  ASSUME TypeOK, ChannelInv, Next
  PROVE  ChannelInv'
<1>0. HubTypeOK
  BY DEF TypeOK
<1> DEFINE OpenAt(n) ==
             /\ ~closed[conn[n]]
             /\ Home[conn[n]] = n
             /\ handler[conn[n]] \in {"serve", "sendfailed", "leaving"}
<1>00. \A j \in Conn : Home[j] \in Node /\ j # NoConn
  BY HubAssumption
<1>01. \A j \in Conn : conn[Home[j]] # NoConn =>
          OpenAt(Home[j]) /\ handler[conn[Home[j]]] # "new"
  BY <1>00 DEF ChannelInv, OpenChannel
<1> USE <1>0 DEF HubTypeOK, ChannelInv, OpenChannel
<1>1. ASSUME UNCHANGED <<conn, closed, handler>> PROVE ChannelInv'
  BY <1>1
<1>2. ASSUME UNCHANGED <<conn, closed>>, NEW k \in Conn,
             NEW pc \in {"serve", "sendfailed", "leaving"},
             handler[k] \in {"serve", "sendfailed", "leaving"},
             handler' = [handler EXCEPT ![k] = pc]
      PROVE  ChannelInv'
  BY <1>2
<1>3. ASSUME NEW c \in Cmd, CreateCommand(c) \/ IssueStep(c) PROVE ChannelInv'
  BY <1>1, <1>3 DEF CreateCommand, IssueStep, SealFails, EnqueueLocal, QueueFull,
                    NotLocal, Request, NoResponders, TakeReply, RequestTimeout,
                    Retry, GiveUp, IssueReturns, IssuerTo, channelVars
<1>4. ASSUME NEW k \in Conn, NEW c \in Cmd, Callback(c, k) \/ LoseRequest(c, k)
      PROVE  ChannelInv'
  BY <1>1, <1>4 DEF Callback, LoseRequest, channelVars
<1>5. ASSUME NEW k \in Conn, LoseEvict(k) \/ Send(k) \/ Abandon(k)
      PROVE  ChannelInv'
  BY <1>1, <1>5 DEF LoseEvict, Send, Abandon
<1>6. ASSUME NEW k \in Conn, Evict(k) PROVE ChannelInv'
  <2>1. CASE conn[Home[k]] = k
    <3>1. /\ conn' = [conn EXCEPT ![Home[k]] = NoConn]
          /\ closed' = [closed EXCEPT ![k] = TRUE]
          /\ UNCHANGED handler
      BY <1>6, <2>1 DEF Evict
    <3>2. ASSUME NEW n \in Node, conn'[n] # NoConn PROVE OpenAt(n)'
      <4>1. conn'[n] = conn[n] /\ n # Home[k]
        BY <3>1, <3>2
      <4>2. conn[n] # k /\ conn[n] \in Conn
        BY <3>2, <4>1
      <4> QED BY <3>1, <4>1, <4>2
    <3>3. ASSUME NEW j \in Conn, handler'[j] = "new" PROVE ~closed'[j]
      <4>1. handler[k] # "new" /\ handler[j] = "new"
        BY <1>00, <1>01, <2>1, <3>1, <3>3
      <4> QED BY <3>1, <3>3, <4>1
    <3> QED BY <3>2, <3>3
  <2>2. CASE conn[Home[k]] # k
    BY <1>1, <1>6, <2>2 DEF Evict
  <2> QED BY <2>1, <2>2
<1>7. ASSUME NEW k \in Conn, SendFails(k) \/ SendFailed(k) \/ Leave(k)
      PROVE  ChannelInv'
  BY <1>2, <1>7 DEF SendFails, SendFailed, Leave
<1>8. ASSUME NEW k \in Conn, Detach(k) PROVE ChannelInv'
  <2>1. /\ handler[k] = "leaving" /\ UNCHANGED closed
        /\ handler' = [handler EXCEPT ![k] = "abandon"]
        /\ conn' = IF conn[Home[k]] = k THEN [conn EXCEPT ![Home[k]] = NoConn]
                   ELSE conn
    BY <1>8 DEF Detach
  <2>2. ASSUME NEW n \in Node, conn'[n] # NoConn PROVE OpenAt(n)'
    <3>1. conn'[n] = conn[n] /\ conn[n] # k /\ conn[n] \in Conn
      BY <2>1, <2>2
    <3> QED BY <2>1, <2>2, <3>1
  <2>3. ASSUME NEW j \in Conn, handler'[j] = "new" PROVE ~closed'[j]
    BY <2>1, <2>3
  <2> QED BY <2>2, <2>3
<1>9. ASSUME NEW k \in Conn, HandlerReturns(k) PROVE ChannelInv'
  BY <1>9 DEF HandlerReturns
<1>10. ASSUME NEW n \in Node, NodeCrash(n) PROVE ChannelInv'
  BY <1>10 DEF NodeCrash
<1>11. ASSUME NEW k \in Conn, Connect(k) PROVE ChannelInv'
  <2>1. /\ handler[k] = "new"
        /\ handler' = [handler EXCEPT ![k] = "serve"]
        /\ conn' = [conn EXCEPT ![Home[k]] = k]
        /\ closed' = [j \in Conn |-> closed[j] \/ j = conn[Home[k]]]
    BY <1>11 DEF Connect, Attach
  <2>2. k # conn[Home[k]] /\ Home[k] \in Node /\ k # NoConn
    BY <1>00, <1>01, <2>1
  <2>3. ASSUME NEW n \in Node, conn'[n] # NoConn PROVE OpenAt(n)'
    <3>1. CASE n = Home[k]
      BY <2>1, <2>2, <3>1
    <3>2. CASE n # Home[k]
      <4>1. conn'[n] = conn[n] /\ conn[n] \in Conn /\ OpenAt(n)
        BY <2>1, <2>3, <3>2
      <4>2. conn[n] # k /\ conn[n] # conn[Home[k]]
        BY <2>2, <3>2, <4>1
      <4> QED BY <2>1, <4>1, <4>2
    <3> QED BY <3>1, <3>2
  <2>4. ASSUME NEW j \in Conn, handler'[j] = "new" PROVE ~closed'[j]
    <3>1. j # k /\ handler[j] = "new"
      BY <2>1, <2>4
    <3>2. ASSUME j = conn[Home[k]] PROVE FALSE
      <4>1. conn[Home[k]] # NoConn
        BY <1>00, <3>2
      <4>2. handler[conn[Home[k]]] # "new"
        BY <1>01, <4>1
      <4> QED BY <3>1, <3>2, <4>2
    <3> QED BY <2>1, <3>1, <3>2
  <2> QED BY <2>3, <2>4
<1>12. ASSUME NEW k \in Conn, Receive(k) \/ RefuseSeal(k) PROVE ChannelInv'
  BY <1>1, <1>12 DEF Receive, RefuseSeal, ReadWire
<1>13. ASSUME NEW m \in streamed, StreamedResult(m) PROVE ChannelInv'
  <2>1. m[1] \in Conn /\ handler[m[1]] = "serve"
    BY <1>13 DEF StreamedResult, TypeOK
  <2>2. /\ UNCHANGED <<conn, closed>>
        /\ \/ UNCHANGED handler
           \/ handler' = [handler EXCEPT ![m[1]] = "leaving"]
    BY <1>13 DEF StreamedResult
  <2> QED BY <1>1, <1>2, <2>1, <2>2
<1>14. CASE UNCHANGED hubVars
  BY <1>1, <1>14 DEF hubVars
<1>15. ASSUME NEW m \in reports, StoreReport(m) PROVE ChannelInv'
  BY <1>1, <1>15 DEF StoreReport, channelVars
<1>16. ASSUME NEW c \in Cmd, AgentStep(c) \/ TakeAck(c) \/ LoseAck(c)
       PROVE  ChannelInv'
  BY <1>14, <1>16 DEF AgentStep, CannotReserve, Answer, AgentRun, Report,
                      TakeAck, LoseAck
<1>17. ASSUME \/ \E m \in streamed : LoseStreamed(m)
              \/ \E m \in reports : LoseReport(m)
              \/ StreamDrops \/ Abort \/ AgentRestart
       PROVE  ChannelInv'
  BY <1>14, <1>17 DEF LoseStreamed, LoseReport, StreamDrops, Abort, AgentRestart
<1> HIDE DEF ChannelInv
<1> QED BY <1>3, <1>4, <1>5, <1>6, <1>7, <1>8, <1>9, <1>10, <1>11, <1>12,
           <1>13, <1>15, <1>16, <1>17
        DEF Next, HubStep, RouterStep, HandlerStep, StreamEnds, ChannelEnds

\* The channel in Hub.conns is open whatever connections are taken over,
\* evicted or detached, so enqueue never panics (hub.go Attach, evict, Detach).
THEOREM ChannelsAreOpen == Spec => []OpenChannel
<1>1. Init => ChannelInv
  BY DEF Init, HubInit, ChannelInv, OpenChannel
<1>2. TypeOK /\ ChannelInv /\ [Next]_vars => ChannelInv'
  <2>1. ChannelInv /\ UNCHANGED vars => ChannelInv'
    BY DEF ChannelInv, OpenChannel, vars, hubVars, channelVars
  <2> QED BY <2>1, ChannelStep
<1>3. ChannelInv => OpenChannel
  BY DEF ChannelInv
<1> QED BY <1>1, <1>2, <1>3, TypeCorrect, PTL DEF Spec
-----------------------------------------------------------------------------
\* A row of the commands table only moves forward.
THEOREM RowsMoveForward == Spec => StatusForward
<1>1. ASSUME IInv, Next, NEW c \in Cmd, status'[c] # status[c]
      PROVE  \/ status[c] = "none" /\ status'[c] = "pending"
             \/ status[c] = "pending" /\ status'[c] # "none"
             \/ status[c] = "sent" /\ status'[c] \in Results \union {Unknown}
             \/ status[c] = Unknown /\ status'[c] \in Results
  <2>1. RowStep /\ HubTypeOK
    BY <1>1, AnyRow DEF IInv, TypeOK
  <2>2. PICK d \in Cmd, v \in Statuses :
               status' = [status EXCEPT ![d] = v] /\ RowMoves(d, v)
    BY <1>1, <2>1 DEF RowStep
  <2>3. d = c /\ status'[c] = v
    BY <1>1, <2>1, <2>2 DEF HubTypeOK
  <2> QED BY <1>1, <2>2, <2>3 DEF RowMoves, Open, Results, Unknown
<1> DEFINE Forward ==
      \A c \in Cmd : status'[c] # status[c] =>
        \/ status[c] = "none" /\ status'[c] = "pending"
        \/ status[c] = "pending" /\ status'[c] # "none"
        \/ status[c] = "sent" /\ status'[c] \in Results \union {Unknown}
        \/ status[c] = Unknown /\ status'[c] \in Results
<1>2. IInv /\ [Next]_vars => [Forward]_vars
  BY <1>1
<1> QED BY <1>2, Invariance, PTL DEF Spec, StatusForward
-----------------------------------------------------------------------------
(* The command channel implements the ledger.                               *)

LEMMA LedgerStep ==
  ASSUME IInv, Next
  PROVE  Ledger!Next \/ UNCHANGED Ledger!vars
<1>0. HubTypeOK /\ ReceiptsTypeOK
  BY DEF IInv, TypeOK
<1>1. CASE UNCHANGED hostVars /\ UNCHANGED status
  BY <1>1 DEF hostVars, Ledger!vars
<1>2. CASE status' # status
  <2>1. UNCHANGED <<started, outcome>>
    BY <1>2, RowsApart DEF receiptsVars, hostVars
  <2>2. PICK c \in Cmd, v \in Statuses :
               status' = [status EXCEPT ![c] = v] /\ RowMoves(c, v)
    BY <1>2, AnyRow DEF IInv, RowStep
  <2>3. CASE status[c] = "none" /\ v = "pending"
    BY <2>1, <2>2, <2>3 DEF Ledger!Issue, Ledger!Next
  <2>4. CASE status[c] = "pending" /\ v = "sent"
    BY <2>1, <2>2, <2>4 DEF Ledger!Sent, Ledger!Next
  <2>5. CASE status[c] \in Open /\ v = "unknown"
    BY <2>1, <2>2, <2>5 DEF Open, Ledger!Open, Ledger!Doubt, Ledger!Next
  <2>6. CASE status[c] \in Open /\ v \in Results /\ Truthful(c, v)
    <3>1. CASE v = outcome[c]
      <4>1. outcome[c] # "none"
        BY <2>6, <3>1 DEF Results
      <4> QED BY <2>1, <2>2, <2>6, <3>1, <4>1
              DEF Open, Ledger!Open, Ledger!Record, Ledger!Next
    <3>2. CASE v = "failed" /\ started[c] = 0
      BY <2>1, <2>2, <2>6, <3>2 DEF Open, Ledger!Open, Ledger!Refuse, Ledger!Next
    <3> QED BY <2>6, <3>1, <3>2 DEF Truthful
  <2>7. RowMoves(c, v) /\ v \in Results => Truthful(c, v)
    BY FailureOfNothing
       DEF IInv, RowMoves, MessagesTrue, Truthful, Results, Unknown
  <2>8. ~Landed(c) => Truthful(c, "failed")
    BY FailureOfNothing DEF IInv
  <2> QED BY <2>2, <2>3, <2>4, <2>5, <2>6, <2>7, <2>8 DEF RowMoves, Results
<1>3. ASSUME NEW c \in Cmd, Begins(c) PROVE Ledger!Next
  <2>1. started[c] = 0 /\ outcome[c] = "none"
    BY <1>3 DEF Begins, IInv, RunAgrees
  <2>2. status[c] # "none"
    BY <1>3 DEF Begins, IInv, LandedIsPast, Landed, Past, AtIssuer, RowHasIssuer
  <2>3. status[c] \notin Results
    BY <1>3, <2>1 DEF Begins, IInv, MessagesTrue, Truthful, Results
  <2>4. status[c] \in Ledger!Open
    BY <1>0, <2>2, <2>3 DEF HubTypeOK, Statuses, Ledger!Open
  <2>5. started' = [started EXCEPT ![c] = 1]
    BY <1>0, <1>3, <2>1 DEF Begins, ReceiptsTypeOK
  <2> QED BY <1>3, <2>1, <2>4, <2>5 DEF Begins, Ledger!Start, Ledger!Next
<1>4. ASSUME NEW c \in Cmd, NEW r \in Results, Ends(c, r) PROVE Ledger!Next
  <2>1. started[c] = 1 /\ outcome[c] = "none"
    BY <1>4 DEF Ends, IInv, RunAgrees
  <2>2. r \in Ledger!Results
    BY DEF Results, Ledger!Results
  <2> QED BY <1>4, <2>1, <2>2 DEF Ends, Ledger!Perform, Ledger!Next
<1> QED BY <1>1, <1>2, <1>3, <1>4, AnyHost DEF HostStep

\* Every behaviour of the channel is one of the ledger: with no trace of queue,
\* node or receipt, the row and the host move as CommandLedger says.
THEOREM ImplementsLedger == Spec => LedgerSpec
<1>1. Init => Ledger!Init
  BY DEF Init, HubInit, ReceiptsInit, Ledger!Init
<1>2. IInv /\ [Next]_vars => [Ledger!Next]_(Ledger!vars)
  BY LedgerStep DEF vars, hubVars, receiptsVars, hostVars, Ledger!vars
<1> QED BY <1>1, <1>2, Invariance, PTL DEF Spec, LedgerSpec, Ledger!Spec
=============================================================================

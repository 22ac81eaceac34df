---------------------------- MODULE CommandHub ----------------------------
(***************************************************************************)
(* The server half of the command channel of one agent:                    *)
(*   response.Hub          issue, enqueue, mark, finish, Attach, evict,    *)
(*                         Detach, Abandon, SendFailed, settle, Complete   *)
(*   response.NATSRouter   Attach, Deliver, request (a cluster of nodes)   *)
(*   grpcsvc.Commands      the handler of one command stream               *)
(* Every node has its own Hub; the commands table is shared.  A connection *)
(* k \in Conn is one Commands stream with its outbound channel; each is    *)
(* used once.  What the agent does with a stream is in AgentReceipts, the  *)
(* two together in CommandDelivery.                                        *)
(***************************************************************************)
EXTENDS ResponseCommands, Naturals, Sequences

CONSTANTS Node,          \* server instances
          Conn,          \* command streams the agent opens, in any order
          NoConn,        \* no stream
          Home,          \* Home[k]: the node stream k lands on
          Origin,        \* Origin[c]: the node whose caller issues c
          Clustered,     \* TRUE when Hub.Router is a NATSRouter, FALSE for nil
          QueueCap,      \* pendingPerAgent
          MaxTries,      \* bound on the requests of one Router.Deliver
          MaxCrashes     \* bound on crashes of server nodes

ASSUME HubAssumption == /\ NoConn \notin Conn
                        /\ Home \in [Conn -> Node]
                        /\ Origin \in [Cmd -> Node]
                        /\ Clustered \in BOOLEAN
                        /\ QueueCap \in Nat \ {0}
                        /\ MaxTries \in Nat
                        /\ MaxCrashes \in Nat

VARIABLES status,        \* commands.status, "none" before the row exists
          issuer,        \* where the call of Hub.issue for c stands
          answer,        \* the reply to c's outstanding NATS request
          tries,         \* requests made so far by Router.Deliver for c
          inflight,      \* <<c, k>>: request for c handed to the subscriber k
          conn,          \* conn[n]: Hub.conns of node n for this agent
          buf,           \* buf[k]: commands buffered in the channel of k
          closed,        \* closed[k]: that channel has been closed
          sub,           \* sub[k]: its router subscription is alive
          evicting,      \* connections an evict broadcast is on its way to
          handler,       \* where the Commands handler of k stands
          hold,          \* hold[k]: commands whose Send failed, not settled yet
          wire,          \* wire[k]: commands written to the stream, not read
          crashes        \* crashes of server nodes so far

hubVars == <<status, issuer, answer, tries, inflight, conn, buf, closed, sub,
             evicting, handler, hold, wire, crashes>>

issueVars   == <<issuer, answer, tries, inflight>>
channelVars == <<conn, buf, closed, sub, evicting, handler, hold, wire>>

Statuses == {"none", "pending", "sent", "unknown"} \union Results

HubTypeOK ==
  /\ status \in [Cmd -> Statuses]
  /\ issuer \in [Cmd -> {"idle", "created", "route", "await", "gone", "mark",
                         "refused", "unknown", "done"}]
  /\ answer \in [Cmd -> {"none", "ok", "gone", "full"}]
  /\ tries \in [Cmd -> Nat]
  /\ inflight \subseteq Cmd \X Conn
  /\ conn \in [Node -> Conn \union {NoConn}]
  /\ buf \in [Conn -> Seq(Cmd)]
  /\ closed \in [Conn -> BOOLEAN]
  /\ sub \in [Conn -> BOOLEAN]
  /\ evicting \subseteq Conn
  /\ handler \in [Conn -> {"new", "serve", "sendfailed", "leaving", "abandon",
                           "gone"}]
  /\ hold \in [Conn -> SUBSET Cmd]
  /\ wire \in [Conn -> Seq(Cmd)]
  /\ crashes \in Nat

HubInit ==
  /\ status = [c \in Cmd |-> "none"]
  /\ issuer = [c \in Cmd |-> "idle"]
  /\ answer = [c \in Cmd |-> "none"]
  /\ tries = [c \in Cmd |-> 0]
  /\ inflight = {}
  /\ conn = [n \in Node |-> NoConn]
  /\ buf = [k \in Conn |-> <<>>]
  /\ closed = [k \in Conn |-> FALSE]
  /\ sub = [k \in Conn |-> FALSE]
  /\ evicting = {}
  /\ handler = [k \in Conn |-> "new"]
  /\ hold = [k \in Conn |-> {}]
  /\ wire = [k \in Conn |-> <<>>]
  /\ crashes = 0
-----------------------------------------------------------------------------
(* Writes to the commands table: conditional updates on the status.  Each   *)
(* may also fail (the database is unreachable), leaving the row as it was.  *)

WriteRow(c, from, to) ==
  \/ status' = [status EXCEPT ![c] = IF @ \in from THEN to ELSE @]
  \/ UNCHANGED status

\* Mutant: writes the row whatever it says by now
FinishAlways(c, to) == WriteRow(c, Statuses, to)

\* Hub.mark and Hub.finish: only a row still pending
FinishPending(c, to) == WriteRow(c, {"pending"}, to)

\* Mutant: overwrites a result that arrived first
SettleAlways(c, to) == WriteRow(c, Statuses, to)

\* Hub.settle: only a row that has no result yet
Settle(c, to) == WriteRow(c, {"pending", "sent"}, to)

\* Hub.Complete, when its update goes through: a closed row keeps its status
Complete(c, to) ==
  status' = [status EXCEPT ![c] = IF @ \in {"pending", "sent", "unknown"}
                                  THEN to ELSE @]
-----------------------------------------------------------------------------
(* Hub.issue: one call per id creates the row; a second call with the same  *)
(* id meets the unique constraint and returns the row, doing nothing else.  *)

CreateCommand(c) ==
  /\ status[c] = "none"
  /\ status' = [status EXCEPT ![c] = "pending"]
  /\ issuer' = [issuer EXCEPT ![c] = "created"]
  /\ UNCHANGED <<answer, tries, inflight, channelVars, crashes>>

IssuerTo(c, pc) ==
  /\ issuer' = [issuer EXCEPT ![c] = pc]
  /\ UNCHANGED <<status, answer, tries, inflight, channelVars, crashes>>

SealFails(c) == issuer[c] = "created" /\ IssuerTo(c, "refused")

HasRoom(k) == Len(buf[k]) < QueueCap

Push(k, c) == buf' = [buf EXCEPT ![k] = Append(@, c)]

\* The agent's stream is on this node: into its channel, or refused when full
EnqueueLocal(c) ==
  LET k == conn[Origin[c]] IN
  /\ issuer[c] = "created"
  /\ k # NoConn
  /\ HasRoom(k)
  /\ Push(k, c)
  /\ issuer' = [issuer EXCEPT ![c] = "mark"]
  /\ UNCHANGED <<status, answer, tries, inflight, conn, closed, sub, evicting,
                 handler, hold, wire, crashes>>

QueueFull(c) ==
  /\ issuer[c] = "created"
  /\ conn[Origin[c]] # NoConn
  /\ ~HasRoom(conn[Origin[c]])
  /\ IssuerTo(c, "refused")

NotLocal(c) ==
  /\ issuer[c] = "created"
  /\ conn[Origin[c]] = NoConn
  /\ IssuerTo(c, IF Clustered THEN "route" ELSE "refused")
-----------------------------------------------------------------------------
(* NATSRouter.Deliver: a request to one subscriber of the agent's subject.  *)

Request(c) ==
  \E k \in Conn :
    /\ issuer[c] = "route"
    /\ sub[k]
    /\ inflight' = inflight \union {<<c, k>>}
    /\ issuer' = [issuer EXCEPT ![c] = "await"]
    /\ tries' = [tries EXCEPT ![c] = @ + 1]
    /\ UNCHANGED <<status, answer, channelVars, crashes>>

NoResponders(c) ==
  /\ issuer[c] = "route"
  /\ \A k \in Conn : ~sub[k]
  /\ issuer' = [issuer EXCEPT ![c] = "gone"]
  /\ tries' = [tries EXCEPT ![c] = @ + 1]
  /\ UNCHANGED <<status, answer, inflight, channelVars, crashes>>

\* The reply of a callback reaches a caller that still waits for it
Reply(c, a) ==
  answer' = [answer EXCEPT ![c] = IF issuer[c] = "await" THEN a ELSE @]

\* The callback given to Router.Attach: enqueue on its own channel only
Callback(c, k) ==
  /\ <<c, k>> \in inflight
  /\ inflight' = inflight \ {<<c, k>>}
  /\ IF conn[Home[k]] # k
     THEN Reply(c, "gone") /\ UNCHANGED buf
     ELSE IF HasRoom(k)
          THEN Reply(c, "ok") /\ Push(k, c)
          ELSE Reply(c, "full") /\ UNCHANGED buf
  /\ UNCHANGED <<status, issuer, tries, conn, closed, sub, evicting, handler,
                 hold, wire, crashes>>

\* NATS loses the request (the subscriber unsubscribed or lost its link)
LoseRequest(c, k) ==
  /\ <<c, k>> \in inflight
  /\ inflight' = inflight \ {<<c, k>>}
  /\ UNCHANGED <<status, issuer, answer, tries, channelVars, crashes>>

TakeReply(c) ==
  /\ issuer[c] = "await"
  /\ answer[c] # "none"
  /\ issuer' = [issuer EXCEPT ![c] = CASE answer[c] = "ok"   -> "mark"
                                       [] answer[c] = "gone" -> "gone"
                                       [] answer[c] = "full" -> "unknown"]
  /\ answer' = [answer EXCEPT ![c] = "none"]
  /\ UNCHANGED <<status, tries, inflight, channelVars, crashes>>

\* No reply in time, or the reply was lost: the request may still be served
RequestTimeout(c) ==
  /\ issuer[c] = "await"
  /\ issuer' = [issuer EXCEPT ![c] = "unknown"]
  /\ answer' = [answer EXCEPT ![c] = "none"]
  /\ UNCHANGED <<status, tries, inflight, channelVars, crashes>>

\* natsretry.Do: only what provably reached no channel is tried again
Retry(c) ==
  /\ issuer[c] = "gone"
  /\ tries[c] < MaxTries
  /\ IssuerTo(c, "route")

GiveUp(c) == issuer[c] = "gone" /\ IssuerTo(c, "unknown")

\* The last step of issue writes the row; the write may fail
IssueReturns(c) ==
  /\ \/ issuer[c] = "mark"    /\ FinishPending(c, "sent")
     \/ issuer[c] = "refused" /\ FinishPending(c, "failed")
     \/ issuer[c] = "unknown" /\ FinishPending(c, "unknown")
  /\ issuer' = [issuer EXCEPT ![c] = "done"]
  /\ UNCHANGED <<answer, tries, inflight, channelVars, crashes>>
-----------------------------------------------------------------------------
(* Connections.  Attach takes over from the node's old channel and, over    *)
(* the evict subject, from every other node; subscribing may fail.          *)

Attach(k) ==
  LET old == conn[Home[k]] IN
  /\ handler[k] = "new"
  /\ handler' = [handler EXCEPT ![k] = "serve"]
  /\ conn' = [conn EXCEPT ![Home[k]] = k]
  /\ closed' = [j \in Conn |-> closed[j] \/ j = old]
  /\ \E subscribed \in BOOLEAN :
       /\ subscribed => Clustered
       /\ sub' = [j \in Conn |-> IF j = k THEN subscribed
                                 ELSE sub[j] /\ j # old]
       /\ evicting' = (evicting \ {old}) \union
                        {j \in Conn : subscribed /\ sub[j] /\ j \notin {k, old}}
  /\ UNCHANGED <<status, issueVars, buf, hold, wire, crashes>>

\* Mutant: closes the channel but leaves it in Hub.conns
EvictKeepsConn(k) ==
  /\ k \in evicting
  /\ evicting' = evicting \ {k}
  /\ sub' = [sub EXCEPT ![k] = FALSE]
  /\ closed' = [closed EXCEPT ![k] = TRUE]
  /\ UNCHANGED <<status, issueVars, conn, buf, handler, hold, wire, crashes>>

\* Another node claimed the agent: unsubscribe, then Hub.evict
Evict(k) ==
  /\ k \in evicting
  /\ evicting' = evicting \ {k}
  /\ sub' = [sub EXCEPT ![k] = FALSE]
  /\ IF conn[Home[k]] = k
     THEN /\ conn' = [conn EXCEPT ![Home[k]] = NoConn]
          /\ closed' = [closed EXCEPT ![k] = TRUE]
     ELSE UNCHANGED <<conn, closed>>
  /\ UNCHANGED <<status, issueVars, buf, handler, hold, wire, crashes>>

LoseEvict(k) ==
  /\ k \in evicting
  /\ evicting' = evicting \ {k}
  /\ UNCHANGED <<status, issueVars, conn, buf, closed, sub, handler, hold,
                 wire, crashes>>
-----------------------------------------------------------------------------
(* grpcsvc.Commands: writes what the channel holds to the stream.           *)

Pop(k) == buf' = [buf EXCEPT ![k] = Tail(@)]

Send(k) ==
  /\ handler[k] = "serve"
  /\ buf[k] # <<>>
  /\ Pop(k)
  /\ wire' = [wire EXCEPT ![k] = Append(@, Head(buf[k]))]
  /\ UNCHANGED <<status, issueVars, conn, closed, sub, evicting, handler,
                 hold, crashes>>

\* Mutant: a command whose Send failed goes back to the channel
SendFailsRequeues(k) ==
  /\ handler[k] = "serve"
  /\ buf[k] # <<>>
  /\ \/ wire' = [wire EXCEPT ![k] = Append(@, Head(buf[k]))]
     \/ UNCHANGED wire
  /\ handler' = [handler EXCEPT ![k] = "leaving"]
  /\ UNCHANGED <<status, issueVars, conn, buf, closed, sub, evicting, hold,
                 crashes>>

\* stream.Send failed: the bytes may or may not have left
SendFails(k) ==
  /\ handler[k] = "serve"
  /\ buf[k] # <<>>
  /\ Pop(k)
  /\ \/ wire' = [wire EXCEPT ![k] = Append(@, Head(buf[k]))]
     \/ UNCHANGED wire
  /\ hold' = [hold EXCEPT ![k] = {Head(buf[k])}]
  /\ handler' = [handler EXCEPT ![k] = "sendfailed"]
  /\ UNCHANGED <<status, issueVars, conn, closed, sub, evicting, crashes>>

\* Mutant: a failed Send is recorded as a failed command
SendFailedMeansFailed(k) ==
  /\ handler[k] = "sendfailed"
  /\ \E c \in hold[k] : Settle(c, "failed")
  /\ hold' = [hold EXCEPT ![k] = {}]
  /\ handler' = [handler EXCEPT ![k] = "leaving"]
  /\ UNCHANGED <<issueVars, conn, buf, closed, sub, evicting, wire, crashes>>

\* Hub.SendFailed, then the handler returns
SendFailed(k) ==
  /\ handler[k] = "sendfailed"
  /\ \E c \in hold[k] : Settle(c, "unknown")
  /\ hold' = [hold EXCEPT ![k] = {}]
  /\ handler' = [handler EXCEPT ![k] = "leaving"]
  /\ UNCHANGED <<issueVars, conn, buf, closed, sub, evicting, wire, crashes>>

Leave(k) ==
  /\ handler[k] = "serve"
  /\ handler' = [handler EXCEPT ![k] = "leaving"]
  /\ UNCHANGED <<status, issueVars, conn, buf, closed, sub, evicting, hold,
                 wire, crashes>>

\* The stream's context ended or its Recv failed, at any moment
StreamEnds(k) == Leave(k)

\* The closed channel has been drained: another connection took over
ChannelEnds(k) == closed[k] /\ buf[k] = <<>> /\ Leave(k)

\* Hub.Detach: only its own channel
Detach(k) ==
  /\ handler[k] = "leaving"
  /\ handler' = [handler EXCEPT ![k] = "abandon"]
  /\ IF conn[Home[k]] = k
     THEN /\ conn' = [conn EXCEPT ![Home[k]] = NoConn]
          /\ sub' = [sub EXCEPT ![k] = FALSE]
          /\ evicting' = evicting \ {k}
     ELSE UNCHANGED <<conn, sub, evicting>>
  /\ UNCHANGED <<status, issueVars, buf, closed, hold, wire, crashes>>

\* Hub.Abandon: what is still buffered was never written to the stream
Abandon(k) ==
  /\ handler[k] = "abandon"
  /\ buf[k] # <<>>
  /\ Pop(k)
  /\ Settle(Head(buf[k]), "failed")
  /\ UNCHANGED <<issueVars, conn, closed, sub, evicting, handler, hold, wire,
                 crashes>>

\* Mutant: the handler returns without draining its channel
ReturnsEarly(k) ==
  /\ handler[k] = "abandon"
  /\ handler' = [handler EXCEPT ![k] = "gone"]
  /\ UNCHANGED <<status, issueVars, conn, buf, closed, sub, evicting, hold,
                 wire, crashes>>

HandlerReturns(k) ==
  /\ handler[k] = "abandon"
  /\ buf[k] = <<>>
  /\ handler' = [handler EXCEPT ![k] = "gone"]
  /\ UNCHANGED <<status, issueVars, conn, buf, closed, sub, evicting, hold,
                 wire, crashes>>

\* A server process dies: its calls, channels and subscriptions with it
NodeCrash(n) ==
  LET here == {k \in Conn : Home[k] = n /\ handler[k] # "new"} IN
  /\ crashes < MaxCrashes
  /\ crashes' = crashes + 1
  /\ issuer' = [c \in Cmd |-> IF Origin[c] = n /\ issuer[c] # "idle"
                              THEN "done" ELSE issuer[c]]
  /\ answer' = [c \in Cmd |-> IF Origin[c] = n THEN "none" ELSE answer[c]]
  /\ inflight' = {m \in inflight : m[2] \notin here}
  /\ conn' = [conn EXCEPT ![n] = NoConn]
  /\ buf' = [k \in Conn |-> IF k \in here THEN <<>> ELSE buf[k]]
  /\ sub' = [k \in Conn |-> sub[k] /\ k \notin here]
  /\ evicting' = evicting \ here
  /\ handler' = [k \in Conn |-> IF k \in here THEN "gone" ELSE handler[k]]
  /\ hold' = [k \in Conn |-> IF k \in here THEN {} ELSE hold[k]]
  /\ UNCHANGED <<status, tries, closed, wire>>
-----------------------------------------------------------------------------
IssueStep(c) == \/ SealFails(c) \/ EnqueueLocal(c) \/ QueueFull(c)
                \/ NotLocal(c) \/ Request(c) \/ NoResponders(c)
                \/ TakeReply(c) \/ RequestTimeout(c) \/ Retry(c) \/ GiveUp(c)
                \/ IssueReturns(c)

RouterStep(k) == \/ \E c \in Cmd : Callback(c, k) \/ LoseRequest(c, k)
                 \/ Evict(k) \/ LoseEvict(k)

HandlerStep(k) == \/ Send(k) \/ SendFails(k) \/ SendFailed(k) \/ ChannelEnds(k)
                  \/ Detach(k) \/ Abandon(k) \/ HandlerReturns(k)

HubStep == \/ \E c \in Cmd : CreateCommand(c) \/ IssueStep(c)
           \/ \E k \in Conn : RouterStep(k) \/ HandlerStep(k) \/ StreamEnds(k)
           \/ \E n \in Node : NodeCrash(n)
=============================================================================

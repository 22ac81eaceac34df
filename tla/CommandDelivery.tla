-------------------------- MODULE CommandDelivery --------------------------
(***************************************************************************)
(* The command channel end to end: the server's CommandHub, the agent's    *)
(* AgentReceipts, and what travels between them.                           *)
(*   - the agent holds one command stream at a time and opens a new one    *)
(*     when it ends (main::command_loop, command_stream);                  *)
(*   - a result goes back on the stream that brought the command, and      *)
(*     again, until acknowledged, by ReportCommandResult                   *)
(*     (receipts::upload_once, grpcsvc.ReportCommandResult).               *)
(***************************************************************************)
EXTENDS CommandHub, AgentReceipts

VARIABLES stream,      \* the stream the agent reads, or NoConn
          via,         \* via[c]: the stream that brought c to the agent
          streamed,    \* <<k, c, status>>: results written to stream k
          reports,     \* <<c, status>>: ReportCommandResult calls under way
          acks         \* commands whose acknowledgement is under way

linkVars == <<stream, via, streamed, reports, acks>>
vars == <<hubVars, receiptsVars, linkVars>>

Unknown == "unknown"

TypeOK ==
  /\ HubTypeOK
  /\ ReceiptsTypeOK
  /\ stream \in Conn \union {NoConn}
  /\ via \in [Cmd -> Conn \union {NoConn}]
  /\ streamed \subseteq Conn \X Cmd \X Results
  /\ reports \subseteq Cmd \X (Results \union {Unknown})
  /\ acks \subseteq Cmd

Init ==
  /\ HubInit
  /\ ReceiptsInit
  /\ stream = NoConn
  /\ via = [c \in Cmd |-> NoConn]
  /\ streamed = {}
  /\ reports = {}
  /\ acks = {}
-----------------------------------------------------------------------------
(* The agent's stream.                                                      *)

\* command_stream is called again only when the previous call returned
Connect(k) ==
  /\ stream = NoConn
  /\ InlineBusy
  /\ stream' = k
  /\ Attach(k)
  /\ UNCHANGED <<receiptsVars, via, streamed, reports, acks>>

\* inbound.message() ends: noticed only between two commands
StreamDrops ==
  /\ stream # NoConn
  /\ InlineBusy
  /\ stream' = NoConn
  /\ UNCHANGED <<hubVars, receiptsVars, via, streamed, reports, acks>>

ReadWire(k) ==
  /\ stream = k
  /\ wire[k] # <<>>
  /\ wire' = [wire EXCEPT ![k] = Tail(@)]
  /\ UNCHANGED <<status, issueVars, conn, buf, closed, sub, evicting, handler,
                 hold, crashes>>

\* A command arrives and its seal opens
Receive(k) ==
  LET c == Head(wire[k]) IN
  /\ ReadWire(k)
  /\ InlineBusy
  /\ Accept(c)
  /\ via' = [via EXCEPT ![c] = k]
  /\ UNCHANGED <<stream, streamed, reports, acks>>

\* The seal does not open (expired, another agent, another key): the failure
\* is answered on the stream, without a receipt
RefuseSeal(k) ==
  /\ ReadWire(k)
  /\ InlineBusy
  /\ streamed' = streamed \union {<<k, Head(wire[k]), "failed">>}
  /\ UNCHANGED <<receiptsVars, stream, via, reports, acks>>

\* A reservation that failed ends the stream, unless exec asked for it
CannotReserve(c) ==
  /\ ReserveFails(c)
  /\ stream' = IF c \in attached \ Exec THEN NoConn ELSE stream
  /\ UNCHANGED <<hubVars, via, streamed, reports, acks>>

\* The result is on disk; a live future also writes it to its stream
Answer(c) ==
  /\ Finish(c)
  /\ streamed' = IF c \in attached
                 THEN streamed \union {<<via[c], c, outcome[c]>>} ELSE streamed
  /\ UNCHANGED <<hubVars, stream, via, reports, acks>>

Abort ==
  /\ AbortSession
  /\ stream' = NoConn
  /\ UNCHANGED <<hubVars, via, streamed, reports, acks>>

AgentRestart ==
  /\ Restart
  /\ stream' = NoConn
  /\ acks' = {}
  /\ UNCHANGED <<hubVars, via, streamed, reports>>

AgentRun(c) ==
  /\ \/ Reserve(c) \/ Duplicate(c) \/ Start(c)
     \/ \E r \in Results : Perform(c, r)
     \/ FinishFails(c) \/ FinishAgain(c)
  /\ UNCHANGED <<hubVars, linkVars>>
-----------------------------------------------------------------------------
(* Results on their way back.                                               *)

\* The handler's receiving goroutine: a result it cannot store ends the stream
StreamedResult(m) ==
  LET k == m[1] IN
  /\ m \in streamed
  /\ handler[k] = "serve"
  /\ streamed' = streamed \ {m}
  /\ \/ Complete(m[2], m[3]) /\ UNCHANGED handler
     \/ handler' = [handler EXCEPT ![k] = "leaving"] /\ UNCHANGED status
  /\ UNCHANGED <<issueVars, conn, buf, closed, sub, evicting, hold, wire,
                 crashes, receiptsVars, stream, via, reports, acks>>

LoseStreamed(m) ==
  /\ m \in streamed
  /\ streamed' = streamed \ {m}
  /\ UNCHANGED <<hubVars, receiptsVars, stream, via, reports, acks>>

\* Mutant: the empty status of an interrupted run is sent as it is stored
ReportedRaw(c) == record[c]

\* A record without a result is reported as "result unknown"
Reported(c) == IF record[c] \in Results THEN record[c] ELSE Unknown

\* receipts::upload_once
Report(c) ==
  /\ c \in ready
  /\ reports' = reports \union {<<c, Reported(c)>>}
  /\ UNCHANGED <<hubVars, receiptsVars, stream, via, streamed, acks>>

\* ReportCommandResult acknowledges what Complete stored, or found stored
StoreReport(m) ==
  /\ m \in reports
  /\ reports' = reports \ {m}
  /\ Complete(m[1], m[2])
  /\ acks' = acks \union {m[1]}
  /\ UNCHANGED <<issueVars, channelVars, crashes, receiptsVars, stream, via,
                 streamed>>

\* Mutant: acknowledges a result whose row could not be written
AckUnwritten(m) ==
  /\ m \in reports
  /\ reports' = reports \ {m}
  /\ acks' = acks \union {m[1]}
  /\ UNCHANGED <<hubVars, receiptsVars, stream, via, streamed>>

\* The call is lost, or answered Unavailable as the row could not be written
LoseReport(m) ==
  /\ m \in reports
  /\ reports' = reports \ {m}
  /\ UNCHANGED <<hubVars, receiptsVars, stream, via, streamed, acks>>

TakeAck(c) ==
  /\ c \in acks
  /\ acks' = acks \ {c}
  /\ Acknowledge(c)
  /\ UNCHANGED <<hubVars, stream, via, streamed, reports>>

\* The call timed out, or the record it answers is gone
LoseAck(c) ==
  /\ c \in acks
  /\ acks' = acks \ {c}
  /\ UNCHANGED <<hubVars, receiptsVars, stream, via, streamed, reports>>
-----------------------------------------------------------------------------
AgentStep(c) == CannotReserve(c) \/ Answer(c) \/ AgentRun(c) \/ Report(c)

Next ==
  \/ HubStep /\ UNCHANGED <<receiptsVars, linkVars>>
  \/ \E k \in Conn : Connect(k) \/ Receive(k) \/ RefuseSeal(k)
  \/ \E c \in Cmd : AgentStep(c) \/ TakeAck(c) \/ LoseAck(c)
  \/ \E m \in streamed : StreamedResult(m) \/ LoseStreamed(m)
  \/ \E m \in reports : StoreReport(m) \/ LoseReport(m)
  \/ StreamDrops
  \/ Abort
  \/ AgentRestart

Spec == Init /\ [][Next]_vars
-----------------------------------------------------------------------------
(* Fairness: callers of issue and stream handlers run on; a host action     *)
(* ends (exec has a timeout); the agent's loops repeat every 5 seconds, and *)
(* neither the disk, the network nor the database fails for ever.           *)

Fairness ==
  /\ \A c \in Cmd :
       /\ WF_vars(IssueStep(c) /\ UNCHANGED <<receiptsVars, linkVars>>)
       /\ WF_vars(AgentRun(c) \/ CannotReserve(c) \/ Answer(c))
       /\ SF_vars(Answer(c))
       /\ WF_vars(Report(c))
       /\ SF_vars(\E m \in reports : m[1] = c /\ StoreReport(m))
  /\ \A k \in Conn :
       WF_vars(HandlerStep(k) /\ UNCHANGED <<receiptsVars, linkVars>>)

FairSpec == Spec /\ Fairness
-----------------------------------------------------------------------------
\* c waits in one of the queues q[k]
In(c, q) == \E k \in Conn : \E i \in 1..Len(q[k]) : q[k][i] = c

Buffered(c) == In(c, buf)
OnWire(c)   == In(c, wire)
Settled(c)  == status[c] \in Results \union {Unknown}

\* A command's action begins at most once on the host, whatever connections
\* are replaced, requests time out and processes restart (router.go: "绝不重发").
AtMostOnce == \A c \in Cmd : started[c] <= 1

\* A closed row is true of the host (hub.go Abandon, settle, Complete).
RowIsTrue == \A c \in Cmd : status[c] \in Results =>
                \/ status[c] = outcome[c]
                \/ status[c] = "failed" /\ started[c] = 0 /\ outcome[c] = "none"

\* No node sends on a closed channel, which panics in Go: the channel in
\* Hub.conns is open, its handler will still drain it (hub.go Attach, evict).
OpenChannel == \A n \in Node : conn[n] # NoConn =>
                 /\ ~closed[conn[n]]
                 /\ Home[conn[n]] = n
                 /\ handler[conn[n]] \in {"serve", "sendfailed", "leaving"}

\* What began on the host is never lost sight of: its record survives any
\* crash, or the row already says how it ended or that nobody knows.
NothingForgotten == \A c \in Cmd : started[c] > 0 => durable[c] # "none" \/ Settled(c)

\* A row only moves forward: "sent" only from "pending", nothing out of a
\* result, and never back from "unknown" to waiting for an answer.
StatusForward ==
  [][\A c \in Cmd : status'[c] # status[c] =>
        \/ status[c] = "none" /\ status'[c] = "pending"
        \/ status[c] = "pending" /\ status'[c] # "none"
        \/ status[c] = "sent" /\ status'[c] \in Results \union {Unknown}
        \/ status[c] = Unknown /\ status'[c] \in Results]_vars

\* A command handed to a channel does not stay there: it is written to the
\* stream or given up when its connection goes (commands.go, hub.go Abandon).
ChannelsDrain == \A c \in Cmd : Buffered(c) ~> ~Buffered(c)

\* What a command of kind exec did is told in the end: the row gets its
\* result, or says that nobody knows (main.rs run_command, receipts.rs upload).
ExecIsReported == \A c \in Exec : started[c] > 0 ~> Settled(c)

\* main.rs, run_command: "断线不取消执行，结果独立重传" - once reserved, a command
\* goes on and its result is reported, whatever happens to the connection.
ReservedIsReported == \A c \in Cmd : run[c] = "reserved" ~> Settled(c)
-----------------------------------------------------------------------------
(* The inductive invariant behind the properties.  A command is in one      *)
(* place at a time on its way to the agent - with the caller of issue that  *)
(* may still hand it on, in a NATS request, in a channel, on a wire - and   *)
(* once it has left the last of them it never enters one again.             *)

\* The caller of issue may still hand c to a channel or a request
AtIssuer(c) ==
  \/ issuer[c] \in {"idle", "created", "route", "gone", "refused"}
  \/ issuer[c] = "await" /\ answer[c] = "gone"

InRequest(c) == \E k \in Conn : <<c, k>> \in inflight

\* No queue holds c twice, nor do two of them
OncePerQueue(q) ==
  \A j, k \in Conn : \A h \in 1..Len(q[j]), i \in 1..Len(q[k]) :
    q[j][h] = q[k][i] => j = k /\ h = i

OnePlace ==
  /\ OncePerQueue(buf)
  /\ OncePerQueue(wire)
  /\ \A c \in Cmd :
       /\ AtIssuer(c)  => ~InRequest(c) /\ ~Buffered(c) /\ ~OnWire(c)
       /\ InRequest(c) => ~Buffered(c) /\ ~OnWire(c) /\ answer[c] = "none"
       /\ Buffered(c)  => ~OnWire(c)
  /\ \A m, w \in inflight : m[1] = w[1] => m = w

\* c is past all of those places
Past(c) == ~AtIssuer(c) /\ ~InRequest(c) /\ ~Buffered(c) /\ ~OnWire(c)

\* The agent or the row bears a trace of c having arrived, or never going to
Landed(c) ==
  \/ run[c] # "none" \/ started[c] # 0 \/ record[c] # "none"
  \/ durable[c] # "none" \/ status[c] \in Results
  \/ \E m \in streamed : m[2] = c
  \/ \E m \in reports : m[1] = c
  \/ c \in acks

LandedIsPast == \A c \in Cmd : Landed(c) => Past(c)

\* A row exists once issue was called, and a reply is kept only for a caller
RowHasIssuer == \A c \in Cmd :
  /\ status[c] = "none" <=> issuer[c] = "idle"
  /\ answer[c] # "none" => issuer[c] = "await"

\* Where a run stands agrees with what the host did and what is on disk
RunAgrees == \A c \in Cmd :
  /\ started[c] \in {0, 1}
  /\ started[c] = 0 => outcome[c] = "none"
  /\ run[c] \in {"reserving", "reserved"} => started[c] = 0
  /\ run[c] = "running" => started[c] = 1 /\ outcome[c] = "none"
  /\ run[c] \in {"saving", "backoff"} => started[c] = 1 /\ outcome[c] # "none"
  /\ record[c] \in {"none", "reserved", outcome[c]}
  /\ durable[c] \in {"none", "reserved", outcome[c]}
  /\ c \in ready => record[c] # "none" /\ run[c] = "none"
  /\ run[c] \in {"reserved", "running", "saving", "backoff"} =>
       record[c] # "none" /\ durable[c] # "none"
  /\ c \in attached => via[c] # NoConn

\* A result r said of c is the host's own, or a failure of what never ran
Truthful(c, r) ==
  \/ r = outcome[c]
  \/ r = "failed" /\ started[c] = 0 /\ run[c] = "none"

MessagesTrue ==
  /\ \A c \in Cmd : status[c] \in Results => Truthful(c, status[c])
  /\ \A m \in streamed : Truthful(m[2], m[3])
  /\ \A m \in reports : m[2] \in {Unknown, outcome[m[1]]}

\* Only a settled row lets the record of a begun command go
ForgottenIsSettled == \A c \in Cmd :
  /\ c \in acks => Settled(c)
  /\ record[c] = "none" /\ durable[c] # "none" => Settled(c)
  /\ started[c] > 0 => durable[c] # "none" \/ Settled(c)

IInv == /\ TypeOK
        /\ OnePlace
        /\ LandedIsPast
        /\ RowHasIssuer
        /\ RunAgrees
        /\ MessagesTrue
        /\ ForgottenIsSettled
-----------------------------------------------------------------------------
Ledger == INSTANCE CommandLedger

\* The channel implements the ledger.
LedgerSpec == Ledger!Spec
=============================================================================

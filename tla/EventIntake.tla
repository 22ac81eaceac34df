---------------------------- MODULE EventIntake ----------------------------
(***************************************************************************)
(* The server's way from a ReportEvents call to the database, for the      *)
(* events of one agent:                                                    *)
(*   grpcsvc.ReportEvents       the handler of one call, publish, flush    *)
(*   eventbus.JetStream         PublishBatch, publishMessage, the consumer *)
(*   ingest.Processor           ProcessBatch, store, upsertAlert           *)
(* An event goes to the shard of the agent's asset, or to that of the      *)
(* agent's own id as long as the call has not found the asset.             *)
(* Calls, redeliveries and transactions of several nodes overlap; a shard  *)
(* has one message outstanding (MaxAckPending 1), which it may hand to     *)
(* another node while the first still works on it.                         *)
(***************************************************************************)
EXTENDS AgentEvents

Seqs == INSTANCE SequencesExt

CONSTANTS Call,         \* places for ReportEvents calls
          Worker,       \* places for messages being handled, on any node
          MsgId,        \* places for messages of the stream
          BusBatch,     \* QUEUE_BATCH_SIZE
          MaxLate,      \* bound on publications that may arrive late, at a time
          LookupFails,  \* the look-up of the asset may fail
          Hit,          \* events one rule hits
          Unread,       \* stands for a view not read yet
          Ts,           \* Ts[e]: the timestamp of e
          Window        \* ALERT_DEDUP_WINDOW

ASSUME IntakeAssumption == /\ Event \subseteq Nat
                           /\ Hit \subseteq Event
                           /\ Ts \in [Event -> Nat]
                           /\ BusBatch \in Nat \ {0}
                           /\ LookupFails \in BOOLEAN
                           /\ MaxLate \in Nat
                           /\ Window \in Nat

VARIABLES call,         \* where the handler of a call stands
          known,        \* the call found the asset: agentStream.assetID
          todo,         \* events sent by the agent and not handled yet
          queued,       \* agentStream.queuedEvents
          received,     \* agentStream.received: how many were published
          bus,          \* the stream: messages waiting or outstanding
          late,         \* publications that timed out, perhaps on their way
          worker,       \* where a consumer stands
          msg,          \* the message it was given
          pos,          \* events of that message handled so far
          mine,         \* events its transaction inserted
          view,         \* the alerts as its transaction sees them, or none
          stored,       \* committed rows of events
          alerts        \* committed alerts, in order of creation

callVars   == <<call, known, todo, queued, received>>
busVars    == <<bus, late>>
workVars   == <<worker, msg, pos, mine, view>>
dbVars     == <<stored, alerts>>
intakeVars == <<callVars, busVars, workVars, dbVars>>

Shard    == {"asset", "agent"}
Envelope == [event : Event, shard : Shard]
Content  == [shard : Shard, events : Seq(Event)]
Message  == [id : MsgId, content : Content]
NoMsg    == [id |-> "none", content |-> [shard |-> "asset", events |-> <<>>]]

\* An alert with its count.  The partition key is part of the fingerprint;
\* the last alert of a shard is the fingerprint's row in alert_dedup_state.
Alert == [first : Nat, last : Nat, count : Nat \ {0}]
ASSUME ViewAssumption == Unread \notin Seq(Alert)

IntakeTypeOK ==
  /\ call \in [Call -> {"free", "open", "acked"}]
  /\ known \in [Call -> BOOLEAN]
  /\ todo \in [Call -> Seq(Event)]
  /\ queued \in [Call -> Seq(Envelope)]
  /\ received \in [Call -> Nat]
  /\ bus \in Seq(Message)
  /\ late \subseteq Content
  /\ worker \in [Worker -> {"idle", "open", "done"}]
  /\ msg \in [Worker -> Message \union {NoMsg}]
  /\ pos \in [Worker -> Nat]
  /\ mine \in [Worker -> SUBSET Event]
  /\ view \in [Worker -> Seq(Alert) \union {Unread}]
  /\ stored \subseteq Event
  /\ alerts \in [Shard -> Seq(Alert)]

IntakeInit ==
  /\ call = [i \in Call |-> "free"]
  /\ known = [i \in Call |-> FALSE]
  /\ todo = [i \in Call |-> <<>>]
  /\ queued = [i \in Call |-> <<>>]
  /\ received = [i \in Call |-> 0]
  /\ bus = <<>>
  /\ late = {}
  /\ worker = [w \in Worker |-> "idle"]
  /\ msg = [w \in Worker |-> NoMsg]
  /\ pos = [w \in Worker |-> 0]
  /\ mine = [w \in Worker |-> {}]
  /\ view = [w \in Worker |-> Unread]
  /\ stored = {}
  /\ alerts = [s \in Shard |-> <<>>]
-----------------------------------------------------------------------------
(* grpcsvc.ReportEvents.                                                    *)

Report(i, events) ==
  /\ call[i] = "free"
  /\ call' = [call EXCEPT ![i] = "open"]
  /\ todo' = [todo EXCEPT ![i] = events]
  /\ UNCHANGED <<known, queued, received, busVars, workVars, dbVars>>

\* agentStream.handle: resolveAsset, until it once found the asset, and publish,
\* which queues until the batch is full
Handle(i) ==
  /\ call[i] = "open"
  /\ todo[i] # <<>>
  /\ Len(queued[i]) < BusBatch
  /\ \E found \in {TRUE, ~LookupFails} : known' = [known EXCEPT ![i] = @ \/ found]
  /\ todo' = [todo EXCEPT ![i] = Tail(@)]
  /\ LET shard == IF known'[i] THEN "asset" ELSE "agent"
     IN queued' = [queued EXCEPT ![i] = Append(@, [event |-> Head(todo[i]), shard |-> shard])]
  /\ UNCHANGED <<call, received, busVars, workVars, dbVars>>

Close(i) ==
  /\ call' = [call EXCEPT ![i] = "free"]
  /\ known' = [known EXCEPT ![i] = FALSE]
  /\ todo' = [todo EXCEPT ![i] = <<>>]
  /\ queued' = [queued EXCEPT ![i] = <<>>]
  /\ received' = [received EXCEPT ![i] = 0]

InUse == {bus[k].id : k \in DOMAIN bus} \union {msg[w].id : w \in Worker}

\* What the stream took before: it is waiting still, or was handled
Taken(content) == \/ \E k \in DOMAIN bus : bus[k].content = content
                  \/ EventsOf(content.events) \subseteq stored

\* The stream takes a message; one whose Nats-Msg-Id it has seen it may drop
Store(content) ==
  \/ \E id \in MsgId \ InUse : bus' = Append(bus, [id |-> id, content |-> content])
  \/ Taken(content) /\ UNCHANGED bus

\* PublishBatch: the first message of the call's batch, which ends where the
\* partition key changes or the byte limit is met
FirstOf(i) ==
  LET Uniform(n) == \A k \in 1..n : queued[i][k].shard = queued[i][1].shard
  IN {[shard |-> queued[i][1].shard, events |-> [k \in 1..n |-> queued[i][k].event]] :
        n \in {m \in DOMAIN queued[i] : Uniform(m)}}

\* agentStream.flush, when the batch is full, by the ticker or at the end: one of
\* its messages.  To break off between two is as if the ticker had come before.
Flush(i) ==
  /\ call[i] = "open"
  /\ \E content \in FirstOf(i) :
       LET n == Len(content.events) IN
       /\ Store(content)
       /\ received' = [received EXCEPT ![i] = @ + n]
       /\ queued' = [queued EXCEPT ![i] = SubSeq(@, n + 1, Len(@))]
  /\ UNCHANGED <<call, known, todo, late, workVars, dbVars>>

\* Mutant: the error is dropped and the call goes on
FlushForgets(i) ==
  /\ call[i] = "open"
  /\ queued[i] # <<>>
  /\ received' = [received EXCEPT ![i] = @ + Len(queued[i])]
  /\ queued' = [queued EXCEPT ![i] = <<>>]
  /\ UNCHANGED <<call, known, todo, busVars, workVars, dbVars>>

\* The publication failed: the stream is full, or has no leader beyond the
\* retries, or did not answer in time and may store it yet.  The call fails.
FlushFails(i) ==
  /\ call[i] = "open"
  /\ \/ UNCHANGED late
     \/ /\ Cardinality(late) < MaxLate
        /\ late' \in {late \union {content} : content \in FirstOf(i)}
  /\ Close(i)
  /\ UNCHANGED <<bus, workVars, dbVars>>

\* Mutant: acknowledges with events still in its batch
AckEarly(i) ==
  /\ call[i] = "open"
  /\ todo[i] = <<>>
  /\ received' = [received EXCEPT ![i] = @ + Len(queued[i])]
  /\ queued' = [queued EXCEPT ![i] = <<>>]
  /\ call' = [call EXCEPT ![i] = "acked"]
  /\ UNCHANGED <<known, todo, busVars, workVars, dbVars>>

\* The agent closed its side and all is flushed: SendAndClose
SendAck(i) ==
  /\ call[i] = "open"
  /\ todo[i] = <<>>
  /\ queued[i] = <<>>
  /\ call' = [call EXCEPT ![i] = "acked"]
  /\ UNCHANGED <<known, todo, queued, received, busVars, workVars, dbVars>>

\* The stream broke, its deadline passed, the node died, the answer was lost
CallEnds(i) ==
  /\ call[i] # "free"
  /\ Close(i)
  /\ UNCHANGED <<busVars, workVars, dbVars>>

LateStored(content) ==
  /\ content \in late
  /\ late' = late \ {content}
  /\ Store(content)
  /\ UNCHANGED <<callVars, workVars, dbVars>>

LateLost(content) ==
  /\ content \in late
  /\ late' = late \ {content}
  /\ UNCHANGED <<callVars, bus, workVars, dbVars>>
-----------------------------------------------------------------------------
(* The consumer of the shard and ingest.ProcessBatch.                       *)

\* Mutant: the lock is the session's and outlives the transaction
ReleaseKeepingLock(w) ==
  /\ worker' = [worker EXCEPT ![w] = "idle"]
  /\ msg' = [msg EXCEPT ![w] = NoMsg]
  /\ pos' = [pos EXCEPT ![w] = 0]
  /\ mine' = [mine EXCEPT ![w] = {}]
  /\ UNCHANGED view

Release(w) ==
  /\ worker' = [worker EXCEPT ![w] = "idle"]
  /\ msg' = [msg EXCEPT ![w] = NoMsg]
  /\ pos' = [pos EXCEPT ![w] = 0]
  /\ mine' = [mine EXCEPT ![w] = {}]
  /\ view' = [view EXCEPT ![w] = Unread]

\* The oldest message of a shard; again when it was not acknowledged within
\* AckWait
Deliver(w, k) ==
  /\ worker[w] = "idle"
  /\ \A j \in 1..k - 1 : bus[j].content.shard # bus[k].content.shard
  /\ worker' = [worker EXCEPT ![w] = "open"]
  /\ msg' = [msg EXCEPT ![w] = bus[k]]
  /\ UNCHANGED <<callVars, busVars, pos, mine, view, dbVars>>

Others(w) == Worker \ {w}
EventsAt(w) == msg[w].content.events
ShardAt(w) == msg[w].content.shard
Current(w) == EventsAt(w)[pos[w] + 1]
More(w) == worker[w] = "open" /\ pos[w] < Len(EventsAt(w))

Advance(w) == pos' = [pos EXCEPT ![w] = @ + 1]

\* An insert waits for a transaction that inserted the same event
NotInserting(w, e) == \A v \in Others(w) : e \notin mine[v]

\* ON CONFLICT DO NOTHING, and nothing else is done for the event
SkipDuplicate(w) ==
  /\ More(w)
  /\ Current(w) \in stored \ mine[w]
  /\ Advance(w)
  /\ UNCHANGED <<callVars, busVars, worker, msg, mine, view, dbVars>>

\* Mutant: detects and alerts on an event whose row was there already
InsertAny(w) ==
  LET e == Current(w) IN
  /\ More(w)
  /\ NotInserting(w, e)
  /\ e \notin mine[w]
  /\ mine' = [mine EXCEPT ![w] = @ \union {e}]
  /\ IF e \in Hit THEN UNCHANGED pos ELSE Advance(w)
  /\ UNCHANGED <<callVars, busVars, worker, msg, view, dbVars>>

\* Processor.store of an event that is new; a hit goes on to its alert
InsertEvent(w) ==
  LET e == Current(w) IN
  /\ More(w)
  /\ NotInserting(w, e)
  /\ e \notin stored \union mine[w]
  /\ mine' = [mine EXCEPT ![w] = @ \union {e}]
  /\ IF e \in Hit THEN UNCHANGED pos ELSE Advance(w)
  /\ UNCHANGED <<callVars, busVars, worker, msg, view, dbVars>>

\* Mutant: an event with the alert's own time is not in its window
CountedLater(list, e) ==
  LET n == Len(list)
      t == Ts[e]
  IN IF n > 0 /\ list[n].first < t /\ t < list[n].first + Window
     THEN [list EXCEPT ![n].count = @ + 1, ![n].last = t]
     ELSE Append(list, [first |-> t, last |-> t, count |-> 1])

\* The fingerprint's last alert counts the event when that lies in its window
Counted(list, e) ==
  LET n == Len(list)
      t == Ts[e]
  IN IF n > 0 /\ list[n].first <= t /\ t < list[n].first + Window
     THEN [list EXCEPT ![n].count = @ + 1,
                       ![n].last  = IF @ < t THEN t ELSE @]
     ELSE Append(list, [first |-> t, last |-> t, count |-> 1])

\* pg_advisory_xact_lock on the fingerprint, held to the transaction's end
Locked(w) == \A v \in Others(w) : view[v] = Unread \/ ShardAt(v) # ShardAt(w)

Alerts(w) == IF view[w] = Unread THEN alerts[ShardAt(w)] ELSE view[w]

\* upsertAlert
UpsertAlert(w) ==
  /\ More(w)
  /\ Current(w) \in mine[w]
  /\ Locked(w)
  /\ view' = [view EXCEPT ![w] = Counted(Alerts(w), Current(w))]
  /\ Advance(w)
  /\ UNCHANGED <<callVars, busVars, worker, msg, mine, dbVars>>

Finished(w) == worker[w] = "open" /\ pos[w] = Len(EventsAt(w))

\* Mutant: commits the events handled so far
CommitPart(w) ==
  /\ worker[w] = "open"
  /\ pos[w] > 0
  /\ stored' = stored \union mine[w]
  /\ alerts' = [alerts EXCEPT ![ShardAt(w)] = Alerts(w)]
  /\ worker' = [worker EXCEPT ![w] = "done"]
  /\ mine' = [mine EXCEPT ![w] = {}]
  /\ view' = [view EXCEPT ![w] = Unread]
  /\ UNCHANGED <<callVars, busVars, msg, pos>>

Commit(w) ==
  /\ Finished(w)
  /\ stored' = stored \union mine[w]
  /\ alerts' = [alerts EXCEPT ![ShardAt(w)] = Alerts(w)]
  /\ worker' = [worker EXCEPT ![w] = "done"]
  /\ mine' = [mine EXCEPT ![w] = {}]
  /\ view' = [view EXCEPT ![w] = Unread]
  /\ UNCHANGED <<callVars, busVars, msg, pos>>

\* An error, the 30 seconds are over, the database or the node went away:
\* the transaction is rolled back and the message comes again
Rollback(w) ==
  /\ worker[w] = "open"
  /\ Release(w)
  /\ UNCHANGED <<callVars, busVars, dbVars>>

Ack(w) ==
  /\ worker[w] = "done"
  /\ \/ \E k \in DOMAIN bus : bus[k].id = msg[w].id /\ bus' = Seqs!RemoveAt(bus, k)
     \/ (\A k \in DOMAIN bus : bus[k].id # msg[w].id) /\ UNCHANGED bus
  /\ Release(w)
  /\ UNCHANGED <<callVars, late, dbVars>>

\* The acknowledgement is lost, or the commit reported an error
AckLost(w) ==
  /\ worker[w] = "done"
  /\ Release(w)
  /\ UNCHANGED <<callVars, busVars, dbVars>>
=============================================================================

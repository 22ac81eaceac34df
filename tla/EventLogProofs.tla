--------------------------- MODULE EventLogProofs ---------------------------
(***************************************************************************)
(* The proof that EventPipeline implements EventLog, as long as the        *)
(* look-up of the asset does not fail, and that the alerts keep the        *)
(* windows of a fingerprint apart.                                         *)
(*                                                                         *)
(* The argument: a collected event is Take, an append Accept, a commit     *)
(* StoreAll; every other step leaves accepted, stored and the counts alone *)
(* and brings no event back (Held' is within Held), so it is Lose, of      *)
(* nothing accepted, as Kept holds after it, or nothing at all.  The       *)
(* invariants of the other proofs give the guards of the abstract steps.   *)
(*                                                                         *)
(* For the windows: when the disk does not fail, what left the batch is    *)
(* accepted (PassedStays); so when a worker comes to an event, none that   *)
(* is stored or that it handled is later (NextIsLater).  With times that   *)
(* do not go back each new row then begins when the windows of those       *)
(* before it are over (RowsOK).                                            *)
(***************************************************************************)
EXTENDS EventCountProofs

USE EventsAssumption, SpoolAssumption, IntakeAssumption, PipelineAssumption
    DEF collectVars, diskVars, uploadVars, faultVars, SeqNos, None,
        callVars, busVars, workVars, dbVars, intakeVars

\* The parts of Held: the batch, and what the collector passed on
FileHeld == OnDisk(files) \union OnDisk(durable) \union EventsOf(load)
CallHeld == UNION {Unsent(i) : i \in Call}
LateHeld == UNION {EventsOf(c.events) : c \in late}
WorkHeld == UNION {EventsOf(EventsAt(w)) : w \in Worker}
Passed   == FileHeld \union CallHeld \union LateHeld \union WorkHeld \union Confirmed

LEMMA HeldIs == Held = EventsOf(batch) \union Passed
BY Zenon DEF Held, Passed, FileHeld, CallHeld, LateHeld, WorkHeld, Confirmed, Unsent

LEMMA HeldPrimedIs == Held' = EventsOf(batch') \union Passed'
BY Zenon DEF Held, Passed, FileHeld, CallHeld, LateHeld, WorkHeld, Confirmed, Unsent

LEMMA CallHeldWithin ==
  ASSUME NEW i \in Call, \A j \in Call \ {i} : UNCHANGED <<todo[j], queued[j]>>,
         Unsent(i)' \subseteq CallHeld \union FileHeld
  PROVE  CallHeld' \subseteq CallHeld \union FileHeld
<1>1. \A j \in Call \ {i} : Unsent(j)' = Unsent(j)
  BY DEF Unsent
<1>2. \A j \in Call : Unsent(j)' \subseteq CallHeld \union FileHeld
  BY <1>1 DEF CallHeld
<1> QED
  BY <1>2 DEF CallHeld

\* The stream gets no event but those of the message
LEMMA StoreWithin ==
  ASSUME BusTypes, NEW content \in Content, Store(content), UNCHANGED stored
  PROVE  Confirmed' \subseteq Confirmed \union EventsOf(content.events)
<1>1. CASE bus' = bus
  BY <1>1 DEF Confirmed, Published
<1>2. ASSUME NEW id \in MsgId \ InUse,
             [id |-> id, content |-> content] \in Message,
             bus' = Append(bus, [id |-> id, content |-> content])
      PROVE  Confirmed' \subseteq Confirmed \union EventsOf(content.events)
  <2>1. /\ Len(bus) \in Nat /\ DOMAIN bus = 1..Len(bus) /\ DOMAIN bus' = 1..Len(bus) + 1
        /\ \A k \in DOMAIN bus : bus'[k] = bus[k]
        /\ bus'[Len(bus) + 1] = [id |-> id, content |-> content]
    BY <1>2 DEF BusTypes
  <2>2. \A k \in DOMAIN bus' : \/ k \in DOMAIN bus
                               \/ bus'[k].content = content
    BY <2>1
  <2>3. Published' \subseteq Published \union EventsOf(content.events)
    BY <2>1, <2>2 DEF Published
  <2> QED
    BY <2>3 DEF Confirmed
<1> QED
  BY <1>1, <1>2, StoreFacts
-----------------------------------------------------------------------------
(* No step but Gather brings an event in.                                   *)

\* The agent's own places
LEMMA AgentDiskWithin ==
  ASSUME TypeInv, AgentStep, ~Gather
  PROVE  /\ EventsOf(batch') \subseteq EventsOf(batch)
         /\ FileHeld' \subseteq FileHeld \union EventsOf(batch)
         /\ ~(Persist \/ PersistRefused \/ PersistFails) => FileHeld' \subseteq FileHeld
         /\ UNCHANGED <<files, durable>> => FileHeld' \subseteq FileHeld
<1>0. SpoolInv
  BY DEF TypeInv
<1>1. ASSUME AppendBatch \/ AppendRefused \/ AppendFails
      PROVE  /\ EventsOf(batch') \subseteq EventsOf(batch)
             /\ FileHeld' \subseteq FileHeld \union EventsOf(batch)
             /\ UNCHANGED <<files, durable>> => FileHeld' \subseteq FileHeld
  <2> DEFINE dir == With(files, next, batch)
  <2>0. batch # <<>>
    BY <1>1 DEF AppendBatch, AppendRefused, AppendFails
  <2>1. /\ DOMAIN dir = DOMAIN files \union {next}
        /\ \A s \in DOMAIN files : dir[s] = files[s]
        /\ dir[next] = batch
    BY <1>0, <2>0, WithFacts
  <2>2. /\ files' = files \/ files' = dir
        /\ durable' = durable \/ durable' = files'
        /\ batch' = batch \/ batch' = <<>>
        /\ load' = load
    BY <1>1 DEF AppendBatch, AppendRefused, AppendFails, dir
  <2> HIDE DEF dir
  <2>3. OnDisk(dir) \subseteq OnDisk(files) \union EventsOf(batch)
    BY <2>1 DEF OnDisk
  <2>4. OnDisk(files') \subseteq FileHeld \union EventsOf(batch)
    BY <2>2, <2>3 DEF FileHeld
  <2>5. OnDisk(durable') \subseteq FileHeld \union EventsOf(batch)
    BY <2>2, <2>4 DEF FileHeld
  <2>6. EventsOf(batch') \subseteq EventsOf(batch) /\ EventsOf(load') \subseteq FileHeld
    BY <2>2, EmptyEvents DEF FileHeld
  <2>7. UNCHANGED <<files, durable>> => FileHeld' = FileHeld
    BY <2>2 DEF FileHeld
  <2> QED
    BY <2>4, <2>5, <2>6, <2>7 DEF FileHeld
<1>2. ASSUME Fetch PROVE EventsOf(batch') \subseteq EventsOf(batch) /\ FileHeld' \subseteq FileHeld
  <2>1. PICK s \in DOMAIN files : load' = files[s] /\ UNCHANGED <<batch, files, durable>>
    BY <1>2 DEF Fetch, TakeFront
  <2> QED
    BY <2>1 DEF FileHeld, OnDisk
<1>3. ASSUME UNCHANGED batch, DOMAIN files' \subseteq DOMAIN files,
             \A t \in DOMAIN files' : files'[t] = files[t],
             durable' = files' \/ durable' = durable,
             load' = load \/ load' = <<>>
      PROVE  EventsOf(batch') \subseteq EventsOf(batch) /\ FileHeld' \subseteq FileHeld
  <2>1. OnDisk(files') \subseteq OnDisk(files)
    BY <1>3 DEF OnDisk
  <2>2. OnDisk(durable') \subseteq FileHeld
    BY <1>3, <2>1 DEF FileHeld
  <2>3. EventsOf(load') \subseteq FileHeld
    BY <1>3, EmptyEvents DEF FileHeld
  <2> QED
    BY <1>3, <2>1, <2>2, <2>3 DEF FileHeld
<1>4. ASSUME Removed PROVE EventsOf(batch') \subseteq EventsOf(batch) /\ FileHeld' \subseteq FileHeld
  <2>1. PICK s : AcknowledgeFront(s) /\ UNCHANGED batch /\ (load' = load \/ load' = <<>>)
    BY <1>4 DEF Removed, AcknowledgeBatch, AcknowledgeOrphan, Idle
  <2> QED
    BY <1>3, <2>1, AcknowledgeFrontFacts
<1>5. ASSUME UploadStops \/ TakeAck \/ \E i \in Call : SendChunk(i)
      PROVE  EventsOf(batch') \subseteq EventsOf(batch) /\ FileHeld' \subseteq FileHeld
  BY <1>3, <1>5 DEF UploadStops, StopUpload, Idle, TakeAck, ChunkAcknowledged, SendChunk, spoolVars
<1>6. ASSUME AgentRestarts PROVE EventsOf(batch') \subseteq EventsOf(batch) /\ FileHeld' \subseteq FileHeld
  <2>1. /\ DOMAIN files' \subseteq DOMAIN files \union DOMAIN durable
        /\ \A s \in DOMAIN files' : files'[s] = IF s \in DOMAIN files THEN files[s] ELSE durable[s]
        /\ durable' = files' /\ batch' = <<>> /\ load' = <<>>
    BY <1>6, ReopenFacts DEF AgentRestarts, Reopen, Idle, TypeInv
  <2>2. OnDisk(files') \subseteq OnDisk(files) \union OnDisk(durable)
    BY <2>1 DEF OnDisk
  <2> QED
    BY <2>1, <2>2, EmptyEvents DEF FileHeld
<1> QED
  BY <1>1, <1>2, <1>4, <1>5, <1>6 DEF AgentStep, Persist, PersistRefused, PersistFails

LEMMA AgentCallsWithin ==
  ASSUME TypeInv, AgentStep PROVE CallHeld' \subseteq CallHeld \union FileHeld
<1>0. CallTypes /\ SpoolInv
  BY DEF TypeInv
<1>1. CASE UNCHANGED <<todo, queued>>
  BY <1>1 DEF CallHeld, Unsent
<1>2. ASSUME NEW i \in Call, Close(i) PROVE CallHeld' \subseteq CallHeld \union FileHeld
  <2>1. /\ todo'[i] = <<>> /\ queued'[i] = <<>>
        /\ \A j \in Call \ {i} : UNCHANGED <<todo[j], queued[j]>>
    BY <1>0, <1>2, CloseFacts
  <2>2. Unsent(i)' = {}
    BY <2>1, EmptyEvents DEF Unsent
  <2> QED
    BY <2>1, <2>2, CallHeldWithin
<1>3. ASSUME NEW i \in Call, SendChunk(i) PROVE CallHeld' \subseteq CallHeld \union FileHeld
  <2>1. /\ todo'[i] = Chunk /\ queued' = queued
        /\ \A j \in Call \ {i} : UNCHANGED <<todo[j], queued[j]>>
    BY <1>0, <1>3 DEF SendChunk, Report, CallTypes
  <2>2. EventsOf(Chunk) \subseteq EventsOf(load)
    <3>1. load \in Seq(Event) /\ sent \in 0..Len(load)
      BY <1>0 DEF SpoolInv, SpoolTypes
    <3>2. /\ sent + Len(Chunk) \in 0..Len(load) /\ DOMAIN Chunk = 1..Len(Chunk)
          /\ \A k \in 1..Len(Chunk) : Chunk[k] = load[sent + k]
          /\ Chunk \in Seq(Event)
      BY <3>1, ChunkFacts
    <3>3. \A k \in 1..Len(Chunk) : sent + k \in 1..Len(load)
      BY <3>1, <3>2
    <3>4. DOMAIN load = 1..Len(load)
      BY <3>1
    <3> QED
      BY <3>2, <3>3, <3>4 DEF EventsOf
  <2>3. Unsent(i)' \subseteq CallHeld \union FileHeld
    BY <2>1, <2>2 DEF Unsent, CallHeld, FileHeld
  <2> QED
    BY <2>1, <2>3, CallHeldWithin
<1>4. CASE UploadStops \/ AgentRestarts
  <2>1. CASE UNCHANGED intakeVars
    BY <1>1, <2>1
  <2>2. CASE link # NoCall /\ Close(link)
    BY <1>2, <2>2 DEF TypeInv, LinkTypes
  <2> QED
    BY <1>4, <2>1, <2>2 DEF UploadStops, AgentRestarts, Hangup
<1>5. CASE TakeAck
  BY <1>2, <1>5 DEF TakeAck, TypeInv, LinkTypes
<1> QED
  BY <1>1, <1>3, <1>4, <1>5 DEF AgentStep, Gather, Persist, PersistRefused, PersistFails, Fetch, Removed

\* What an append writes the batch had
LEMMA AgentWithin ==
  ASSUME TypeInv, AgentStep, ~Gather
  PROVE  /\ Held' \subseteq Held
         /\ Passed' \subseteq Passed \union EventsOf(batch)
         /\ ~(Persist \/ PersistRefused \/ PersistFails) => Passed' \subseteq Passed
         /\ UNCHANGED <<files, durable>> => Passed' \subseteq Passed
<1>1. UNCHANGED <<late, workVars>> /\ Confirmed' = Confirmed
  BY AgentLeavesServer
<1>2. LateHeld' = LateHeld /\ WorkHeld' = WorkHeld
  BY <1>1 DEF LateHeld, WorkHeld, EventsAt
<1>3. /\ EventsOf(batch') \subseteq EventsOf(batch)
      /\ FileHeld' \subseteq FileHeld \union EventsOf(batch)
      /\ ~(Persist \/ PersistRefused \/ PersistFails) => FileHeld' \subseteq FileHeld
      /\ UNCHANGED <<files, durable>> => FileHeld' \subseteq FileHeld
  BY AgentDiskWithin
<1>4. CallHeld' \subseteq CallHeld \union FileHeld
  BY AgentCallsWithin
<1>5. /\ Passed' \subseteq Passed \union EventsOf(batch)
      /\ ~(Persist \/ PersistRefused \/ PersistFails) => Passed' \subseteq Passed
      /\ UNCHANGED <<files, durable>> => Passed' \subseteq Passed
  BY <1>1, <1>2, <1>3, <1>4 DEF Passed
<1> QED
  BY <1>3, <1>5, HeldIs, HeldPrimedIs

\* A call's places: what it hands on it had
LEMMA FirstWithin ==
  ASSUME CallTypes, NEW i \in Call, NEW content \in FirstOf(i)
  PROVE  content \in Content /\ EventsOf(content.events) \subseteq CallHeld
<1>1. /\ content \in Content
      /\ Len(content.events) \in 1..Len(queued[i])
      /\ DOMAIN content.events = 1..Len(content.events)
      /\ \A k \in 1..Len(content.events) : content.events[k] = queued[i][k].event
  BY FirstOfFacts
<1>2. DOMAIN queued[i] = 1..Len(queued[i]) /\ Len(queued[i]) \in Nat
  BY DEF CallTypes
<1>3. \A k \in 1..Len(content.events) : k \in DOMAIN queued[i]
  BY <1>1, <1>2
<1>4. EventsOf(content.events) \subseteq Unsent(i)
  BY <1>1, <1>3 DEF EventsOf, Unsent
<1> QED
  BY <1>1, <1>4 DEF CallHeld

LEMMA CallWithin ==
  ASSUME TypeInv, NEW i \in Call,
         Handle(i) \/ Flush(i) \/ SendAck(i) \/ FlushFails(i) \/ CallEnds(i)
  PROVE  /\ CallHeld' \subseteq CallHeld \union FileHeld
         /\ LateHeld' \subseteq LateHeld \union CallHeld
         /\ Confirmed' \subseteq Confirmed \union CallHeld
<1>0. CallTypes /\ BusTypes
  BY DEF TypeInv
<1>1. CASE Handle(i)
  <2>1. PICK shard \in Shard :
          queued' = [queued EXCEPT ![i] = Append(@, [event |-> Head(todo[i]), shard |-> shard])]
    BY <1>1 DEF Handle, Shard
  <2>2. /\ todo' = [todo EXCEPT ![i] = Tail(@)] /\ todo[i] # <<>>
        /\ UNCHANGED <<busVars, dbVars>>
    BY <1>1 DEF Handle
  <2>3. LateHeld' = LateHeld /\ Confirmed' = Confirmed
    BY <2>2 DEF LateHeld, Confirmed, Published
  <2>4. /\ EventsOf(todo[i]) = {Head(todo[i])} \union EventsOf(Tail(todo[i]))
        /\ queued[i] \in Seq(Envelope)
    BY <1>0, <2>2, TailEvents DEF CallTypes
  <2> DEFINE q == Append(queued[i], [event |-> Head(todo[i]), shard |-> shard])
  <2>5. /\ DOMAIN q = 1..Len(queued[i]) + 1 /\ Len(queued[i]) \in Nat
        /\ DOMAIN queued[i] = 1..Len(queued[i])
        /\ \A k \in 1..Len(queued[i]) : q[k] = queued[i][k]
        /\ q[Len(queued[i]) + 1].event = Head(todo[i])
    BY <2>4
  <2>6. queued'[i] = q /\ todo'[i] = Tail(todo[i])
    BY <1>0, <2>1, <2>2 DEF CallTypes
  <2> HIDE DEF q
  <2>7. \A k \in DOMAIN q : k \in DOMAIN queued[i] \/ k = Len(queued[i]) + 1
    BY <2>5
  <2>8. Unsent(i)' \subseteq Unsent(i)
    BY <2>4, <2>5, <2>6, <2>7 DEF Unsent
  <2>9. \A j \in Call \ {i} : UNCHANGED <<todo[j], queued[j]>>
    BY <1>0, <2>1, <2>2 DEF CallTypes
  <2>10. Unsent(i)' \subseteq CallHeld \union FileHeld
    BY <2>8 DEF CallHeld
  <2> QED
    BY <2>3, <2>9, <2>10, CallHeldWithin
<1>2. CASE Flush(i)
  <2>1. PICK content \in FirstOf(i) :
          /\ Store(content)
          /\ queued' = [queued EXCEPT ![i] = SubSeq(@, Len(content.events) + 1, Len(@))]
          /\ UNCHANGED <<todo, late, stored>>
    BY <1>2 DEF Flush
  <2> DEFINE n == Len(content.events)
             m == Len(queued[i])
  <2>2. /\ content \in Content /\ n \in 1..m /\ EventsOf(content.events) \subseteq CallHeld
    BY <1>0, FirstOfFacts, FirstWithin
  <2>3. Confirmed' \subseteq Confirmed \union CallHeld
    BY <1>0, <2>1, <2>2, StoreWithin
  <2>4. queued[i] \in Seq(Envelope) /\ m \in Nat /\ DOMAIN queued[i] = 1..m
    BY <1>0 DEF CallTypes
  <2>5. queued'[i] = SubSeq(queued[i], n + 1, m) /\ todo'[i] = todo[i]
    BY <1>0, <2>1 DEF CallTypes
  <2> HIDE DEF n, m
  <2>6. /\ DOMAIN queued'[i] = 1..m - n
        /\ \A k \in 1..m - n : queued'[i][k] = queued[i][n + k]
    BY <2>2, <2>4, <2>5, SubSeqFacts DEF m
  <2>7. \A k \in 1..m - n : n + k \in 1..m
    BY <2>2, <2>4
  <2>8. Unsent(i)' \subseteq Unsent(i)
    BY <2>4, <2>5, <2>6, <2>7 DEF Unsent
  <2>9. \A j \in Call \ {i} : UNCHANGED <<todo[j], queued[j]>>
    BY <1>0, <2>1 DEF CallTypes
  <2>10. Unsent(i)' \subseteq CallHeld \union FileHeld
    BY <2>8 DEF CallHeld
  <2> QED
    BY <2>1, <2>3, <2>9, <2>10, CallHeldWithin DEF LateHeld
<1>3. CASE SendAck(i)
  BY <1>3 DEF SendAck, CallHeld, LateHeld, Confirmed, Published, Unsent
<1>4. CASE FlushFails(i) \/ CallEnds(i)
  <2>1. /\ todo'[i] = <<>> /\ queued'[i] = <<>>
        /\ \A j \in Call \ {i} : UNCHANGED <<todo[j], queued[j]>>
    BY <1>0, <1>4, CloseFacts DEF FlushFails, CallEnds
  <2>2. Unsent(i)' = {}
    BY <2>1, EmptyEvents DEF Unsent
  <2>3. CallHeld' \subseteq CallHeld \union FileHeld
    BY <2>1, <2>2, CallHeldWithin
  <2>4. Confirmed' = Confirmed
    BY <1>4 DEF FlushFails, CallEnds, Confirmed, Published
  <2>5. LateHeld' \subseteq LateHeld \union CallHeld
    <3>1. CASE late' = late
      BY <3>1 DEF LateHeld
    <3>2. ASSUME NEW content \in FirstOf(i), late' = late \union {content}
          PROVE  LateHeld' \subseteq LateHeld \union CallHeld
      BY <1>0, <3>2, FirstWithin DEF LateHeld
    <3> QED
      BY <1>4, <3>1, <3>2 DEF FlushFails, CallEnds
  <2> QED
    BY <2>3, <2>4, <2>5
<1> QED
  BY <1>1, <1>2, <1>3, <1>4

LEMMA LateWithin ==
  ASSUME TypeInv, LateArrives
  PROVE  LateHeld' \subseteq LateHeld /\ Confirmed' \subseteq Confirmed \union LateHeld
<1>1. PICK content \in late : LateStored(content) \/ LateLost(content)
  BY DEF LateArrives
<1>2. late' \subseteq late /\ UNCHANGED stored
  BY <1>1 DEF LateStored, LateLost
<1>3. LateHeld' \subseteq LateHeld /\ EventsOf(content.events) \subseteq LateHeld
  BY <1>1, <1>2 DEF LateHeld
<1>4. CASE LateStored(content)
  <2>1. Store(content) /\ BusTypes /\ content \in Content
    BY <1>4 DEF LateStored, TypeInv, BusTypes
  <2>2. Confirmed' \subseteq Confirmed \union EventsOf(content.events)
    BY <1>2, <2>1, StoreWithin
  <2> QED
    BY <1>3, <2>2
<1>5. CASE LateLost(content)
  BY <1>2, <1>3, <1>5 DEF LateLost, Confirmed, Published
<1> QED
  BY <1>1, <1>4, <1>5

\* A consumer works on what the stream holds; a commit stores some of that
LEMMA WorkWithin ==
  ASSUME TypeInv, CountInv, NEW w \in Worker, Work(w) \/ WorkFails(w)
  PROVE  /\ WorkHeld' \subseteq WorkHeld \union Confirmed
         /\ Confirmed' \subseteq WorkHeld \union Confirmed
         /\ Commit(w) => WorkHeld' = WorkHeld /\ Confirmed \subseteq Confirmed'
<1>0. BusTypes /\ WorkTypes /\ MineOK(w)
  BY DEF TypeInv, CountInv
<1>1. \A v \in Worker : \/ msg'[v] = msg[v] \/ msg'[v] = NoMsg
                        \/ \E k \in DOMAIN bus : msg'[v] = bus[k]
  BY <1>0 DEF Work, WorkFails, Deliver, SkipDuplicate, InsertEvent, UpsertAlert, Commit, Ack,
              Rollback, AckLost, Release, WorkTypes
<1>2. \A v \in Worker : EventsOf(EventsAt(v)') \subseteq WorkHeld \union Confirmed
  <2> SUFFICES ASSUME NEW v \in Worker
               PROVE  EventsOf(EventsAt(v)') \subseteq WorkHeld \union Confirmed
    OBVIOUS
  <2>1. CASE msg'[v] = msg[v]
    BY <2>1 DEF EventsAt, WorkHeld
  <2>2. CASE msg'[v] = NoMsg
    BY <2>2, EmptyEvents DEF EventsAt, NoMsg
  <2>3. ASSUME NEW k \in DOMAIN bus, msg'[v] = bus[k]
        PROVE  EventsOf(EventsAt(v)') \subseteq WorkHeld \union Confirmed
    BY <2>3 DEF EventsAt, Confirmed, Published
  <2> QED
    BY <1>1, <2>1, <2>2, <2>3
<1>3. WorkHeld' \subseteq WorkHeld \union Confirmed
  BY <1>2 DEF WorkHeld
<1>4. \A j \in DOMAIN bus' : \E k \in DOMAIN bus : bus'[j] = bus[k]
  <2>1. CASE Ack(w)
    <3>1. CASE UNCHANGED bus
      BY <3>1
    <3>2. ASSUME NEW k \in DOMAIN bus, Len(bus) \in Nat, DOMAIN bus = 1..Len(bus),
                 DOMAIN bus' = 1..Len(bus) - 1,
                 \A j \in 1..Len(bus) - 1 : bus'[j] = IF j < k THEN bus[j] ELSE bus[j + 1],
                 NEW j \in DOMAIN bus'
          PROVE  \E i \in DOMAIN bus : bus'[j] = bus[i]
      <4>1. j \in DOMAIN bus /\ j + 1 \in DOMAIN bus
        BY <3>2
      <4> QED
        BY <3>2, <4>1
    <3> QED
      BY <1>0, <2>1, <3>1, <3>2, AckFacts
  <2>2. CASE bus' = bus
    BY <2>2
  <2> QED
    BY <2>1, <2>2 DEF Work, WorkFails, Deliver, SkipDuplicate, InsertEvent, UpsertAlert, Commit,
                      Rollback, AckLost
<1>5. Published' \subseteq Published
  BY <1>4 DEF Published
<1>6. mine[w] \subseteq EventsOf(EventsAt(w))
  BY <1>0 DEF MineOK, EventsOf
<1>7. stored' = stored \/ stored' = stored \union mine[w]
  BY DEF Work, WorkFails, Deliver, SkipDuplicate, InsertEvent, UpsertAlert, Commit, Ack,
         Rollback, AckLost
<1>8. Confirmed' \subseteq WorkHeld \union Confirmed
  BY <1>5, <1>6, <1>7 DEF Confirmed, WorkHeld
<1>9. ASSUME Commit(w) PROVE WorkHeld' = WorkHeld /\ Confirmed \subseteq Confirmed'
  BY <1>9 DEF Commit, WorkHeld, EventsAt, Confirmed, Published
<1> QED
  BY <1>3, <1>8, <1>9

LEMMA ServerWithin ==
  ASSUME TypeInv, CountInv, ServerStep
  PROVE  Passed' \subseteq Passed /\ Held' \subseteq Held /\ batch' = batch
<1>1. FileHeld' = FileHeld /\ batch' = batch
  BY DEF ServerStep, CallProceeds, CallBreaks, LateArrives, Work, WorkFails, spoolVars, FileHeld
<1>2. ASSUME NEW i \in Call, CallProceeds(i) \/ CallBreaks(i) PROVE Passed' \subseteq Passed
  <2>1. Handle(i) \/ Flush(i) \/ SendAck(i) \/ FlushFails(i) \/ CallEnds(i)
    BY <1>2 DEF CallProceeds, CallBreaks
  <2>2. UNCHANGED workVars
    BY <2>1 DEF Handle, Flush, SendAck, FlushFails, CallEnds
  <2>3. WorkHeld' = WorkHeld
    BY <2>2 DEF WorkHeld, EventsAt
  <2>4. /\ CallHeld' \subseteq CallHeld \union FileHeld
        /\ LateHeld' \subseteq LateHeld \union CallHeld
        /\ Confirmed' \subseteq Confirmed \union CallHeld
    BY <2>1, CallWithin
  <2> QED
    BY <1>1, <2>3, <2>4 DEF Passed
<1>3. ASSUME LateArrives PROVE Passed' \subseteq Passed
  <2>1. UNCHANGED <<callVars, workVars>>
    BY <1>3 DEF LateArrives, LateStored, LateLost
  <2>2. CallHeld' = CallHeld /\ WorkHeld' = WorkHeld
    BY <2>1 DEF CallHeld, Unsent, WorkHeld, EventsAt
  <2> QED
    BY <1>1, <1>3, <2>2, LateWithin DEF Passed
<1>4. ASSUME NEW w \in Worker, Work(w) \/ WorkFails(w) PROVE Passed' \subseteq Passed
  <2>1. UNCHANGED <<callVars, late>>
    BY <1>4 DEF Work, WorkFails, Deliver, SkipDuplicate, InsertEvent, UpsertAlert, Commit, Ack,
                Rollback, AckLost
  <2>2. CallHeld' = CallHeld /\ LateHeld' = LateHeld
    BY <2>1 DEF CallHeld, Unsent, LateHeld
  <2>3. /\ WorkHeld' \subseteq WorkHeld \union Confirmed
        /\ Confirmed' \subseteq WorkHeld \union Confirmed
    BY <1>4, WorkWithin
  <2> QED
    BY <1>1, <2>2, <2>3 DEF Passed
<1>5. Passed' \subseteq Passed
  BY <1>2, <1>3, <1>4 DEF ServerStep
<1> QED
  BY <1>1, <1>5, HeldIs, HeldPrimedIs

-----------------------------------------------------------------------------
(* The steps of EventLog.                                                   *)

LEMMA TakenType == ASSUME TypeInv PROVE taken \in Nat /\ taken <= MaxEvents
BY DEF TypeInv, SpoolInv, SpoolTypes

\* A collected event is in the batch
LEMMA GatherTakes ==
  ASSUME TypeInv, Gather PROVE Log!Take /\ Passed' = Passed
<1>1. /\ taken \in Nat /\ taken < MaxEvents /\ taken' = taken + 1 /\ batch \in Seq(Event)
      /\ batch' = Append(batch, taken + 1)
      /\ UNCHANGED <<accepted, files, durable, load, intakeVars>>
  BY DEF Gather, Collect, TypeInv, SpoolInv, SpoolTypes
<1>2. EventsOf(batch') = EventsOf(batch) \union {taken + 1}
  <2>1. taken + 1 \in Event
    BY <1>1 DEF Event
  <2> QED
    BY <1>1, <2>1, AppendEvents
<1>3. CallHeld' = CallHeld /\ LateHeld' = LateHeld /\ WorkHeld' = WorkHeld /\ Confirmed' = Confirmed
  BY <1>1 DEF CallHeld, LateHeld, WorkHeld, EventsAt, Confirmed, Published, Unsent
<1>4. Passed' = Passed
  BY <1>1, <1>3 DEF Passed, FileHeld
<1>5. Held' = Held \union {taken + 1}
  BY <1>2, <1>4, HeldIs, HeldPrimedIs
<1>6. 1..taken + 1 = (1..taken) \union {taken + 1} /\ taken + 1 \notin 1..taken
  BY <1>1
<1>7. 1..taken' \ Held' = 1..taken \ Held
  BY <1>1, <1>5, <1>6
<1>8. Counts' = Counts
  BY <1>1 DEF Counts
<1> QED
  BY <1>1, <1>4, <1>7, <1>8 DEF Log!Take

\* An append leaves the batch in a file; a directory that is behind loses what
\* is confirmed
LEMMA PersistHolds ==
  ASSUME TypeInv, KeptInv, RiseInv, Persist PROVE Held' = Held
<1> DEFINE dir == With(files, next, batch)
<1>0. batch # <<>> /\ SpoolInv
  BY DEF Persist, AppendBatch, TypeInv
<1>1. /\ DOMAIN dir = DOMAIN files \union {next}
      /\ \A s \in DOMAIN files : dir[s] = files[s]
      /\ dir[next] = batch
  BY <1>0, WithFacts
<1>2. /\ files' = dir /\ durable' = dir /\ load' = load
      /\ UNCHANGED <<intakeVars>>
  BY DEF Persist, AppendBatch, dir
<1> HIDE DEF dir
<1>3. CallHeld' = CallHeld /\ LateHeld' = LateHeld /\ WorkHeld' = WorkHeld /\ Confirmed' = Confirmed
  BY <1>2 DEF CallHeld, LateHeld, WorkHeld, EventsAt, Confirmed, Published, Unsent
<1>4. OnDisk(files) \subseteq OnDisk(dir) /\ EventsOf(batch) \subseteq OnDisk(dir)
  BY <1>1 DEF OnDisk
<1>5. OnDisk(durable) \subseteq OnDisk(dir) \union Confirmed
  <2>1. \A s \in DOMAIN durable \ DOMAIN files : EventsOf(durable[s]) \subseteq Confirmed
    BY DEF RiseInv, RemovedConfirmed
  <2>2. \A s \in DOMAIN durable \intersect DOMAIN files : durable[s] = files[s]
    BY DEF KeptInv, DiskInv, Agree
  <2>3. \A s \in DOMAIN durable : EventsOf(durable[s]) \subseteq OnDisk(files) \union Confirmed
    BY <2>1, <2>2 DEF OnDisk
  <2> QED
    BY <1>4, <2>3 DEF OnDisk
<1>6. Held \subseteq Held'
  <2>1. EventsOf(batch) \union FileHeld \subseteq FileHeld' \union Confirmed'
    BY <1>2, <1>3, <1>4, <1>5 DEF FileHeld
  <2>2. EventsOf(batch) \union Passed \subseteq Passed'
    BY <1>3, <2>1 DEF Passed
  <2> QED
    BY <2>2, HeldIs, HeldPrimedIs
<1>7. Held' \subseteq Held
  <2>1. AgentStep
    BY DEF AgentStep
  <2>2. ~Gather
    BY TakenType DEF Gather, Collect, Persist, AppendBatch
  <2> QED
    BY <2>1, <2>2, AgentWithin
<1> QED
  BY <1>6, <1>7

LEMMA PersistAccepts ==
  ASSUME TypeInv, KeptInv, RiseInv, Persist PROVE \E events \in SUBSET Event : Log!Accept(events)
<1> DEFINE events == EventsOf(batch) \ accepted
<1>1. /\ accepted' = accepted \union EventsOf(batch) /\ taken' = taken
      /\ UNCHANGED <<stored, alerts>>
  BY DEF Persist, AppendBatch
<1>2. batch \in Seq(Event) /\ taken \in Nat /\ Rising(batch, taken)
  BY DEF TypeInv, SpoolInv, SpoolTypes, RiseInv, DirsInOrder
<1>3. \A k \in DOMAIN batch : batch[k] \in 1..taken /\ batch[k] \in Event
  <2> SUFFICES ASSUME NEW k \in DOMAIN batch PROVE batch[k] \in 1..taken /\ batch[k] \in Event
    OBVIOUS
  <2>1. batch[k] \in Event /\ batch[k] \in Nat /\ batch[k] <= taken
    BY <1>2, Items DEF Rising
  <2> QED
    BY <1>2, <2>1
<1>4. EventsOf(batch) \subseteq 1..taken /\ EventsOf(batch) \subseteq Event
  BY <1>3 DEF EventsOf
<1>5. EventsOf(batch) \subseteq Held
  BY HeldIs
<1>6. Held' = Held
  BY PersistHolds
<1>7. Counts' = Counts
  BY <1>1 DEF Counts
<1>8. events \in SUBSET Event /\ events \subseteq 1..taken \ (accepted \union (1..taken \ Held))
  BY <1>4, <1>5
<1>9. accepted' = accepted \union events
  BY <1>1
<1> HIDE DEF events
<1> QED
  BY <1>1, <1>6, <1>7, <1>8, <1>9 DEF Log!Accept

LEMMA SameCardinality == \A S : Log!Cardinality(S) = Cardinality(S)
BY Zenon DEF Log!Cardinality, Cardinality

\* What stands before the events of a commit is stored, and they are new
LEMMA CommitStores ==
  ASSUME TypeInv, CountInv, RiseInv, StoredLed', NEW w \in Worker, Commit(w), Work(w)
  PROVE  \E events \in SUBSET Event : Log!StoreAll(events)
<1>0. WorkTypes /\ MineOK(w) /\ Rising(EventsAt(w), taken)
  BY DEF TypeInv, CountInv, RiseInv, WorkRises
<1>1. mine[w] \in SUBSET Event /\ mine[w] \intersect stored = {}
  BY <1>0 DEF WorkTypes, MineOK
<1>2. mine[w] \subseteq EventsOf(EventsAt(w))
  BY <1>0 DEF MineOK, EventsOf
<1>3. mine[w] \subseteq 1..taken
  <2>1. taken \in Nat /\ EventsAt(w) \in Seq(Event)
    BY <1>0, TakenType, AtFacts
  <2>2. \A k \in DOMAIN EventsAt(w) : EventsAt(w)[k] \in 1..taken
    <3> SUFFICES ASSUME NEW k \in DOMAIN EventsAt(w) PROVE EventsAt(w)[k] \in 1..taken
      OBVIOUS
    <3>1. EventsAt(w)[k] \in Event
      BY <2>1
    <3>2. EventsAt(w)[k] <= taken
      BY <1>0 DEF Rising
    <3> QED
      BY <2>1, <3>1, <3>2
  <2> QED
    BY <1>2, <2>2 DEF EventsOf
<1>4. mine[w] \subseteq Held
  BY <1>2, HeldIs DEF Passed, WorkHeld
<1>5. Held' = Held
  <2>1. UNCHANGED <<spoolVars, callVars, busVars>>
    BY DEF Work, Commit
  <2>2. /\ batch' = batch /\ FileHeld' = FileHeld
        /\ CallHeld' = CallHeld /\ LateHeld' = LateHeld
    BY <2>1 DEF FileHeld, CallHeld, LateHeld, Unsent, spoolVars
  <2>3. /\ WorkHeld' = WorkHeld /\ Confirmed \subseteq Confirmed'
        /\ Confirmed' \subseteq WorkHeld \union Confirmed
    BY WorkWithin
  <2>4. Passed' = Passed
    BY <2>2, <2>3 DEF Passed
  <2> QED
    BY <2>2, <2>4, HeldIs, HeldPrimedIs
<1>6. stored' = stored \union mine[w] /\ UNCHANGED <<taken, accepted>>
  BY DEF Work, Commit, spoolVars
<1>7. \A e \in mine[w], d \in accepted : d < e => d \in stored \union mine[w]
  <2>1. \A e \in stored' : \A d \in Alive' : d < e => d \in stored'
    BY DEF StoredLed
  <2>2. accepted \subseteq Alive'
    BY <1>6 DEF Alive
  <2> QED
    BY <1>6, <2>1, <2>2
<1>8. Counts' = Counts + Cardinality(mine[w] \intersect Hit)
  BY CommitCounts
<1>9. mine[w] \subseteq 1..taken \ ((1..taken \ Held) \union stored)
  BY <1>1, <1>3, <1>4
<1>10. 1..taken' \ Held' = 1..taken \ Held
  BY <1>5, <1>6
<1> DEFINE events == mine[w]
<1>11. /\ events \in SUBSET Event
       /\ events \subseteq 1..taken \ ((1..taken \ Held) \union stored)
       /\ \A e \in events, d \in accepted : d < e => d \in stored \union events
       /\ stored' = stored \union events /\ Counts' = Counts + Cardinality(events \intersect Hit)
  BY <1>1, <1>6, <1>7, <1>8, <1>9
<1> HIDE DEF events
<1>12. Log!StoreAll(events)
  BY <1>6, <1>10, <1>11, SameCardinality DEF Log!StoreAll
<1> QED
  BY <1>11, <1>12

\* Any other step loses nothing that was accepted, if anything
LEMMA OthersLose ==
  ASSUME TypeInv, Kept', Held' \subseteq Held, UNCHANGED <<taken, accepted, stored, alerts>>
  PROVE  \E events \in SUBSET Event : Log!Lose(events)
<1> DEFINE events == 1..taken \intersect (Held \ Held')
<1>1. Counts' = Counts
  BY DEF Counts
<1>2. events \in SUBSET Event
  BY TakenType DEF Event
<1>3. accepted \union stored \subseteq Held'
  <2>1. stored' \subseteq Passed' /\ Published' \subseteq Passed'
    BY DEF Passed, Confirmed
  <2>2. OnDisk(durable') \subseteq Passed'
    BY DEF Passed, FileHeld
  <2>3. accepted' \subseteq OnDisk(durable') \union Published' \union stored'
    BY DEF Kept
  <2> QED
    BY <2>1, <2>2, <2>3, HeldPrimedIs
<1>4. events \subseteq 1..taken \ (accepted \union stored)
  BY <1>3
<1>5. 1..taken' \ Held' = (1..taken \ Held) \union events
  OBVIOUS
<1> HIDE DEF events
<1> QED
  BY <1>1, <1>2, <1>4, <1>5 DEF Log!Lose

LEMMA LogStep ==
  ASSUME TypeInv, KeptInv, RiseInv, CountInv, Kept', StoredLed', Next PROVE Log!LogNext
<1>0. Event = Log!Event
  BY DEF Event, Log!Event
<1>1. ASSUME Held' \subseteq Held, UNCHANGED <<taken, accepted, stored, alerts>> PROVE Log!LogNext
  BY <1>0, <1>1, OthersLose DEF Log!LogNext
<1>2. CASE Gather
  BY <1>2, GatherTakes DEF Log!LogNext
<1>3. CASE Persist
  BY <1>0, <1>3, PersistAccepts DEF Log!LogNext
<1>4. ASSUME NEW w \in Worker, Work(w), Commit(w) PROVE Log!LogNext
  BY <1>0, <1>4, CommitStores DEF Log!LogNext
<1>5. CASE AgentStep /\ ~Gather /\ ~Persist
  <2>1. UNCHANGED <<stored, alerts>> /\ Held' \subseteq Held
    BY <1>5, AgentLeavesServer, AgentWithin
  <2>2. UNCHANGED <<taken, accepted>>
    BY <1>5 DEF AgentStep, PersistRefused, AppendRefused, PersistFails, AppendFails, Fetch, TakeFront,
                TakeAck, ChunkAcknowledged, Removed, AcknowledgeBatch, AcknowledgeOrphan,
                UploadStops, StopUpload, AgentRestarts, Reopen, SendChunk, spoolVars
  <2> QED
    BY <1>1, <2>1, <2>2
<1>6. CASE ServerStep /\ ~\E w \in Worker : Work(w) /\ Commit(w)
  <2>1. Held' \subseteq Held
    BY <1>6, ServerWithin
  <2>2. UNCHANGED <<taken, accepted>>
    BY <1>6 DEF ServerStep, CallProceeds, CallBreaks, LateArrives, Work, WorkFails, spoolVars
  <2>3. UNCHANGED <<stored, alerts>>
    BY <1>6 DEF ServerStep, CallProceeds, CallBreaks, LateArrives, Work, WorkFails, Handle, Flush, SendAck,
                FlushFails, CallEnds, LateStored, LateLost, Deliver, SkipDuplicate, InsertEvent,
                UpsertAlert, Ack, Rollback, AckLost
  <2> QED
    BY <1>1, <2>1, <2>2, <2>3
<1> QED
  BY <1>2, <1>3, <1>4, <1>5, <1>6 DEF Next

\* As long as the look-up of the asset does not fail, the whole of the agent, the
\* server's intake and the database is the log that EventLog describes: what was
\* accepted by a durable write (Spool::append) is never lost, comes into the
\* database in order, and each hit is counted in the commit that stores it.
THEOREM PipelineImplementsLog == ASSUME LookupFails = FALSE PROVE Spec => LogSpec
<1>1. Init => Log!LogInit
  <2> SUFFICES ASSUME Init PROVE Log!LogInit
    OBVIOUS
  <2>1. taken = 0 /\ accepted = {} /\ stored = {} /\ alerts = [s \in Shard |-> <<>>]
    BY DEF Init, SpoolInit, IntakeInit
  <2>2. Counts = 0
    <3>1. CountedOnce
      BY InitCountInv DEF CountInv
    <3>2. stored \intersect Hit = {}
      BY <2>1
    <3> QED
      BY <3>1, <3>2, FS_EmptySet DEF CountedOnce
  <2>3. 1..taken \ Held = {}
    BY <2>1
  <2> QED
    BY <2>1, <2>2, <2>3 DEF Log!LogInit
<1>2. UNCHANGED vars => UNCHANGED Log!logVars
  <2> SUFFICES ASSUME UNCHANGED vars PROVE UNCHANGED Log!logVars
    OBVIOUS
  <2>1. UNCHANGED <<batch, files, durable, load, callVars, busVars, workVars, dbVars, taken, accepted>>
    BY DEF vars, spoolVars
  <2>2. Counts' = Counts
    BY <2>1 DEF Counts
  <2>3. Held' = Held
    <3>1. FileHeld' = FileHeld /\ CallHeld' = CallHeld /\ LateHeld' = LateHeld
      BY <2>1 DEF FileHeld, CallHeld, LateHeld, Unsent
    <3>2. WorkHeld' = WorkHeld /\ Confirmed' = Confirmed
      BY <2>1 DEF WorkHeld, EventsAt, Confirmed, Published
    <3> QED
      BY <2>1, <3>1, <3>2, HeldIs, HeldPrimedIs DEF Passed
  <2> QED
    BY <2>1, <2>2, <2>3 DEF Log!logVars
<1>3. /\ TypeInv /\ KeptInv /\ RiseInv /\ CountInv /\ Kept' /\ StoredLed' /\ [Next]_vars
      => [Log!LogNext]_(Log!logVars)
  BY <1>2, LogStep
<1>4. KeptInv => Kept
  BY KeptInvKept
<1>5. OrderInv => StoredLed
  BY DEF OrderInv
<1> QED
  BY <1>1, <1>3, <1>4, <1>5, TypeInvariant, KeptInvariant, RiseInvariant, CountInvariant,
     OrderInvariant, PTL DEF Spec, LogSpec, Log!LogSpec

-----------------------------------------------------------------------------
(* One row within a window.                                                 *)

\* The alerts of a list begin with a hit of X, each when the window of those
\* before it is over
RowsOf(list, X) ==
  \A k \in DOMAIN list : /\ \E d \in X \intersect Hit : list[k].first = Ts[d]
                         /\ \A j \in 1..k - 1 : list[j].first + Window <= list[k].first

RowsOK ==
  /\ \A s \in Shard : RowsOf(alerts[s], stored)
  /\ \A w \in Worker : view[w] # Unread => RowsOf(view[w], stored \union Handled(w))

LEMMA RowsApart ==
  ASSUME TypeInv, RowsOK PROVE OneRowPerWindow
<1> SUFFICES ASSUME NEW s \in Shard, NEW j \in DOMAIN alerts[s], NEW k \in DOMAIN alerts[s],
                    j # k, alerts[s][j].first <= alerts[s][k].first
             PROVE  alerts[s][k].first >= alerts[s][j].first + Window
  BY DEF OneRowPerWindow
<1>1. alerts[s] \in Seq(Alert) /\ RowsOf(alerts[s], stored)
  BY DEF TypeInv, DbTypes, RowsOK
<1>2. j \in Nat /\ k \in Nat /\ j >= 1 /\ k >= 1 /\ alerts[s][j] \in Alert /\ alerts[s][k] \in Alert
  BY <1>1
<1>3. PICK a \in Nat, b \in Nat : a = alerts[s][j].first /\ b = alerts[s][k].first
  BY <1>2 DEF Alert
<1>4. CASE j < k
  <2>1. j \in 1..k - 1
    BY <1>2, <1>4
  <2>2. a + Window <= b
    BY <1>1, <1>3, <2>1 DEF RowsOf
  <2> QED
    BY <1>3, <2>2
<1>5. CASE k < j
  <2>1. k \in 1..j - 1
    BY <1>2, <1>5
  <2>2. b + Window <= a
    BY <1>1, <1>3, <2>1 DEF RowsOf
  <2>3. a <= b /\ Window \in Nat
    BY <1>3
  <2>4. b >= a + Window
    BY <1>3, <2>2, <2>3
  <2> QED
    BY <1>3, <2>4
<1> QED
  BY <1>2, <1>4, <1>5

\* A hit that is not before any of X makes no second row within a window
LEMMA CountedRows ==
  ASSUME NEW list \in Seq(Alert), NEW e \in Event, e \in Hit, NEW X \in SUBSET Event,
         RowsOf(list, X), \A d \in X \intersect Hit : Ts[d] <= Ts[e]
  PROVE  RowsOf(Counted(list, e), X \union {e})
<1> DEFINE n == Len(list)
           t == Ts[e]
           new == Counted(list, e)
<1>1. t \in Nat /\ n \in Nat /\ Window \in Nat /\ DOMAIN list = 1..n
  OBVIOUS
<1>2. \A k \in 1..n : list[k].first \in Nat
  <2>1. \A k \in 1..n : list[k] \in Alert
    OBVIOUS
  <2> QED
    BY <2>1 DEF Alert
<1>3. CASE n > 0 /\ list[n].first <= t /\ t < list[n].first + Window
  <2> DEFINE a == [list[n] EXCEPT !.count = @ + 1, !.last = IF @ < t THEN t ELSE @]
  <2>1. n \in 1..n /\ list[n] \in Alert
    BY <1>1, <1>3
  <2>2. a.first = list[n].first
    BY <2>1 DEF Alert
  <2>3. new = [list EXCEPT ![n] = a]
    <3>1. [list EXCEPT ![n].count = @ + 1, ![n].last  = IF @ < t THEN t ELSE @] = [list EXCEPT ![n] = a]
      BY <2>1
    <3> QED
      BY <1>3, <3>1 DEF Counted
  <2> HIDE DEF a, n
  <2>4. DOMAIN new = 1..n /\ \A k \in 1..n : new[k] = IF k = n THEN a ELSE list[k]
    BY <1>1, <2>1, <2>3
  <2> HIDE DEF new
  <2>5. \A k \in 1..n : new[k].first = list[k].first
    BY <2>2, <2>4
  <2>6. \A k \in 1..n : \A j \in 1..k - 1 : j \in 1..n
    BY <1>1
  <2>7. RowsOf(new, X \union {e})
    BY <1>1, <2>4, <2>5, <2>6 DEF RowsOf
  <2> QED
    BY <2>7 DEF new
<1>4. CASE ~(n > 0 /\ list[n].first <= t /\ t < list[n].first + Window)
  <2> DEFINE a == [first |-> t, last |-> t, count |-> 1]
  <2>0. new = Append(list, a)
    BY <1>4 DEF Counted
  <2>1. new = Append(list, a) /\ a \in Alert /\ a.first = t
    BY <1>1, <2>0 DEF Alert
  <2> HIDE DEF a, new, t
  <2>2. /\ DOMAIN new = 1..n + 1 /\ new[n + 1].first = t
        /\ \A k \in 1..n : new[k] = list[k]
    BY <2>1
  <2> HIDE DEF n
  <2>3. ASSUME NEW j \in 1..n PROVE list[j].first + Window <= t
    <3>1. n \in 1..n
      BY <1>1, <2>3
    <3>2. PICK f \in Nat, g \in Nat : f = list[n].first /\ g = list[j].first
      BY <1>2, <2>3, <3>1
    <3>3. PICK d \in X \intersect Hit : list[n].first = Ts[d]
      BY <1>1, <3>1 DEF RowsOf
    <3>4. f <= t
      BY <3>2, <3>3 DEF t
    <3>5. f + Window <= t
      BY <1>1, <1>4, <3>1, <3>2, <3>4
    <3>6. j = n \/ g + Window <= f
      <4>1. CASE j # n
        <5>1. j \in 1..n - 1
          BY <1>1, <2>3, <4>1
        <5> QED
          BY <1>1, <3>1, <3>2, <5>1 DEF RowsOf
      <4> QED
        BY <4>1
    <3> QED
      BY <1>1, <3>2, <3>5, <3>6
  <2>4. ASSUME NEW k \in 1..n + 1
        PROVE  /\ \E d \in (X \union {e}) \intersect Hit : new[k].first = Ts[d]
               /\ \A j \in 1..k - 1 : new[j].first + Window <= new[k].first
    <3>1. CASE k \in 1..n
      <4>1. \A j \in 1..k - 1 : j \in 1..n
        BY <1>1, <3>1
      <4> QED
        BY <1>1, <2>2, <3>1, <4>1 DEF RowsOf
    <3>2. CASE k = n + 1
      <4>1. \A j \in 1..k - 1 : j \in 1..n
        BY <1>1, <3>2
      <4> QED
        BY <2>2, <2>3, <3>2, <4>1 DEF t
    <3> QED
      BY <1>1, <3>1, <3>2
  <2>5. RowsOf(new, X \union {e})
    BY <2>2, <2>4 DEF RowsOf
  <2> QED
    BY <2>5 DEF new
<1> QED
  BY <1>3, <1>4

LEMMA RowsMore ==
  ASSUME NEW list, NEW X, NEW Y, X \subseteq Y, RowsOf(list, X) PROVE RowsOf(list, Y)
BY DEF RowsOf

\* A worker's next event is later than those it handled, and, as every event on
\* its way is alive, than those stored
LEMMA NextIsLater ==
  ASSUME TypeInv, WorkRises, StoredLed, WorkHeld \subseteq Alive, NEW w \in Worker, More(w),
         Current(w) \notin stored
  PROVE  \A d \in stored \union Handled(w) : d <= Current(w)
<1>0. WorkTypes /\ stored \subseteq Event
  BY DEF TypeInv, DbTypes
<1>1. /\ pos[w] \in Nat /\ pos[w] + 1 \in DOMAIN EventsAt(w)
      /\ Current(w) \in Event /\ Current(w) = EventsAt(w)[pos[w] + 1]
  BY <1>0, CurrentFacts
<1>2. ASSUME NEW d \in stored PROVE d <= Current(w)
  <2>1. Current(w) \in Alive
    BY <1>1 DEF WorkHeld, EventsOf
  <2>2. ~(Current(w) < d)
    BY <2>1 DEF StoredLed
  <2>3. d \in Nat /\ Current(w) \in Nat
    BY <1>0, <1>1 DEF Event
  <2> QED
    BY <2>2, <2>3
<1>3. ASSUME NEW d \in Handled(w) PROVE d <= Current(w)
  <2>1. PICK k \in 1..pos[w] : EventsAt(w)[k] = d
    BY DEF Handled
  <2>2. EventsAt(w) \in Seq(Event) /\ Rising(EventsAt(w), taken)
    BY <1>0, AtFacts DEF WorkRises
  <2>3. k \in DOMAIN EventsAt(w) /\ k < pos[w] + 1
    BY <1>1, <2>2
  <2>4. d < Current(w)
    BY <1>1, <2>1, <2>2, <2>3 DEF Rising
  <2>5. d \in Nat /\ Current(w) \in Nat
    BY <1>1, <2>1, <2>2, <2>3 DEF Event
  <2> QED
    BY <2>4, <2>5
<1> QED
  BY <1>2, <1>3

\* As long as the disk does not fail, what the collector passed on is accepted
LEMMA PassedStays ==
  ASSUME DiskFails = FALSE, TypeInv, CountInv, Passed \subseteq accepted, [Next]_vars
  PROVE  Passed' \subseteq accepted'
<1>1. CASE UNCHANGED vars
  <2>1. UNCHANGED <<files, durable, load, callVars, busVars, workVars, dbVars, accepted>>
    BY <1>1 DEF vars, spoolVars
  <2> QED
    BY <2>1 DEF Passed, FileHeld, CallHeld, LateHeld, WorkHeld, EventsAt, Confirmed, Published, Unsent
<1>2. CASE Gather
  BY <1>2, GatherTakes DEF Gather
<1>3. CASE Persist
  <2>1. AgentStep /\ ~Gather /\ accepted' = accepted \union EventsOf(batch)
    BY <1>3, TakenType DEF AgentStep, Gather, Collect, Persist, AppendBatch
  <2> QED
    BY <2>1, AgentWithin
<1>4. CASE AgentStep /\ ~Gather /\ ~Persist
  <2>1. accepted' = accepted
    BY <1>4 DEF AgentStep, PersistRefused, PersistFails, Fetch, TakeAck, Removed, UploadStops,
                AgentRestarts, SendChunk
  <2>2. Passed' \subseteq Passed
    <3>1. CASE PersistRefused
      <4>1. UNCHANGED <<files, durable>>
        BY <3>1 DEF PersistRefused, AppendRefused
      <4> QED
        BY <1>4, <4>1, AgentWithin
    <3>2. ~PersistFails
      BY DEF PersistFails, AppendFails
    <3>3. CASE ~PersistRefused
      BY <1>4, <3>2, <3>3, AgentWithin
    <3> QED
      BY <3>1, <3>3
  <2> QED
    BY <2>1, <2>2
<1>5. CASE ServerStep
  <2>1. accepted' = accepted
    BY <1>5 DEF ServerStep, CallProceeds, CallBreaks, LateArrives, Work, WorkFails
  <2> QED
    BY <1>5, <2>1, ServerWithin
<1> QED
  BY <1>1, <1>2, <1>3, <1>4, <1>5 DEF Next

LEMMA InitPassed == Init => Passed = {}
<1> SUFFICES ASSUME Init PROVE Passed = {}
  OBVIOUS
<1>1. /\ files = << >> /\ durable = << >> /\ load = <<>> /\ late = {} /\ stored = {} /\ bus = <<>>
      /\ queued = [i \in Call |-> <<>>] /\ todo = [i \in Call |-> <<>>]
      /\ msg = [w \in Worker |-> NoMsg]
  BY DEF Init, SpoolInit, IntakeInit
<1>2. FileHeld = {}
  BY <1>1 DEF FileHeld, OnDisk, EventsOf
<1>3. CallHeld = {}
  <2>1. \A i \in Call : Unsent(i) = {}
    BY <1>1 DEF Unsent, EventsOf
  <2> QED
    BY <2>1 DEF CallHeld
<1>4. WorkHeld = {}
  <2>1. \A w \in Worker : EventsOf(EventsAt(w)) = {}
    BY <1>1 DEF EventsAt, EventsOf, NoMsg
  <2> QED
    BY <2>1 DEF WorkHeld
<1>5. LateHeld = {} /\ Confirmed = {}
  BY <1>1 DEF LateHeld, Confirmed, Published
<1> QED
  BY <1>2, <1>3, <1>4, <1>5 DEF Passed

\* Only a commit changes the alerts, only upsertAlert a view
LEMMA WorkKeepsRows ==
  ASSUME TypeInv, WorkRises, CountInv, StoredLed, WorkHeld \subseteq Alive, RowsOK,
         \A d, e \in Hit : d <= e => Ts[d] <= Ts[e],
         NEW w \in Worker, Work(w) \/ WorkFails(w)
  PROVE  RowsOK'
<1>0. WorkTypes /\ DbTypes /\ MineOK(w) /\ AlertsOK /\ Hit \subseteq Event
  BY DEF TypeInv, CountInv
<1>1. stored \subseteq stored'
  BY DEF Work, WorkFails, Deliver, SkipDuplicate, InsertEvent, UpsertAlert, Commit, Ack,
         Rollback, AckLost
<1>2. ASSUME NEW v \in Others(w), view'[v] # Unread PROVE RowsOf(view'[v], stored' \union Handled(v)')
  <2>1. /\ v \in Worker /\ msg'[v] = msg[v] /\ pos'[v] = pos[v]
        /\ mine'[v] = mine[v] /\ view'[v] = view[v]
    BY <1>0 DEF Work, WorkFails, Deliver, SkipDuplicate, InsertEvent, UpsertAlert, Commit, Ack,
                Rollback, AckLost, Release, Advance, WorkTypes, Others
  <2>2. Handled(v)' = Handled(v)
    BY <2>1 DEF Handled, EventsAt
  <2>3. RowsOf(view[v], stored \union Handled(v))
    BY <1>2, <2>1 DEF RowsOK
  <2> QED
    BY <1>1, <2>1, <2>2, <2>3, RowsMore
<1>3. ASSUME \A s \in Shard : RowsOf(alerts'[s], stored'),
             view'[w] # Unread => RowsOf(view'[w], stored' \union Handled(w)')
      PROVE  RowsOK'
  <2>1. \A v \in Worker : view'[v] # Unread => RowsOf(view'[v], stored' \union Handled(v)')
    BY <1>2, <1>3 DEF Others
  <2> QED
    BY <1>3, <2>1 DEF RowsOK
<1>4. ASSUME UNCHANGED <<stored, alerts>> PROVE \A s \in Shard : RowsOf(alerts'[s], stored')
  BY <1>4 DEF RowsOK
<1>5. CASE Commit(w)
  <2>1. Handled(w) \subseteq mine[w]
    BY DEF Handled
  <2>2. stored' = stored \union mine[w] /\ view'[w] = Unread
    BY <1>0, <1>5 DEF Commit, WorkTypes
  <2>3. RowsOf(Alerts(w), stored')
    <3>1. CASE view[w] = Unread
      <4>1. Alerts(w) = alerts[ShardAt(w)] /\ ShardAt(w) \in Shard
        BY <1>0, <3>1, AtFacts DEF Alerts
      <4> QED
        BY <1>1, <4>1, RowsMore DEF RowsOK
    <3>2. CASE view[w] # Unread
      <4>1. Alerts(w) = view[w]
        BY <3>2 DEF Alerts
      <4>2. stored \union Handled(w) \subseteq stored'
        BY <2>1, <2>2
      <4>3. RowsOf(view[w], stored \union Handled(w))
        BY <3>2 DEF RowsOK
      <4>4. RowsOf(view[w], stored')
        BY <4>2, <4>3, RowsMore
      <4> QED
        BY <4>1, <4>4
    <3> QED
      BY <3>1, <3>2
  <2>4. \A s \in Shard : alerts'[s] = alerts[s] \/ alerts'[s] = Alerts(w)
    BY <1>5, CommitFacts
  <2>5. \A s \in Shard : RowsOf(alerts[s], stored')
    BY <1>1, RowsMore DEF RowsOK
  <2> QED
    BY <1>3, <2>2, <2>3, <2>4, <2>5
<1>6. CASE SkipDuplicate(w) \/ InsertEvent(w)
  <2>1. UNCHANGED <<stored, alerts>> /\ view' = view
    BY <1>6 DEF SkipDuplicate, InsertEvent
  <2>2. Handled(w)' = Handled(w)
    BY <1>0, <1>6, SkipKeepsMine, InsertKeepsMine
  <2> QED
    BY <1>3, <1>4, <2>1, <2>2 DEF RowsOK
<1>7. CASE UpsertAlert(w)
  <2> DEFINE e == Current(w)
             seen == stored \union Handled(w)
  <2>1. UNCHANGED <<stored, alerts>> /\ view'[w] = Counted(Alerts(w), e) /\ More(w) /\ e \in mine[w]
    BY <1>0, <1>7 DEF UpsertAlert, WorkTypes
  <2>2. Handled(w)' = Handled(w) \union {e}
    BY <1>0, <1>7, UpsertKeepsMine
  <2>3. e \in Hit /\ e \in Event /\ seen \in SUBSET Event
    <3>1. e \in Hit
      BY <2>2 DEF Handled
    <3>2. Handled(w) \subseteq Event
      BY <1>0 DEF Handled, WorkTypes
    <3> QED
      BY <1>0, <3>1, <3>2 DEF DbTypes
  <2>4. \A d \in seen : d <= e
    <3>1. e \notin stored
      BY <1>0, <2>1 DEF MineOK
    <3> QED
      BY <2>1, <3>1, NextIsLater
  <2>5. Alerts(w) \in Seq(Alert)
    BY <1>0, AlertsFacts
  <2>6. RowsOf(Alerts(w), seen)
    <3>1. CASE view[w] = Unread
      <4>1. Alerts(w) = alerts[ShardAt(w)] /\ ShardAt(w) \in Shard
        BY <1>0, <3>1, AtFacts DEF Alerts
      <4> QED
        BY <4>1, RowsMore DEF RowsOK
    <3>2. CASE view[w] # Unread
      BY <3>2 DEF Alerts, RowsOK
    <3> QED
      BY <3>1, <3>2
  <2> HIDE DEF e, seen
  <2>7. \A d \in seen \intersect Hit : Ts[d] <= Ts[e]
    BY <2>3, <2>4
  <2>8. RowsOf(Counted(Alerts(w), e), seen \union {e})
    BY <2>3, <2>5, <2>6, <2>7, CountedRows
  <2>9. stored' \union Handled(w)' = seen \union {e}
    BY <2>1, <2>2 DEF seen
  <2> QED
    BY <1>3, <1>4, <2>1, <2>8, <2>9
<1>8. CASE Ack(w) \/ Rollback(w) \/ AckLost(w) \/ \E k \in DOMAIN bus : Deliver(w, k)
  <2>1. UNCHANGED <<stored, alerts>>
    BY <1>8 DEF Ack, Rollback, AckLost, Deliver
  <2>2. view'[w] = Unread
    BY <1>0, <1>8 DEF Ack, Rollback, AckLost, Deliver, Release, WorkTypes, MineOK
  <2> QED
    BY <1>3, <1>4, <2>1, <2>2
<1> QED
  BY <1>5, <1>6, <1>7, <1>8 DEF Work, WorkFails

LEMMA NextKeepsRows ==
  ASSUME TypeInv, RiseInv, CountInv, StoredLed, Passed \subseteq accepted, RowsOK, [Next]_vars,
         \A d, e \in Hit : d <= e => Ts[d] <= Ts[e]
  PROVE  RowsOK'
<1>1. ASSUME UNCHANGED <<workVars, dbVars>> PROVE RowsOK'
  BY <1>1 DEF RowsOK, Handled, EventsAt
<1>2. ASSUME NEW w \in Worker, Work(w) \/ WorkFails(w) PROVE RowsOK'
  <2>1. WorkHeld \subseteq Alive
    BY DEF Passed, Alive
  <2> QED
    BY <1>2, <2>1, WorkKeepsRows DEF RiseInv
<1>3. CASE UNCHANGED vars
  BY <1>1, <1>3 DEF vars
<1>4. CASE AgentStep
  BY <1>1, <1>4, AgentLeavesServer
<1>5. CASE LateArrives \/ \E i \in Call : CallProceeds(i) \/ CallBreaks(i)
  <2>1. UNCHANGED <<workVars, dbVars>>
    BY <1>5 DEF LateArrives, LateStored, LateLost, CallProceeds, CallBreaks, Handle, Flush, SendAck,
                FlushFails, CallEnds
  <2> QED
    BY <1>1, <2>1
<1> QED
  BY <1>2, <1>3, <1>4, <1>5 DEF Next, ServerStep

\* As long as neither the look-up of the asset nor the disk fails and the hits'
\* times do not go back, the alerts of a shard keep a window apart: no two rows
\* for a fingerprint within its window (docs/detection.md:18), whatever two
\* nodes handle at once.  Without any of the three it does not hold.
THEOREM OneRowForAWindow ==
  ASSUME LookupFails = FALSE, DiskFails = FALSE, \A d, e \in Hit : d <= e => Ts[d] <= Ts[e]
  PROVE  Spec => []OneRowPerWindow
<1>1. Init => Passed \subseteq accepted /\ RowsOK
  <2> SUFFICES ASSUME Init PROVE Passed \subseteq accepted /\ RowsOK
    OBVIOUS
  <2>1. alerts = [s \in Shard |-> <<>>] /\ view = [w \in Worker |-> Unread]
    BY DEF Init, IntakeInit
  <2>2. RowsOK
    BY <2>1 DEF RowsOK, RowsOf
  <2> QED
    BY <2>2, InitPassed
<1>2. TypeInv /\ CountInv /\ Passed \subseteq accepted /\ [Next]_vars => (Passed \subseteq accepted)'
  BY PassedStays
<1>3. /\ TypeInv /\ RiseInv /\ CountInv /\ StoredLed /\ Passed \subseteq accepted /\ RowsOK /\ [Next]_vars
      => RowsOK'
  BY NextKeepsRows
<1>4. OrderInv => StoredLed
  BY DEF OrderInv
<1>5. TypeInv /\ RowsOK => OneRowPerWindow
  BY RowsApart
<1> QED
  BY <1>1, <1>2, <1>3, <1>4, <1>5, TypeInvariant, RiseInvariant, CountInvariant, OrderInvariant, PTL
     DEF Spec
=============================================================================

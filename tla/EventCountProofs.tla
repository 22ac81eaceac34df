-------------------------- MODULE EventCountProofs --------------------------
(***************************************************************************)
(* Proofs about the alerts of EventPipeline: however often an event is     *)
(* delivered, it is counted once.                                          *)
(*                                                                         *)
(* The argument: a message names an event once (RiseInv), and so does a    *)
(* transaction; what two transactions insert is disjoint, and disjoint     *)
(* from what is stored; and the alerts a transaction sees, under a lock    *)
(* that no other transaction of the shard has, are the committed ones and  *)
(* one count for each hit it inserted and has done with (MineOK).          *)
(***************************************************************************)
EXTENDS EventOrderProofs, FiniteSetTheorems

USE EventsAssumption, SpoolAssumption, IntakeAssumption, PipelineAssumption
    DEF collectVars, diskVars, uploadVars, faultVars, SeqNos, None,
        callVars, busVars, workVars, dbVars, intakeVars

\* The events a call has left are in order, and it begins with none
CallRises(i) ==
  /\ Rising(Batched(i), taken) /\ Rising(todo[i], taken)
  /\ Before(Batched(i), todo[i])
  /\ call[i] = "free" => queued[i] = <<>>

BusRises  == \A k \in DOMAIN bus : Rising(bus[k].content.events, taken)
WorkRises == \A w \in Worker : Rising(EventsAt(w), taken)

\* Every sequence of events on its way to the database is in order
RiseInv ==
  /\ DirsInOrder /\ RemovedConfirmed
  /\ Rising(load, taken)
  /\ \A i \in Call : CallRises(i)
  /\ \A c \in late : Rising(c.events, taken)
  /\ BusRises /\ WorkRises

LEMMA InitRiseInv == Init => RiseInv
<1> SUFFICES ASSUME Init PROVE RiseInv
  OBVIOUS
<1>1. /\ batch = <<>> /\ files = << >> /\ durable = << >> /\ load = <<>> /\ late = {}
      /\ queued = [i \in Call |-> <<>>] /\ todo = [i \in Call |-> <<>>]
      /\ msg = [w \in Worker |-> NoMsg] /\ bus = <<>>
  BY DEF Init, SpoolInit, IntakeInit
<1>2. \A n : Rising(<<>>, n)
  BY DEF Rising
<1>3. DirsInOrder /\ RemovedConfirmed
  BY <1>1 DEF DirsInOrder, RemovedConfirmed, Rising, Dirs
<1>4. \A i \in Call : CallRises(i)
  <2>1. \A i \in Call : Batched(i) = <<>> /\ todo[i] = <<>> /\ queued[i] = <<>>
    BY <1>1 DEF Batched
  <2> QED
    BY <1>2, <2>1, BeforeEmpty DEF CallRises
<1>5. WorkRises
  BY <1>1, <1>2 DEF WorkRises, EventsAt, NoMsg
<1> QED
  BY <1>1, <1>2, <1>3, <1>4, <1>5 DEF RiseInv, BusRises
-----------------------------------------------------------------------------
(* Rising sequences.                                                        *)

LEMMA RisingLater ==
  ASSUME NEW b \in Seq(Event), NEW n \in Nat, NEW m \in Nat, n <= m, Rising(b, n)
  PROVE  Rising(b, m)
<1>1. \A k \in DOMAIN b : b[k] \in Nat
  BY Items
<1> QED
  BY <1>1 DEF Rising

\* A part of a sequence
LEMMA RisingPart ==
  ASSUME NEW b \in Seq(Event), NEW c \in Seq(Event), NEW m \in Nat, NEW n,
         Rising(b, n), m + Len(c) <= Len(b), \A k \in 1..Len(c) : c[k] = b[m + k]
  PROVE  Rising(c, n) /\ EventsOf(c) \subseteq EventsOf(b)
<1>1. /\ DOMAIN c = 1..Len(c) /\ DOMAIN b = 1..Len(b) /\ Len(c) \in Nat /\ Len(b) \in Nat
  OBVIOUS
<1>2. \A k \in 1..Len(c) : m + k \in DOMAIN b
  BY <1>1
<1>3. \A j, k \in 1..Len(c) : j < k => m + j < m + k
  BY <1>1
<1>4. Rising(c, n)
  BY <1>1, <1>2, <1>3 DEF Rising
<1>5. EventsOf(c) \subseteq EventsOf(b)
  BY <1>1, <1>2 DEF EventsOf
<1> QED
  BY <1>4, <1>5

LEMMA RisingAppend ==
  ASSUME NEW b \in Seq(Event), NEW e \in Event, NEW n, Rising(b, n), e <= n,
         \A d \in EventsOf(b) : d < e
  PROVE  Rising(Append(b, e), n)
<1> DEFINE c == Append(b, e)
<1>1. /\ DOMAIN c = 1..Len(b) + 1 /\ DOMAIN b = 1..Len(b) /\ Len(b) \in Nat
      /\ \A k \in 1..Len(b) : c[k] = b[k]
      /\ c[Len(b) + 1] = e
  OBVIOUS
<1> HIDE DEF c
<1>2. \A k \in DOMAIN c : k = Len(b) + 1 \/ k \in 1..Len(b)
  BY <1>1
<1>3. \A k \in DOMAIN c : c[k] <= n
  BY <1>1, <1>2 DEF Rising
<1>4. ASSUME NEW j \in DOMAIN c, NEW k \in DOMAIN c, j < k PROVE c[j] < c[k]
  <2>1. j \in 1..Len(b)
    BY <1>1, <1>2, <1>4
  <2>2. CASE k \in 1..Len(b)
    BY <1>1, <1>4, <2>1, <2>2 DEF Rising
  <2>3. CASE k = Len(b) + 1
    <3>1. b[j] \in EventsOf(b)
      BY <1>1, <2>1 DEF EventsOf
    <3> QED
      BY <1>1, <2>1, <2>3, <3>1
  <2> QED
    BY <1>2, <2>2, <2>3
<1> QED
  BY <1>3, <1>4 DEF Rising, c

\* A rising sequence names an event once
LEMMA RisingOnce ==
  ASSUME NEW b \in Seq(Event), NEW n, Rising(b, n), NEW j \in DOMAIN b, NEW k \in DOMAIN b, b[j] = b[k]
  PROVE  j = k
<1>1. b[j] \in Nat /\ b[k] \in Nat /\ j \in Nat /\ k \in Nat
  BY Items
<1>2. ~(j < k) /\ ~(k < j)
  BY <1>1 DEF Rising
<1> QED
  BY <1>1, <1>2

LEMMA TailRises ==
  ASSUME NEW b \in Seq(Event), b # <<>>, NEW n, Rising(b, n)
  PROVE  /\ Tail(b) \in Seq(Event) /\ Rising(Tail(b), n)
         /\ Head(b) \in Event /\ Head(b) <= n
         /\ \A d \in EventsOf(Tail(b)) : Head(b) < d
         /\ EventsOf(b) = {Head(b)} \union EventsOf(Tail(b))
<1>1. /\ Tail(b) \in Seq(Event) /\ Head(b) \in Event /\ Head(b) = b[1]
      /\ Len(Tail(b)) = Len(b) - 1 /\ Len(b) \in Nat /\ Len(b) # 0
      /\ \A k \in 1..Len(b) - 1 : Tail(b)[k] = b[1 + k]
  BY HeadTailProperties, LenProperties, EmptySeq
<1>2. Rising(Tail(b), n)
  <2>1. /\ 1 \in Nat /\ 1 + Len(Tail(b)) <= Len(b)
        /\ \A k \in 1..Len(Tail(b)) : Tail(b)[k] = b[1 + k]
    BY <1>1
  <2> DEFINE c == Tail(b)
  <2>2. c \in Seq(Event) /\ 1 + Len(c) <= Len(b) /\ \A k \in 1..Len(c) : c[k] = b[1 + k]
    BY <1>1, <2>1
  <2> HIDE DEF c
  <2>3. Rising(c, n)
    BY <2>1, <2>2, RisingPart
  <2> QED
    BY <2>3 DEF c
<1>3. ASSUME NEW d \in EventsOf(Tail(b)) PROVE Head(b) < d
  <2>1. PICK k \in 1..Len(b) - 1 : Tail(b)[k] = d
    BY <1>1 DEF EventsOf
  <2>2. 1 \in DOMAIN b /\ 1 + k \in DOMAIN b /\ 1 < 1 + k
    BY <1>1
  <2> QED
    BY <1>1, <2>1, <2>2 DEF Rising
<1>4. Head(b) <= n
  <2>1. 1 \in DOMAIN b
    BY <1>1
  <2> QED
    BY <1>1, <2>1 DEF Rising
<1>5. EventsOf(b) = {Head(b)} \union EventsOf(Tail(b))
  BY TailEvents
<1> QED
  BY <1>1, <1>2, <1>3, <1>4, <1>5
-----------------------------------------------------------------------------
(* The agent's steps and the calls.                                         *)

LEMMA LoadRises ==
  ASSUME TypeInv, DirsInOrder, Rising(load, taken), taken' = taken, AgentStep
  PROVE  Rising(load', taken')
<1>1. ASSUME load' = load PROVE Rising(load', taken')
  BY <1>1
<1>2. ASSUME load' = <<>> PROVE Rising(load', taken')
  BY <1>2 DEF Rising
<1>3. CASE Fetch
  <2>1. PICK s \in DOMAIN files : load' = files[s]
    BY <1>3 DEF Fetch, TakeFront
  <2> QED
    BY <2>1 DEF DirsInOrder, Dirs, At
<1>4. CASE \/ Gather \/ Persist \/ PersistRefused \/ PersistFails \/ TakeAck
           \/ \E i \in Call : SendChunk(i)
  BY <1>1, <1>4 DEF Gather, Collect, Persist, AppendBatch, PersistRefused, AppendRefused,
                    PersistFails, AppendFails, TakeAck, ChunkAcknowledged, SendChunk, spoolVars
<1>5. CASE Removed \/ UploadStops \/ AgentRestarts
  BY <1>1, <1>2, <1>5 DEF Removed, AcknowledgeBatch, AcknowledgeOrphan, UploadStops, StopUpload,
                          AgentRestarts, Reopen, Idle
<1> QED
  BY <1>3, <1>4, <1>5 DEF AgentStep

LEMMA CallRisesStays ==
  ASSUME CallTypes, NEW i \in Call, CallRises(i), taken \in Nat, taken' \in Nat, taken <= taken',
         todo'[i] = todo[i], queued'[i] = queued[i], call'[i] = "free" => call[i] = "free"
  PROVE  CallRises(i)'
<1>1. Batched(i) \in Seq(Event) /\ todo[i] \in Seq(Event)
  BY BatchedType
<1>2. Batched(i)' = Batched(i)
  BY DEF Batched
<1>3. Rising(Batched(i), taken') /\ Rising(todo[i], taken')
  BY <1>1, RisingLater DEF CallRises
<1> QED
  BY <1>2, <1>3 DEF CallRises

LEMMA ClosedCallRises == ASSUME NEW i \in Call, todo'[i] = <<>>, queued'[i] = <<>> PROVE CallRises(i)'
<1>1. Batched(i)' = <<>>
  BY DEF Batched
<1> QED
  BY <1>1, BeforeEmpty DEF CallRises, Rising

LEMMA CallsRise ==
  ASSUME TypeInv, \A i \in Call : CallRises(i), taken' \in Nat, taken <= taken',
         \/ UNCHANGED <<call, todo, queued>>
         \/ \E i \in Call : Close(i)
  PROVE  \A i \in Call : CallRises(i)'
<1> SUFFICES ASSUME NEW j \in Call PROVE CallRises(j)'
  OBVIOUS
<1>0. CallTypes /\ taken \in Nat
  BY DirsFacts DEF TypeInv
<1>1. CASE UNCHANGED <<call, todo, queued>>
  BY <1>0, <1>1, CallRisesStays
<1>2. ASSUME NEW i \in Call, Close(i) PROVE CallRises(j)'
  <2>1. CASE j = i
    BY <1>0, <1>2, <2>1, CloseFacts, ClosedCallRises
  <2>2. CASE j # i
    BY <1>0, <1>2, <2>2, CallRisesStays DEF Close, CallTypes
  <2> QED
    BY <2>1, <2>2
<1> QED
  BY <1>1, <1>2

\* A queue that gets the head of what is left
LEMMA HandleRises ==
  ASSUME TypeInv, \A j \in Call : CallRises(j), taken' = taken, NEW i \in Call, Handle(i)
  PROVE  \A j \in Call : CallRises(j)'
<1>0. CallTypes /\ taken \in Nat
  BY DirsFacts DEF TypeInv
<1>1. PICK shard \in Shard :
        queued' = [queued EXCEPT ![i] = Append(@, [event |-> Head(todo[i]), shard |-> shard])]
  BY DEF Handle, Shard
<1>2. todo' = [todo EXCEPT ![i] = Tail(@)] /\ todo[i] # <<>> /\ call[i] = "open" /\ call' = call
  BY DEF Handle
<1> DEFINE b == Batched(i)
           e == Head(todo[i])
           q == Append(queued[i], [event |-> e, shard |-> shard])
<1>3. \A j \in Call \ {i} : CallRises(j)'
  BY <1>0, <1>1, <1>2, CallRisesStays DEF CallTypes
<1>4. queued'[i] = q /\ todo'[i] = Tail(todo[i])
  BY <1>0, <1>1, <1>2 DEF CallTypes
<1>5. /\ b \in Seq(Event) /\ queued[i] \in Seq(Envelope) /\ todo[i] \in Seq(Event)
      /\ Len(b) = Len(queued[i])
      /\ Rising(b, taken) /\ Rising(todo[i], taken) /\ Before(b, todo[i])
  BY <1>0, BatchedType DEF CallRises
<1>6. /\ Tail(todo[i]) \in Seq(Event) /\ Rising(Tail(todo[i]), taken)
      /\ e \in Event /\ e <= taken
      /\ \A d \in EventsOf(Tail(todo[i])) : e < d
      /\ EventsOf(todo[i]) = {e} \union EventsOf(Tail(todo[i]))
  BY <1>2, <1>5, TailRises
<1>7. Batched(i)' = Append(b, e)
  BY <1>0, <1>4, <1>6, BatchedAppend
<1> HIDE DEF b, e, q
<1>8. Append(b, e) \in Seq(Event) /\ EventsOf(Append(b, e)) = EventsOf(b) \union {e}
  BY <1>5, <1>6, AppendEvents
<1>9. Rising(Append(b, e), taken)
  <2>1. \A d \in EventsOf(b) : d < e
    BY <1>5, <1>6 DEF Before
  <2> QED
    BY <1>5, <1>6, <2>1, RisingAppend
<1>10. Before(Append(b, e), Tail(todo[i]))
  BY <1>5, <1>6, <1>8 DEF Before
<1>11. CallRises(i)'
  BY <1>2, <1>4, <1>6, <1>7, <1>9, <1>10 DEF CallRises
<1> QED
  BY <1>3, <1>11

\* A queue that loses its first events
LEMMA FlushRises ==
  ASSUME TypeInv, \A j \in Call : CallRises(j), taken' = taken, NEW i \in Call,
         NEW n \in 1..Len(queued[i]), UNCHANGED <<call, todo>>,
         queued' = [queued EXCEPT ![i] = SubSeq(@, n + 1, Len(@))]
  PROVE  \A j \in Call : CallRises(j)'
<1> DEFINE b == Batched(i)
           c == Batched(i)'
<1>0. CallTypes /\ taken \in Nat
  BY DirsFacts DEF TypeInv
<1>1. /\ queued'[i] = SubSeq(queued[i], n + 1, Len(queued[i]))
      /\ \A j \in Call \ {i} : queued'[j] = queued[j]
  BY <1>0 DEF CallTypes
<1>2. \A j \in Call \ {i} : CallRises(j)'
  BY <1>0, <1>1, CallRisesStays
<1>3. /\ b \in Seq(Event) /\ Len(b) = Len(queued[i]) /\ Len(b) \in Nat
      /\ Rising(b, taken) /\ Rising(todo[i], taken) /\ Before(b, todo[i])
      /\ call[i] = "free" => queued[i] = <<>>
  BY <1>0, BatchedType DEF CallRises
<1>4. /\ c \in Seq(Event) /\ Len(c) = Len(queued[i]) - n
      /\ \A k \in 1..Len(queued[i]) - n : c[k] = b[n + k]
  BY <1>0, <1>1, BatchedRest
<1> HIDE DEF b, c
<1>5. n \in Nat /\ n + Len(c) <= Len(b) /\ \A k \in 1..Len(c) : c[k] = b[n + k]
  BY <1>3, <1>4
<1>6. Rising(c, taken) /\ EventsOf(c) \subseteq EventsOf(b)
  BY <1>3, <1>4, <1>5, RisingPart
<1>7. Before(c, todo[i])
  BY <1>3, <1>6 DEF Before
<1>8. call[i] # "free"
  <2>1. CASE queued[i] = <<>>
    BY <2>1
  <2> QED
    BY <1>3, <2>1
<1>9. CallRises(i)'
  BY <1>3, <1>6, <1>7, <1>8 DEF CallRises, c
<1> QED
  BY <1>2, <1>9

LEMMA FirstRises ==
  ASSUME TypeInv, NEW i \in Call, CallRises(i), NEW content \in FirstOf(i)
  PROVE  /\ content \in Content /\ Len(content.events) \in 1..Len(queued[i])
         /\ Rising(content.events, taken)
         /\ EventsOf(content.events) \subseteq EventsOf(Batched(i))
<1>1. /\ content \in Content
      /\ Len(content.events) \in 1..Len(queued[i])
      /\ \A k \in 1..Len(content.events) : content.events[k] = queued[i][k].event
  BY FirstOfFacts DEF TypeInv
<1>2. /\ Batched(i) \in Seq(Event) /\ Len(Batched(i)) = Len(queued[i])
      /\ DOMAIN queued[i] = 1..Len(queued[i]) /\ content.events \in Seq(Event)
  BY <1>1, BatchedType DEF TypeInv, Content
<1> DEFINE b == Batched(i)
           c == content.events
<1>3. \A k \in 1..Len(c) : c[k] = b[k]
  BY <1>1, <1>2 DEF Batched
<1>4. Rising(b, taken)
  BY DEF CallRises
<1> HIDE DEF b
<1>5. b \in Seq(Event) /\ c \in Seq(Event) /\ Len(c) <= Len(b)
  BY <1>1, <1>2 DEF b
<1> HIDE DEF c
<1>6. 0 \in Nat /\ 0 + Len(c) <= Len(b) /\ \A k \in 1..Len(c) : c[k] = b[0 + k]
  BY <1>3, <1>5
<1>7. Rising(c, taken) /\ EventsOf(c) \subseteq EventsOf(b)
  BY <1>4, <1>5, <1>6, RisingPart
<1> QED
  BY <1>1, <1>7 DEF b, c

LEMMA StoreRises ==
  ASSUME TypeInv, BusRises, taken' = taken, NEW content \in Content,
         Rising(content.events, taken), Store(content)
  PROVE  BusRises'
<1>1. CASE bus' = bus
  BY <1>1 DEF BusRises
<1>2. ASSUME NEW id, bus' = Append(bus, [id |-> id, content |-> content])
      PROVE  BusRises'
  <2>1. bus \in Seq(Message)
    BY DEF TypeInv, BusTypes
  <2>2. /\ Len(bus) \in Nat /\ DOMAIN bus = 1..Len(bus) /\ DOMAIN bus' = 1..Len(bus) + 1
        /\ \A k \in DOMAIN bus : bus'[k] = bus[k]
        /\ bus'[Len(bus) + 1].content = content
    BY <1>2, <2>1
  <2>3. \A k \in DOMAIN bus' : k \in DOMAIN bus \/ k = Len(bus) + 1
    BY <2>2
  <2> QED
    BY <2>2, <2>3 DEF BusRises
<1> QED
  BY <1>1, <1>2, StoreFacts DEF TypeInv

LEMMA ChunkRises ==
  ASSUME TypeInv, Rising(load, taken) PROVE Chunk \in Seq(Event) /\ Rising(Chunk, taken)
<1>1. load \in Seq(Event) /\ sent \in 0..Len(load)
  BY DEF TypeInv, SpoolInv, SpoolTypes
<1>2. /\ Chunk \in Seq(Event) /\ sent \in Nat /\ sent + Len(Chunk) <= Len(load)
      /\ \A k \in 1..Len(Chunk) : Chunk[k] = load[sent + k]
  BY <1>1, ChunkFacts
<1> QED
  BY <1>1, <1>2, RisingPart

LEMMA WorkRisesStays ==
  ASSUME TypeInv, WorkRises, taken' \in Nat, taken <= taken', UNCHANGED workVars PROVE WorkRises'
<1>1. \A w \in Worker : EventsAt(w)' = EventsAt(w) /\ EventsAt(w) \in Seq(Event)
  BY AtFacts DEF TypeInv, EventsAt
<1>2. taken \in Nat
  BY DirsFacts
<1> QED
  BY <1>1, <1>2, RisingLater DEF WorkRises

LEMMA AgentKeepsRise == ASSUME TypeInv, KeptInv, RiseInv, AgentStep PROVE RiseInv'
<1>0. /\ Later /\ taken \in Nat /\ taken' \in Nat /\ taken <= taken'
      /\ UNCHANGED <<bus, late, workVars, dbVars>>
  BY AgentLater, AgentLeavesServer DEF Later
<1>1. DirsInOrder' /\ RemovedConfirmed'
  BY AgentKeepsOrder DEF RiseInv
<1>2. Rising(load', taken')
  <2>1. CASE Gather
    <3>1. load' = load /\ load \in Seq(Event)
      BY <2>1 DEF Gather, Collect, TypeInv, SpoolInv, SpoolTypes
    <3> QED
      BY <1>0, <3>1, RisingLater DEF RiseInv
  <2>2. CASE ~Gather
    <3>1. taken' = taken
      BY <2>2 DEF AgentStep, Persist, AppendBatch, PersistRefused, AppendRefused, PersistFails,
                  AppendFails, Fetch, TakeFront, TakeAck, ChunkAcknowledged, Removed,
                  AcknowledgeBatch, AcknowledgeOrphan, UploadStops, StopUpload, AgentRestarts,
                  Reopen, SendChunk, spoolVars
    <3> QED
      BY <3>1, LoadRises DEF RiseInv
  <2> QED
    BY <2>1, <2>2
<1>3. \A c \in late' : Rising(c.events, taken')
  <2>1. \A c \in late : c.events \in Seq(Event)
    BY DEF TypeInv, BusTypes, Content
  <2> QED
    BY <1>0, <2>1, RisingLater DEF RiseInv
<1>4. BusRises' /\ WorkRises'
  <2>1. \A k \in DOMAIN bus : bus[k].content.events \in Seq(Event)
    BY MessageEvents DEF TypeInv
  <2>2. BusRises'
    BY <1>0, <2>1, RisingLater DEF RiseInv, BusRises
  <2> QED
    BY <1>0, <2>2, WorkRisesStays DEF RiseInv
<1>5. \A i \in Call : CallRises(i)'
  <2>1. CASE ~\E i \in Call : SendChunk(i)
    <3>1. UNCHANGED <<call, todo, queued>> \/ \E i \in Call : Close(i)
      BY <2>1 DEF AgentStep, Gather, Persist, PersistRefused, PersistFails, Fetch, TakeAck, Removed,
                  UploadStops, AgentRestarts, Hangup, TypeInv, LinkTypes
    <3> QED
      BY <1>0, <3>1, CallsRise DEF RiseInv
  <2>2. ASSUME NEW i \in Call, SendChunk(i) PROVE \A j \in Call : CallRises(j)'
    <3>1. /\ todo' = [todo EXCEPT ![i] = Chunk] /\ queued' = queued /\ taken' = taken
          /\ call[i] = "free" /\ call' = [call EXCEPT ![i] = "open"]
      BY <2>2 DEF SendChunk, Report, spoolVars
    <3>2. \A j \in Call \ {i} : CallRises(j)'
      BY <1>0, <3>1, CallRisesStays DEF TypeInv, CallTypes, RiseInv
    <3>3. Chunk \in Seq(Event) /\ Rising(Chunk, taken)
      BY ChunkRises DEF RiseInv
    <3>4. queued[i] = <<>> /\ todo'[i] = Chunk
      BY <3>1 DEF RiseInv, CallRises, TypeInv, CallTypes
    <3>5. Batched(i)' = <<>>
      BY <3>1, <3>4 DEF Batched
    <3>6. Rising(<<>>, taken) /\ Before(<<>>, Chunk)
      BY DEF Rising, Before, EventsOf
    <3>7. CallRises(i)'
      BY <3>1, <3>3, <3>4, <3>5, <3>6 DEF CallRises
    <3> QED
      BY <3>2, <3>7
  <2> QED
    BY <2>1, <2>2
<1> QED
  BY <1>1, <1>2, <1>3, <1>4, <1>5 DEF RiseInv

\* Of a consumer's steps only Deliver and the end of a transaction change what
\* it works on, and only Ack changes the stream
LEMMA WorkKeepsRise ==
  ASSUME TypeInv, BusRises, WorkRises, taken' = taken, NEW w \in Worker, Work(w) \/ WorkFails(w)
  PROVE  BusRises' /\ WorkRises'
<1>0. BusTypes /\ WorkTypes
  BY DEF TypeInv
<1>1. BusRises'
  <2>1. CASE Ack(w)
    <3>1. \A j \in DOMAIN bus' : \E k \in DOMAIN bus : bus'[j] = bus[k]
      <4>1. CASE UNCHANGED bus
        BY <4>1
      <4>2. ASSUME NEW k \in DOMAIN bus, Len(bus) \in Nat, DOMAIN bus = 1..Len(bus),
                   DOMAIN bus' = 1..Len(bus) - 1,
                   \A j \in 1..Len(bus) - 1 : bus'[j] = IF j < k THEN bus[j] ELSE bus[j + 1],
                   NEW j \in DOMAIN bus'
            PROVE  \E i \in DOMAIN bus : bus'[j] = bus[i]
        <5>1. j \in DOMAIN bus /\ j + 1 \in DOMAIN bus
          BY <4>2
        <5> QED
          BY <4>2, <5>1
      <4> QED
        BY <1>0, <2>1, <4>1, <4>2, AckFacts
    <3> QED
      BY <3>1 DEF BusRises
  <2>2. CASE bus' = bus
    BY <2>2 DEF BusRises
  <2> QED
    BY <2>1, <2>2 DEF Work, WorkFails, Deliver, SkipDuplicate, InsertEvent, UpsertAlert, Commit,
                      Rollback, AckLost
<1>2. \A v \in Worker : \/ msg'[v] = msg[v] \/ msg'[v] = NoMsg
                        \/ \E k \in DOMAIN bus : msg'[v] = bus[k]
  BY <1>0 DEF Work, WorkFails, Deliver, SkipDuplicate, InsertEvent, UpsertAlert, Commit, Ack,
              Rollback, AckLost, Release, WorkTypes
<1>3. WorkRises'
  <2> SUFFICES ASSUME NEW v \in Worker PROVE Rising(EventsAt(v)', taken')
    BY DEF WorkRises
  <2>1. CASE msg'[v] = msg[v]
    BY <2>1 DEF EventsAt, WorkRises
  <2>2. CASE msg'[v] = NoMsg
    BY <2>2 DEF EventsAt, NoMsg, Rising
  <2>3. ASSUME NEW k \in DOMAIN bus, msg'[v] = bus[k] PROVE Rising(EventsAt(v)', taken')
    BY <2>3 DEF EventsAt, BusRises
  <2> QED
    BY <1>2, <2>1, <2>2, <2>3
<1> QED
  BY <1>1, <1>3

LEMMA CallKeepsRise ==
  ASSUME TypeInv, RiseInv, taken' = taken, NEW i \in Call, CallProceeds(i) \/ CallBreaks(i)
  PROVE  /\ \A j \in Call : CallRises(j)'
         /\ \A c \in late' : Rising(c.events, taken')
         /\ BusRises'
<1>0. taken \in Nat /\ CallRises(i) /\ \A j \in Call : CallRises(j)
  BY DirsFacts DEF RiseInv
<1>1. ASSUME UNCHANGED late PROVE \A c \in late' : Rising(c.events, taken')
  BY <1>1 DEF RiseInv
<1>2. ASSUME UNCHANGED bus PROVE BusRises'
  BY <1>2 DEF RiseInv, BusRises
<1>3. CASE Handle(i)
  BY <1>0, <1>1, <1>2, <1>3, HandleRises DEF Handle
<1>4. CASE Flush(i)
  <2>1. PICK content \in FirstOf(i) :
          /\ Store(content) /\ UNCHANGED <<call, todo, late>>
          /\ queued' = [queued EXCEPT ![i] = SubSeq(@, Len(content.events) + 1, Len(@))]
    BY <1>4 DEF Flush
  <2>2. /\ content \in Content /\ Len(content.events) \in 1..Len(queued[i])
        /\ Rising(content.events, taken)
    BY <1>0, FirstRises
  <2>3. \A j \in Call : CallRises(j)'
    BY <1>0, <2>1, <2>2, FlushRises
  <2>4. BusRises'
    BY <2>1, <2>2, StoreRises DEF RiseInv
  <2> QED
    BY <1>1, <2>1, <2>3, <2>4
<1>5. CASE SendAck(i)
  <2>1. /\ UNCHANGED <<todo, queued, bus, late>> /\ call' = [call EXCEPT ![i] = "acked"]
    BY <1>5 DEF SendAck
  <2>2. \A j \in Call : call'[j] = "free" => call[j] = "free"
    BY <2>1 DEF TypeInv, CallTypes
  <2>3. \A j \in Call : CallRises(j)'
    BY <1>0, <2>1, <2>2, CallRisesStays DEF TypeInv
  <2> QED
    BY <1>1, <1>2, <2>1, <2>3
<1>6. CASE CallEnds(i)
  <2>1. UNCHANGED <<bus, late>> /\ Close(i)
    BY <1>6 DEF CallEnds
  <2> QED
    BY <1>0, <1>1, <1>2, <2>1, CallsRise
<1>7. CASE FlushFails(i)
  <2>1. /\ UNCHANGED bus /\ Close(i)
        /\ late' = late \/ \E content \in FirstOf(i) : late' = late \union {content}
    BY <1>7 DEF FlushFails
  <2>2. \A c \in late' : Rising(c.events, taken')
    BY <1>0, <2>1, FirstRises DEF RiseInv
  <2> QED
    BY <1>0, <1>2, <2>1, <2>2, CallsRise
<1> QED
  BY <1>3, <1>4, <1>5, <1>6, <1>7 DEF CallProceeds, CallBreaks

LEMMA ServerKeepsRise == ASSUME TypeInv, KeptInv, RiseInv, ServerStep PROVE RiseInv'
<1>0. taken \in Nat /\ \A j \in Call : CallRises(j)
  BY DirsFacts DEF RiseInv
<1>1. UNCHANGED <<taken, batch, blocked, files, durable, load>>
  BY DEF ServerStep, CallProceeds, CallBreaks, LateArrives, Work, WorkFails, spoolVars
<1>2. ASSUME Confirmed \subseteq Confirmed'
      PROVE  DirsInOrder' /\ RemovedConfirmed' /\ Rising(load', taken')
  <2>1. DirsInOrder /\ RemovedConfirmed /\ Rising(load, taken)
    BY DEF RiseInv
  <2> QED
    BY <1>1, <1>2, <2>1 DEF DirsInOrder, RemovedConfirmed, Dirs, At
<1>3. ASSUME NEW i \in Call, CallProceeds(i) \/ CallBreaks(i) PROVE RiseInv'
  <2>1. UNCHANGED workVars /\ Confirmed \subseteq Confirmed'
    BY <1>3, CallStepFacts DEF CallProceeds, CallBreaks, KeptInv
  <2> QED
    BY <1>0, <1>1, <1>2, <1>3, <2>1, CallKeepsRise, WorkRisesStays DEF RiseInv
<1>4. CASE LateArrives
  <2>1. PICK content \in late : LateStored(content) \/ LateLost(content)
    BY <1>4 DEF LateArrives
  <2>2. /\ content \in Content /\ late' \subseteq late /\ Rising(content.events, taken)
        /\ UNCHANGED <<call, todo, queued>> /\ UNCHANGED <<workVars, stored>>
    BY <2>1 DEF LateStored, LateLost, TypeInv, BusTypes, RiseInv
  <2>3. BusRises' /\ Confirmed \subseteq Confirmed'
    <3>1. CASE LateStored(content)
      <4>1. Store(content)
        BY <3>1 DEF LateStored
      <4>2. BusTypes /\ BusRises /\ taken' = taken
        BY <1>1 DEF TypeInv, RiseInv
      <4>3. BusRises'
        BY <2>2, <4>1, <4>2, StoreRises
      <4> QED
        BY <2>2, <4>1, <4>2, <4>3, StoreConfirms
    <3>2. CASE LateLost(content)
      <4>1. bus' = bus /\ stored' = stored /\ taken' = taken
        BY <1>1, <2>2, <3>2 DEF LateLost
      <4> QED
        BY <4>1 DEF Confirmed, Published, RiseInv, BusRises
    <3> QED
      BY <2>1, <3>1, <3>2
  <2>4. \A j \in Call : CallRises(j)'
    BY <1>0, <1>1, <2>2, CallsRise
  <2>5. WorkRises'
    BY <1>0, <1>1, <2>2, WorkRisesStays DEF RiseInv
  <2> QED
    BY <1>1, <1>2, <2>2, <2>3, <2>4, <2>5 DEF RiseInv
<1>5. ASSUME NEW w \in Worker, Work(w) \/ WorkFails(w) PROVE RiseInv'
  <2>1. BusRises' /\ WorkRises'
    BY <1>1, <1>5, WorkKeepsRise DEF RiseInv
  <2>2. Confirmed \subseteq Confirmed' /\ UNCHANGED <<callVars, late>>
    <3>1. CASE Ack(w)
      BY <3>1, AckKeepsWorkers DEF Ack, KeptInv
    <3>2. CASE \/ \E k \in DOMAIN bus : Deliver(w, k)
               \/ SkipDuplicate(w) \/ InsertEvent(w) \/ UpsertAlert(w)
               \/ Commit(w) \/ Rollback(w) \/ AckLost(w)
      <4>1. UNCHANGED <<callVars, busVars>> /\ stored \subseteq stored'
        BY <3>2, WorkerStepKeepsWorkers DEF KeptInv
      <4> QED
        BY <4>1 DEF Confirmed, Published
    <3> QED
      BY <1>5, <3>1, <3>2 DEF Work, WorkFails
  <2>3. \A j \in Call : CallRises(j)'
    BY <1>0, <1>1, <2>2, CallsRise
  <2> QED
    BY <1>1, <1>2, <2>1, <2>2, <2>3 DEF RiseInv
<1> QED
  BY <1>3, <1>4, <1>5 DEF ServerStep

LEMMA RiseUnchanged == ASSUME TypeInv, RiseInv, UNCHANGED vars PROVE RiseInv'
<1>1. /\ UNCHANGED <<taken, batch, blocked, files, durable, load, call, todo, queued, late, bus>>
      /\ UNCHANGED <<stored, workVars>>
  BY DEF vars, spoolVars
<1>2. Confirmed' = Confirmed /\ taken \in Nat
  BY <1>1, DirsFacts DEF Confirmed, Published
<1>3. DirsInOrder' /\ RemovedConfirmed' /\ BusRises'
  BY <1>1, <1>2 DEF RiseInv, DirsInOrder, RemovedConfirmed, Dirs, At, BusRises
<1>4. \A i \in Call : CallRises(i)'
  BY <1>1, <1>2, CallsRise DEF RiseInv
<1> QED
  BY <1>1, <1>2, <1>3, <1>4, WorkRisesStays DEF RiseInv

LEMMA RiseInvariant == Spec => []RiseInv
<1>1. TypeInv /\ KeptInv /\ RiseInv /\ [Next]_vars => RiseInv'
  BY AgentKeepsRise, ServerKeepsRise, RiseUnchanged DEF Next
<1> QED
  BY TypeInvariant, KeptInvariant, InitRiseInv, <1>1, PTL DEF Spec
-----------------------------------------------------------------------------
(* What a list of alerts counts.                                            *)

LEMMA EventsAreFinite ==
  ASSUME NEW S, S \subseteq Event PROVE IsFiniteSet(S) /\ Cardinality(S) \in Nat
<1>1. 1 \in Int /\ MaxEvents \in Int
  OBVIOUS
<1>2. IsFiniteSet(1..MaxEvents)
  BY <1>1, FS_Interval
<1>3. S \in SUBSET (1..MaxEvents)
  BY DEF Event
<1> QED
  BY <1>2, <1>3, FS_Subset, FS_CardinalityType

\* A number of hits that is known
Counting(list) == IsFiniteSet(Units(list)) /\ CountOf(list) \in Nat

LEMMA UnitsOf ==
  ASSUME NEW list \in Seq(Alert), NEW u
  PROVE  u \in Units(list) <=> \E k \in 1..Len(list) : \E n \in 1..list[k].count : u = <<k, n>>
<1>1. DOMAIN list = 1..Len(list)
  OBVIOUS
<1> QED
  BY <1>1 DEF Units

\* Counted counts one hit more
LEMMA CountedAdds ==
  ASSUME NEW list \in Seq(Alert), NEW e \in Event, Counting(list)
  PROVE  Counting(Counted(list, e)) /\ CountOf(Counted(list, e)) = CountOf(list) + 1
<1> DEFINE n == Len(list)
           t == Ts[e]
           new == Counted(list, e)
<1>1. t \in Nat /\ n \in Nat /\ new \in Seq(Alert)
  BY CountedType
<1>2. ASSUME NEW u, u \notin Units(list), Units(new) = Units(list) \union {u}
      PROVE  Counting(new) /\ CountOf(new) = CountOf(list) + 1
  <2>1. /\ IsFiniteSet(Units(new)) /\ Cardinality(Units(new)) = Cardinality(Units(list)) + 1
    BY <1>2, FS_AddElement DEF Counting
  <2> QED
    BY <2>1 DEF Counting, CountOf
<1>3. CASE n > 0 /\ list[n].first <= t /\ t < list[n].first + Window
  <2> DEFINE a == [list[n] EXCEPT !.count = @ + 1, !.last = IF @ < t THEN t ELSE @]
  <2>1. n \in 1..n /\ list[n] \in Alert
    BY <1>1, <1>3
  <2>2. PICK c \in Nat : c = list[n].count /\ a.count = c + 1
    BY <2>1 DEF Alert
  <2>3. new = [list EXCEPT ![n] = a]
    <3>1. [list EXCEPT ![n].count = @ + 1, ![n].last  = IF @ < t THEN t ELSE @] = [list EXCEPT ![n] = a]
      BY <2>1
    <3> QED
      BY <1>3, <3>1 DEF Counted
  <2> HIDE DEF a
  <2>4. Len(new) = n /\ new[n] = a /\ \A k \in 1..n : k # n => new[k] = list[k]
    BY <1>1, <2>1, <2>3
  <2> HIDE DEF new
  <2>5. <<n, c + 1>> \notin Units(list)
    BY <1>1, <2>1, <2>2, UnitsOf
  <2>6. Units(new) = Units(list) \union {<<n, c + 1>>}
    <3>1. ASSUME NEW k \in 1..n, NEW m \in 1..new[k].count
          PROVE  <<k, m>> \in Units(list) \union {<<n, c + 1>>}
      <4>1. CASE k = n
        <5>1. m \in 1..c + 1
          BY <2>2, <2>4, <3>1, <4>1
        <5>2. m \in 1..c \/ m = c + 1
          BY <5>1
        <5> QED
          BY <2>1, <2>2, <4>1, <5>2, UnitsOf
      <4>2. CASE k # n
        BY <2>4, <3>1, <4>2, UnitsOf
      <4> QED
        BY <4>1, <4>2
    <3>2. ASSUME NEW k \in 1..n, NEW m \in 1..list[k].count PROVE <<k, m>> \in Units(new)
      <4>1. m \in 1..new[k].count
        <5>1. CASE k = n
          <6>1. m \in 1..c + 1
            BY <2>2, <3>2, <5>1
          <6> QED
            BY <2>2, <2>4, <5>1, <6>1
        <5>2. CASE k # n
          BY <2>4, <3>2, <5>2
        <5> QED
          BY <5>1, <5>2
      <4> QED
        BY <1>1, <2>4, <4>1, UnitsOf
    <3>3. <<n, c + 1>> \in Units(new)
      <4>1. c + 1 \in 1..new[n].count
        BY <2>2, <2>4
      <4> QED
        BY <1>1, <2>1, <2>4, <4>1, UnitsOf
    <3>4. Units(new) \subseteq Units(list) \union {<<n, c + 1>>}
      BY <1>1, <2>4, <3>1, UnitsOf
    <3>5. Units(list) \subseteq Units(new)
      BY <3>2, UnitsOf
    <3> QED
      BY <3>3, <3>4, <3>5
  <2> QED
    BY <1>2, <2>5, <2>6 DEF new
<1>4. CASE ~(n > 0 /\ list[n].first <= t /\ t < list[n].first + Window)
  <2> DEFINE a == [first |-> t, last |-> t, count |-> 1]
  <2>1. new = Append(list, a) /\ a \in Alert /\ a.count = 1
    BY <1>1, <1>4 DEF Counted, Alert
  <2> HIDE DEF a
  <2>2. Len(new) = n + 1 /\ new[n + 1] = a /\ \A k \in 1..n : new[k] = list[k]
    BY <2>1
  <2> HIDE DEF new
  <2>3. <<n + 1, 1>> \notin Units(list)
    BY <1>1, UnitsOf
  <2>4. Units(new) = Units(list) \union {<<n + 1, 1>>}
    <3>1. \A k \in 1..n + 1 : k \in 1..n \/ k = n + 1
      BY <1>1
    <3>2. \A m : m \in 1..1 <=> m = 1
      OBVIOUS
    <3>3. n + 1 \in 1..n + 1 /\ \A k \in 1..n : k \in 1..n + 1
      BY <1>1
    <3>4. ASSUME NEW k \in 1..n + 1, NEW m \in 1..new[k].count
          PROVE  <<k, m>> \in Units(list) \union {<<n + 1, 1>>}
      <4>1. CASE k = n + 1
        BY <2>1, <2>2, <3>2, <3>4, <4>1
      <4>2. CASE k \in 1..n
        BY <2>2, <3>4, <4>2, UnitsOf
      <4> QED
        BY <3>1, <4>1, <4>2
    <3>7. Units(new) \subseteq Units(list) \union {<<n + 1, 1>>}
      BY <1>1, <2>2, <3>4, UnitsOf
    <3>5. Units(list) \subseteq Units(new)
      BY <1>1, <2>2, <3>3, UnitsOf
    <3>6. <<n + 1, 1>> \in Units(new)
      BY <1>1, <2>1, <2>2, <3>2, <3>3, UnitsOf
    <3> QED
      BY <3>5, <3>6, <3>7
  <2> QED
    BY <1>2, <2>3, <2>4 DEF new
<1> QED
  BY <1>3, <1>4
-----------------------------------------------------------------------------
(* Transactions.                                                            *)

\* The hits of a transaction that are in its view of the alerts
Handled(w) == {e \in mine[w] \intersect Hit : \E k \in 1..pos[w] : EventsAt(w)[k] = e}

\* A transaction's events are new, and each was passed or is a hit whose alert
\* is next; its view is what is committed and one count for each hit handled
MineOK(w) ==
  /\ worker[w] # "open" => mine[w] = {} /\ view[w] = Unread
  /\ mine[w] \intersect stored = {}
  /\ \A e \in mine[w] : \E k \in DOMAIN EventsAt(w) :
       EventsAt(w)[k] = e /\ (k <= pos[w] \/ (k = pos[w] + 1 /\ e \in Hit))
  /\ Counting(Alerts(w))
  /\ CountOf(Alerts(w)) = CountOf(alerts[ShardAt(w)]) + Cardinality(Handled(w))

\* Two transactions insert different events, and only one of a shard has a view
Apart ==
  \A v, w \in Worker : v # w =>
    /\ mine[v] \intersect mine[w] = {}
    /\ view[v] = Unread \/ view[w] = Unread \/ ShardAt(v) # ShardAt(w)

AlertsOK == \A s \in Shard : Counting(alerts[s])

CountInv == (\A w \in Worker : MineOK(w)) /\ Apart /\ AlertsOK /\ CountedOnce

LEMMA InitCountInv == Init => CountInv
<1> SUFFICES ASSUME Init PROVE CountInv
  OBVIOUS
<1>1. /\ worker = [w \in Worker |-> "idle"] /\ mine = [w \in Worker |-> {}]
      /\ view = [w \in Worker |-> Unread] /\ msg = [w \in Worker |-> NoMsg]
      /\ stored = {} /\ alerts = [s \in Shard |-> <<>>]
  BY DEF Init, IntakeInit
<1>2. Counting(<<>>) /\ CountOf(<<>>) = 0
  <2>1. Units(<<>>) = {}
    BY DEF Units
  <2>2. IsFiniteSet({}) /\ Cardinality({}) = 0
    BY FS_EmptySet
  <2>3. 0 \in Nat
    OBVIOUS
  <2> QED
    BY <2>1, <2>2, <2>3, Zenon DEF Counting, CountOf
<1>3. AlertsOK /\ Apart
  BY <1>1, <1>2 DEF AlertsOK, Apart
<1>4. CountedOnce
  <2>1. Cardinality(stored \intersect Hit) = 0
    BY <1>1, FS_EmptySet
  <2>2. Counts = 0
    BY <1>1, <1>2 DEF Counts, Shard
  <2> QED
    BY <2>1, <2>2 DEF CountedOnce
<1>5. \A w \in Worker : MineOK(w)
  <2> SUFFICES ASSUME NEW w \in Worker PROVE MineOK(w)
    OBVIOUS
  <2>1. mine[w] = {} /\ view[w] = Unread /\ stored = {} /\ worker[w] = "idle"
    BY <1>1
  <2>2. ShardAt(w) \in Shard
    BY <1>1 DEF ShardAt, NoMsg, Shard
  <2>3. Alerts(w) = <<>> /\ alerts[ShardAt(w)] = <<>>
    BY <1>1, <2>1, <2>2 DEF Alerts
  <2>4. Handled(w) = {}
    BY <2>1 DEF Handled
  <2>5. Cardinality(Handled(w)) = 0
    BY <2>4, FS_EmptySet
  <2> QED
    BY <1>2, <2>1, <2>3, <2>5 DEF MineOK
<1> QED
  BY <1>3, <1>4, <1>5 DEF CountInv

\* A transaction that has not inserted anything yet, or is over
LEMMA FreshMineOK ==
  ASSUME NEW w \in Worker, mine'[w] = {}, view'[w] = Unread, AlertsOK', ShardAt(w)' \in Shard
  PROVE  MineOK(w)'
<1>1. Alerts(w)' = alerts'[ShardAt(w)'] /\ Counting(alerts'[ShardAt(w)'])
  BY DEF Alerts, AlertsOK
<1>2. Handled(w)' = {}
  BY DEF Handled
<1>3. Cardinality(Handled(w)') = 0
  BY <1>2, FS_EmptySet
<1>4. CountOf(Alerts(w)') \in Nat
  BY <1>1 DEF Counting
<1> QED
  BY <1>1, <1>3, <1>4 DEF MineOK

LEMMA MineStays ==
  ASSUME NEW w \in Worker, MineOK(w), UNCHANGED <<stored, alerts>>,
         worker'[w] = worker[w], msg'[w] = msg[w], pos'[w] = pos[w], mine'[w] = mine[w],
         view'[w] = view[w]
  PROVE  MineOK(w)'
<1>1. /\ EventsAt(w)' = EventsAt(w) /\ ShardAt(w)' = ShardAt(w) /\ Alerts(w)' = Alerts(w)
  BY DEF EventsAt, ShardAt, Alerts
<1>2. Handled(w)' = Handled(w)
  BY <1>1 DEF Handled
<1> QED
  BY <1>1, <1>2 DEF MineOK

-----------------------------------------------------------------------------
(* A transaction's steps.                                                   *)

\* The event that is next stands at one place of the message
LEMMA CurrentFacts ==
  ASSUME WorkTypes, WorkRises, NEW w \in Worker, More(w)
  PROVE  /\ pos[w] \in Nat /\ pos[w] + 1 \in DOMAIN EventsAt(w)
         /\ Current(w) \in Event /\ Current(w) = EventsAt(w)[pos[w] + 1]
         /\ \A k \in DOMAIN EventsAt(w) : EventsAt(w)[k] = Current(w) => k = pos[w] + 1
<1> DEFINE b == EventsAt(w)
           p == pos[w]
<1>1. b \in Seq(Event) /\ p \in Nat /\ Len(b) \in Nat /\ Current(w) \in Event
  BY AtFacts
<1>2. p + 1 \in DOMAIN b
  <2>1. p < Len(b)
    BY DEF More
  <2> HIDE DEF b, p
  <2> QED
    BY <1>1, <2>1
<1>3. Rising(b, taken)
  BY DEF WorkRises
<1>4. Current(w) = b[p + 1]
  BY DEF Current
<1> HIDE DEF b, p
<1>5. \A k \in DOMAIN b : b[k] = b[p + 1] => k = p + 1
  BY <1>1, <1>2, <1>3, RisingOnce
<1> QED
  BY <1>1, <1>2, <1>4, <1>5 DEF b, p

\* An event that is no hit, or was there before: nothing more is handled
LEMMA SkipKeepsMine ==
  ASSUME TypeInv, WorkRises, NEW w \in Worker, MineOK(w), SkipDuplicate(w)
  PROVE  MineOK(w)' /\ Handled(w)' = Handled(w)
<1>0. WorkTypes
  BY DEF TypeInv
<1>1. More(w) /\ Current(w) \notin mine[w] /\ UNCHANGED <<worker, msg, mine, view, stored, alerts>>
  BY DEF SkipDuplicate
<1>2. pos'[w] = pos[w] + 1
  BY <1>0 DEF SkipDuplicate, Advance, WorkTypes
<1>3. /\ EventsAt(w)' = EventsAt(w) /\ ShardAt(w)' = ShardAt(w) /\ Alerts(w)' = Alerts(w)
  BY <1>1 DEF EventsAt, ShardAt, Alerts
<1>4. /\ pos[w] \in Nat /\ Current(w) = EventsAt(w)[pos[w] + 1]
      /\ \A k \in 1..pos[w] + 1 : k \in 1..pos[w] \/ k = pos[w] + 1
      /\ \A k \in 1..pos[w] : k \in 1..pos[w] + 1
  BY <1>0, <1>1, CurrentFacts
<1>5. Handled(w)' = Handled(w)
  BY <1>1, <1>2, <1>3, <1>4 DEF Handled
<1>6. \A e \in mine[w] : \E k \in DOMAIN EventsAt(w) : EventsAt(w)[k] = e /\ k <= pos[w] + 1
  <2> SUFFICES ASSUME NEW e \in mine[w]
               PROVE  \E k \in DOMAIN EventsAt(w) : EventsAt(w)[k] = e /\ k <= pos[w] + 1
    OBVIOUS
  <2>1. PICK k \in DOMAIN EventsAt(w) : EventsAt(w)[k] = e /\ (k <= pos[w] \/ k = pos[w] + 1)
    BY DEF MineOK
  <2>2. k \in Nat
    BY <1>0, AtFacts
  <2>3. k <= pos[w] + 1
    BY <1>4, <2>1, <2>2
  <2> QED
    BY <2>1, <2>3
<1>7. worker[w] = "open"
  BY <1>1 DEF More
<1> QED
  BY <1>1, <1>2, <1>3, <1>5, <1>6, <1>7 DEF MineOK

LEMMA InsertKeepsMine ==
  ASSUME TypeInv, WorkRises, NEW w \in Worker, MineOK(w), InsertEvent(w)
  PROVE  /\ MineOK(w)' /\ Handled(w)' = Handled(w)
         /\ mine'[w] = mine[w] \union {Current(w)}
<1> DEFINE e == Current(w)
<1>0. WorkTypes
  BY DEF TypeInv
<1>1. /\ More(w) /\ e \notin stored /\ e \notin mine[w]
      /\ UNCHANGED <<worker, msg, view, stored, alerts>>
  BY DEF InsertEvent
<1>2. mine'[w] = mine[w] \union {e}
  BY <1>0 DEF InsertEvent, WorkTypes
<1>3. /\ EventsAt(w)' = EventsAt(w) /\ ShardAt(w)' = ShardAt(w) /\ Alerts(w)' = Alerts(w)
  BY <1>1 DEF EventsAt, ShardAt, Alerts
<1>4. /\ pos[w] \in Nat /\ pos[w] + 1 \in DOMAIN EventsAt(w)
      /\ e \in Event /\ e = EventsAt(w)[pos[w] + 1]
      /\ \A k \in DOMAIN EventsAt(w) : EventsAt(w)[k] = e => k = pos[w] + 1
  BY <1>0, <1>1, CurrentFacts
<1>5. \/ e \in Hit /\ pos'[w] = pos[w]
      \/ e \notin Hit /\ pos'[w] = pos[w] + 1
  BY <1>0 DEF InsertEvent, Advance, WorkTypes
<1>6. worker[w] = "open"
  BY <1>1 DEF More
<1> HIDE DEF e
<1>7. DOMAIN EventsAt(w) = 1..Len(EventsAt(w)) /\ Len(EventsAt(w)) \in Nat
  BY <1>0, AtFacts
<1>8. Handled(w)' = Handled(w)
  <2>1. CASE e \in Hit /\ pos'[w] = pos[w]
    <3>1. ~\E k \in 1..pos[w] : EventsAt(w)[k] = e
      <4>1. ASSUME NEW k \in 1..pos[w], EventsAt(w)[k] = e PROVE FALSE
        <5>1. k \in DOMAIN EventsAt(w) /\ k # pos[w] + 1
          BY <1>4, <1>7
        <5> QED
          BY <1>4, <4>1, <5>1
      <4> QED
        BY <4>1
    <3> QED
      BY <1>2, <1>3, <2>1, <3>1 DEF Handled
  <2>2. CASE e \notin Hit /\ pos'[w] = pos[w] + 1
    <3>1. /\ \A k \in 1..pos[w] + 1 : k \in 1..pos[w] \/ k = pos[w] + 1
          /\ \A k \in 1..pos[w] : k \in 1..pos[w] + 1
      BY <1>4
    <3>2. mine'[w] \intersect Hit = mine[w] \intersect Hit
      BY <1>2, <2>2
    <3> QED
      BY <1>3, <1>4, <2>2, <3>1, <3>2 DEF Handled
  <2> QED
    BY <1>5, <2>1, <2>2
<1>9. \A d \in mine'[w] : \E k \in DOMAIN EventsAt(w) :
         EventsAt(w)[k] = d /\ (k <= pos'[w] \/ (k = pos'[w] + 1 /\ d \in Hit))
  <2> SUFFICES ASSUME NEW d \in mine'[w]
               PROVE  \E k \in DOMAIN EventsAt(w) :
                        EventsAt(w)[k] = d /\ (k <= pos'[w] \/ (k = pos'[w] + 1 /\ d \in Hit))
    OBVIOUS
  <2>1. CASE d = e
    <3>1. pos[w] + 1 <= pos[w] + 1
      BY <1>4
    <3> QED
      BY <1>4, <1>5, <2>1, <3>1
  <2>2. CASE d \in mine[w]
    <3>1. PICK k \in DOMAIN EventsAt(w) :
            EventsAt(w)[k] = d /\ (k <= pos[w] \/ (k = pos[w] + 1 /\ d \in Hit))
      BY <2>2 DEF MineOK
    <3>2. k \in Nat /\ (k <= pos[w] => k <= pos[w] + 1) /\ (k = pos[w] + 1 => k <= pos[w] + 1)
      BY <1>4, <1>7
    <3> QED
      BY <1>5, <3>1, <3>2
  <2> QED
    BY <1>2, <2>1, <2>2
<1>10. mine'[w] \intersect stored = {}
  BY <1>1, <1>2 DEF MineOK
<1>11. Counting(Alerts(w)) /\ CountOf(Alerts(w)) = CountOf(alerts[ShardAt(w)]) + Cardinality(Handled(w))
  BY DEF MineOK
<1>12. MineOK(w)'
  BY <1>1, <1>3, <1>6, <1>8, <1>9, <1>10, <1>11 DEF MineOK
<1> QED
  BY <1>2, <1>8, <1>12 DEF e

LEMMA AlertsFacts ==
  ASSUME TypeInv, NEW w \in Worker, MineOK(w), AlertsOK
  PROVE  /\ Alerts(w) \in Seq(Alert) /\ alerts[ShardAt(w)] \in Seq(Alert)
         /\ Counting(Alerts(w)) /\ CountOf(alerts[ShardAt(w)]) \in Nat
         /\ IsFiniteSet(Handled(w)) /\ Cardinality(Handled(w)) \in Nat
<1>0. WorkTypes /\ DbTypes
  BY DEF TypeInv
<1>1. ShardAt(w) \in Shard
  BY <1>0, AtFacts
<1>2. alerts[ShardAt(w)] \in Seq(Alert) /\ CountOf(alerts[ShardAt(w)]) \in Nat
  BY <1>0, <1>1 DEF DbTypes, AlertsOK, Counting
<1>3. Alerts(w) \in Seq(Alert)
  BY <1>0, <1>2 DEF Alerts, WorkTypes
<1>4. Handled(w) \subseteq Event
  BY <1>0 DEF Handled, WorkTypes
<1>5. Counting(Alerts(w))
  BY DEF MineOK
<1> QED
  BY <1>2, <1>3, <1>4, <1>5, EventsAreFinite

\* A hit gets its count in the transaction's view
LEMMA UpsertKeepsMine ==
  ASSUME TypeInv, WorkRises, NEW w \in Worker, MineOK(w), AlertsOK, UpsertAlert(w)
  PROVE  MineOK(w)' /\ Handled(w)' = Handled(w) \union {Current(w)}
<1> DEFINE e == Current(w)
           list == Alerts(w)
           s == ShardAt(w)
<1>0. WorkTypes
  BY DEF TypeInv
<1>1. More(w) /\ e \in mine[w] /\ UNCHANGED <<worker, msg, mine, stored, alerts>>
  BY DEF UpsertAlert
<1>2. pos'[w] = pos[w] + 1 /\ view'[w] = Counted(list, e)
  BY <1>0 DEF UpsertAlert, Advance, WorkTypes
<1>3. /\ pos[w] \in Nat /\ pos[w] + 1 \in DOMAIN EventsAt(w)
      /\ e \in Event /\ e = EventsAt(w)[pos[w] + 1]
      /\ \A k \in DOMAIN EventsAt(w) : EventsAt(w)[k] = e => k = pos[w] + 1
  BY <1>0, <1>1, CurrentFacts
<1>4. /\ list \in Seq(Alert) /\ Counting(list) /\ CountOf(alerts[s]) \in Nat
      /\ IsFiniteSet(Handled(w)) /\ Cardinality(Handled(w)) \in Nat
      /\ CountOf(list) = CountOf(alerts[s]) + Cardinality(Handled(w))
  BY AlertsFacts DEF MineOK
<1>5. EventsAt(w)' = EventsAt(w) /\ ShardAt(w)' = s
  BY <1>1 DEF EventsAt, ShardAt
<1>6. worker[w] = "open"
  BY <1>1 DEF More
<1>7. PICK i \in DOMAIN EventsAt(w) :
        EventsAt(w)[i] = e /\ (i <= pos[w] \/ (i = pos[w] + 1 /\ e \in Hit))
  BY <1>1 DEF MineOK
<1>8. DOMAIN EventsAt(w) = 1..Len(EventsAt(w)) /\ Len(EventsAt(w)) \in Nat
  BY <1>0, AtFacts
<1> HIDE DEF e, list, s
<1>9. e \in Hit
  <2>1. i = pos[w] + 1
    BY <1>3, <1>7
  <2> QED
    BY <1>3, <1>7, <2>1
<1>10. Alerts(w)' = Counted(list, e)
  <2>1. Counted(list, e) \in Seq(Alert)
    BY <1>3, <1>4, CountedType
  <2>2. Counted(list, e) # Unread
    BY <2>1, ViewAssumption, Zenon
  <2> QED
    BY <1>2, <2>2 DEF Alerts
<1>11. Counting(Counted(list, e)) /\ CountOf(Counted(list, e)) = CountOf(list) + 1
  BY <1>3, <1>4, CountedAdds
<1>12. e \notin Handled(w) /\ Handled(w)' = Handled(w) \union {e}
  <2>1. \A k \in 1..pos[w] : EventsAt(w)[k] # e
    <3>1. ASSUME NEW k \in 1..pos[w] PROVE EventsAt(w)[k] # e
      <4>1. k \in DOMAIN EventsAt(w) /\ k # pos[w] + 1
        BY <1>3, <1>8
      <4> QED
        BY <1>3, <4>1
    <3> QED
      BY <3>1
  <2>2. /\ \A k \in 1..pos[w] + 1 : k \in 1..pos[w] \/ k = pos[w] + 1
        /\ \A k \in 1..pos[w] : k \in 1..pos[w] + 1
        /\ pos[w] + 1 \in 1..pos[w] + 1
    BY <1>3
  <2>3. e \notin Handled(w)
    BY <2>1 DEF Handled
  <2>4. \A d \in mine[w] \intersect Hit :
          (\E k \in 1..pos[w] + 1 : EventsAt(w)[k] = d)
            <=> d = e \/ \E k \in 1..pos[w] : EventsAt(w)[k] = d
    BY <1>3, <2>2
  <2>5. Handled(w)' = {d \in mine[w] \intersect Hit : \E k \in 1..pos[w] + 1 : EventsAt(w)[k] = d}
    BY <1>1, <1>2, <1>5 DEF Handled
  <2> QED
    BY <1>1, <1>9, <2>3, <2>4, <2>5 DEF Handled
<1>13. Cardinality(Handled(w)') = Cardinality(Handled(w)) + 1
  <2>1. Cardinality(Handled(w) \union {e}) = Cardinality(Handled(w)) + 1
    BY <1>4, <1>12, FS_AddElement
  <2> QED
    BY <1>12, <2>1
<1>14. /\ Counting(Alerts(w)')
       /\ CountOf(Alerts(w)') = CountOf(alerts'[ShardAt(w)']) + Cardinality(Handled(w)')
  <2>1. CountOf(Alerts(w)') = CountOf(list) + 1
    BY <1>10, <1>11
  <2>2. CountOf(alerts'[ShardAt(w)']) = CountOf(alerts[s])
    BY <1>1, <1>5
  <2>3. Counting(Alerts(w)')
    BY <1>10, <1>11
  <2> QED
    BY <1>4, <1>13, <2>1, <2>2, <2>3
<1>15. \A d \in mine[w] : \E k \in DOMAIN EventsAt(w) : EventsAt(w)[k] = d /\ k <= pos[w] + 1
  <2> SUFFICES ASSUME NEW d \in mine[w]
               PROVE  \E k \in DOMAIN EventsAt(w) : EventsAt(w)[k] = d /\ k <= pos[w] + 1
    OBVIOUS
  <2>1. PICK k \in DOMAIN EventsAt(w) : EventsAt(w)[k] = d /\ (k <= pos[w] \/ k = pos[w] + 1)
    BY DEF MineOK
  <2>2. k <= pos[w] + 1
    BY <1>3, <1>8, <2>1
  <2> QED
    BY <2>1, <2>2
<1>16. mine'[w] \intersect stored' = {}
  BY <1>1 DEF MineOK
<1>17. MineOK(w)'
  BY <1>1, <1>2, <1>5, <1>6, <1>14, <1>15, <1>16 DEF MineOK
<1> QED
  BY <1>12, <1>17 DEF e

\* At its end a transaction has handled every hit it inserted
LEMMA FinishedHandled ==
  ASSUME TypeInv, NEW w \in Worker, MineOK(w), Finished(w)
  PROVE  Handled(w) = mine[w] \intersect Hit
<1>1. DOMAIN EventsAt(w) = 1..pos[w] /\ pos[w] \in Nat
  BY AtFacts DEF TypeInv, Finished
<1>2. \A e \in mine[w] : \E k \in 1..pos[w] : EventsAt(w)[k] = e
  BY <1>1 DEF MineOK
<1> QED
  BY <1>2 DEF Handled

-----------------------------------------------------------------------------
(* The consumers' steps, but for the commit.                                *)

LEMMA ApartStays ==
  ASSUME Apart, NEW w \in Worker,
         \A v \in Others(w) : mine'[v] = mine[v] /\ view'[v] = view[v] /\ msg'[v] = msg[v],
         \A v \in Others(w) : mine'[w] \intersect mine[v] = {},
         \/ view'[w] = Unread
         \/ ShardAt(w)' = ShardAt(w) /\ (view'[w] = view[w] \/ Locked(w))
  PROVE  Apart'
<1>1. \A v \in Others(w) : ShardAt(v)' = ShardAt(v)
  BY DEF ShardAt
<1>2. ASSUME NEW v \in Others(w)
      PROVE  view'[v] = Unread \/ view'[w] = Unread \/ ShardAt(v)' # ShardAt(w)'
  <2>1. v \in Worker /\ v # w
    BY DEF Others
  <2>2. view[v] = Unread \/ view[w] = Unread \/ ShardAt(v) # ShardAt(w)
    BY <2>1 DEF Apart
  <2> QED
    BY <1>1, <1>2, <2>2 DEF Locked
<1>3. \A u, v \in Worker : u # v => u \in Others(v) /\ v \in Others(u)
  BY DEF Others
<1>4. ASSUME NEW u \in Others(w), NEW v \in Others(w), u # v
      PROVE  /\ mine'[u] \intersect mine'[v] = {}
             /\ view'[u] = Unread \/ view'[v] = Unread \/ ShardAt(u)' # ShardAt(v)'
  <2>1. u \in Worker /\ v \in Worker
    BY DEF Others
  <2> QED
    BY <1>1, <1>4, <2>1 DEF Apart
<1>5. ASSUME NEW u \in Worker, NEW v \in Worker, u # v
      PROVE  /\ mine'[u] \intersect mine'[v] = {}
             /\ view'[u] = Unread \/ view'[v] = Unread \/ ShardAt(u)' # ShardAt(v)'
  <2>1. CASE u = w
    BY <1>2, <1>3, <1>5, <2>1
  <2>2. CASE v = w
    BY <1>2, <1>3, <1>5, <2>2
  <2>3. CASE u # w /\ v # w
    BY <1>3, <1>4, <1>5, <2>3
  <2> QED
    BY <2>1, <2>2, <2>3
<1>6. ASSUME NEW u \in Worker, NEW v \in Worker
      PROVE  (u # v => /\ mine[u] \intersect mine[v] = {}
                       /\ view[u] = Unread \/ view[v] = Unread \/ ShardAt(u) # ShardAt(v))'
  BY <1>5
<1> QED
  BY <1>6 DEF Apart

\* The committed rows and alerts stay: what is to be shown is of one transaction
LEMMA CountStays ==
  ASSUME CountInv, NEW w \in Worker, UNCHANGED dbVars,
         \A v \in Others(w) : /\ worker'[v] = worker[v] /\ msg'[v] = msg[v] /\ pos'[v] = pos[v]
                              /\ mine'[v] = mine[v] /\ view'[v] = view[v],
         MineOK(w)',
         \A v \in Others(w) : mine'[w] \intersect mine[v] = {},
         \/ view'[w] = Unread
         \/ ShardAt(w)' = ShardAt(w) /\ (view'[w] = view[w] \/ Locked(w))
  PROVE  CountInv'
<1>1. ASSUME NEW v \in Others(w) PROVE MineOK(v)'
  <2>1. v \in Worker /\ MineOK(v)
    BY DEF Others, CountInv
  <2> QED
    BY <2>1, MineStays
<1>2. \A v \in Worker : MineOK(v)'
  BY <1>1 DEF Others
<1>3. Apart'
  <2>1. Apart
    BY DEF CountInv
  <2> QED
    BY <2>1, ApartStays
<1>4. AlertsOK' /\ CountedOnce'
  BY DEF CountInv, AlertsOK, CountedOnce, Counts
<1> QED
  BY <1>2, <1>3, <1>4 DEF CountInv

LEMMA WorkerKeepsCount ==
  ASSUME TypeInv, WorkersOK, WorkRises, CountInv, NEW w \in Worker,
         \/ \E k \in DOMAIN bus : Deliver(w, k)
         \/ SkipDuplicate(w) \/ InsertEvent(w) \/ UpsertAlert(w)
         \/ Ack(w) \/ Rollback(w) \/ AckLost(w)
  PROVE  CountInv'
<1>0. WorkTypes /\ BusTypes /\ MineOK(w) /\ AlertsOK /\ Apart
  BY DEF TypeInv, CountInv
<1>1. UNCHANGED dbVars
  BY DEF Deliver, SkipDuplicate, InsertEvent, UpsertAlert, Ack, Rollback, AckLost
<1>2. \A v \in Others(w) : /\ worker'[v] = worker[v] /\ msg'[v] = msg[v] /\ pos'[v] = pos[v]
                           /\ mine'[v] = mine[v] /\ view'[v] = view[v]
  BY <1>0 DEF Deliver, SkipDuplicate, InsertEvent, UpsertAlert, Ack, Rollback, AckLost,
              Release, Advance, WorkTypes, Others
<1>3. \A v \in Others(w) : mine[w] \intersect mine[v] = {}
  BY <1>0 DEF Apart, Others
<1>4. AlertsOK'
  BY <1>0, <1>1 DEF AlertsOK
<1>5. ASSUME mine'[w] = {}, view'[w] = Unread, ShardAt(w)' \in Shard PROVE CountInv'
  <2>1. MineOK(w)'
    BY <1>4, <1>5, FreshMineOK
  <2> QED
    BY <1>1, <1>2, <1>5, <2>1, CountStays
<1>6. ASSUME NEW k \in DOMAIN bus, Deliver(w, k) PROVE CountInv'
  <2>1. mine'[w] = {} /\ view'[w] = Unread
    BY <1>0, <1>6 DEF Deliver, MineOK
  <2>2. bus[k] \in Message /\ msg'[w] = bus[k]
    BY <1>0, <1>6 DEF Deliver, WorkTypes, BusTypes
  <2>3. ShardAt(w)' \in Shard
    BY <2>2 DEF ShardAt, Message, Content
  <2> QED
    BY <1>5, <2>1, <2>3
<1>7. CASE Ack(w) \/ Rollback(w) \/ AckLost(w)
  <2>1. mine'[w] = {} /\ view'[w] = Unread /\ msg'[w] = NoMsg
    BY <1>0, <1>7 DEF Ack, Rollback, AckLost, Release, WorkTypes
  <2>2. ShardAt(w)' \in Shard
    BY <2>1 DEF ShardAt, NoMsg, Shard
  <2> QED
    BY <1>5, <2>1, <2>2
<1>8. CASE SkipDuplicate(w)
  <2>1. MineOK(w)'
    BY <1>0, <1>8, SkipKeepsMine
  <2>2. mine'[w] = mine[w] /\ view'[w] = view[w] /\ ShardAt(w)' = ShardAt(w)
    BY <1>8 DEF SkipDuplicate, ShardAt
  <2> QED
    BY <1>1, <1>2, <1>3, <2>1, <2>2, CountStays
<1>9. CASE InsertEvent(w)
  <2>1. MineOK(w)' /\ mine'[w] = mine[w] \union {Current(w)}
    BY <1>0, <1>9, InsertKeepsMine
  <2>2. view'[w] = view[w] /\ ShardAt(w)' = ShardAt(w) /\ NotInserting(w, Current(w))
    BY <1>9 DEF InsertEvent, ShardAt
  <2>3. \A v \in Others(w) : mine'[w] \intersect mine[v] = {}
    BY <1>3, <2>1, <2>2 DEF NotInserting
  <2> QED
    BY <1>1, <1>2, <2>1, <2>2, <2>3, CountStays
<1>10. CASE UpsertAlert(w)
  <2>1. MineOK(w)'
    BY <1>0, <1>10, UpsertKeepsMine
  <2>2. mine'[w] = mine[w] /\ Locked(w) /\ ShardAt(w)' = ShardAt(w)
    BY <1>10 DEF UpsertAlert, ShardAt
  <2> QED
    BY <1>1, <1>2, <1>3, <2>1, <2>2, CountStays
<1> QED
  BY <1>6, <1>7, <1>8, <1>9, <1>10

-----------------------------------------------------------------------------
(* The commit.                                                              *)

\* What is committed grows by the hits the transaction inserted
LEMMA CommitFacts ==
  ASSUME TypeInv, CountInv, NEW w \in Worker, Commit(w)
  PROVE  /\ AlertsOK' /\ stored' = stored \union mine[w]
         /\ \A s \in Shard : s # ShardAt(w) => alerts'[s] = alerts[s]
         /\ alerts'[ShardAt(w)] = Alerts(w) /\ ShardAt(w) \in Shard
         /\ CountOf(alerts'[ShardAt(w)]) = CountOf(alerts[ShardAt(w)]) + Cardinality(mine[w] \intersect Hit)
<1>0. WorkTypes /\ DbTypes /\ MineOK(w) /\ AlertsOK
  BY DEF TypeInv, CountInv
<1>1. ShardAt(w) \in Shard
  BY <1>0, AtFacts
<1>2. /\ stored' = stored \union mine[w]
      /\ \A s \in Shard : s # ShardAt(w) => alerts'[s] = alerts[s]
      /\ alerts'[ShardAt(w)] = Alerts(w)
  BY <1>0, <1>1 DEF Commit, DbTypes
<1>3. AlertsOK'
  <2>1. \A s \in Shard : Counting(alerts'[s])
    BY <1>0, <1>2 DEF AlertsOK, MineOK
  <2> QED
    BY <2>1 DEF AlertsOK
<1>4. CountOf(alerts'[ShardAt(w)]) = CountOf(alerts[ShardAt(w)]) + Cardinality(mine[w] \intersect Hit)
  <2>1. Handled(w) = mine[w] \intersect Hit
    BY <1>0, FinishedHandled DEF Commit
  <2> QED
    BY <1>0, <1>2, <2>1 DEF MineOK
<1> QED
  BY <1>1, <1>2, <1>3, <1>4

\* A transaction of the shard that has read no alert sees the new ones
LEMMA CommitKeepsOthers ==
  ASSUME TypeInv, CountInv, NEW w \in Worker, Commit(w), NEW v \in Others(w)
  PROVE  MineOK(v)'
<1>0. v \in Worker /\ v # w /\ MineOK(v) /\ Apart /\ AlertsOK /\ MineOK(w) /\ WorkTypes /\ DbTypes
  BY DEF Others, CountInv, TypeInv
<1>1. /\ worker'[v] = worker[v] /\ msg'[v] = msg[v] /\ pos'[v] = pos[v]
      /\ mine'[v] = mine[v] /\ view'[v] = view[v]
  BY <1>0 DEF Commit, WorkTypes
<1>2. /\ EventsAt(v)' = EventsAt(v) /\ ShardAt(v)' = ShardAt(v)
  BY <1>1 DEF EventsAt, ShardAt
<1>3. Handled(v)' = Handled(v)
  BY <1>1, <1>2 DEF Handled
<1>4. /\ stored' = stored \union mine[w] /\ AlertsOK' /\ ShardAt(v) \in Shard
      /\ \A s \in Shard : s # ShardAt(w) => alerts'[s] = alerts[s]
      /\ alerts'[ShardAt(w)] = Alerts(w)
  BY <1>0, CommitFacts, AtFacts
<1>5. mine'[v] \intersect stored' = {}
  BY <1>0, <1>1, <1>4 DEF Apart, MineOK
<1>6. CASE alerts'[ShardAt(v)] = alerts[ShardAt(v)]
  <2>1. Alerts(v)' = Alerts(v)
    BY <1>1, <1>2, <1>6 DEF Alerts
  <2> QED
    BY <1>0, <1>1, <1>2, <1>3, <1>5, <1>6, <2>1 DEF MineOK
<1>7. CASE view[v] = Unread
  <2>1. Cardinality(Handled(v)) = 0
    <3>1. Alerts(v) = alerts[ShardAt(v)]
      BY <1>7 DEF Alerts
    <3>2. CountOf(alerts[ShardAt(v)]) \in Nat /\ Cardinality(Handled(v)) \in Nat
      BY <1>0, AlertsFacts
    <3>3. CountOf(alerts[ShardAt(v)]) = CountOf(alerts[ShardAt(v)]) + Cardinality(Handled(v))
      BY <1>0, <3>1 DEF MineOK
    <3> QED
      BY <3>2, <3>3
  <2>2. Alerts(v)' = alerts'[ShardAt(v)]
    BY <1>1, <1>2, <1>7 DEF Alerts
  <2>3. Counting(alerts'[ShardAt(v)])
    BY <1>4 DEF AlertsOK
  <2>4. CountOf(Alerts(v)') = CountOf(alerts'[ShardAt(v)']) + Cardinality(Handled(v)')
    BY <1>2, <1>3, <2>1, <2>2, <2>3 DEF Counting
  <2> QED
    BY <1>0, <1>1, <1>2, <1>5, <2>2, <2>3, <2>4 DEF MineOK
<1>8. \/ alerts'[ShardAt(v)] = alerts[ShardAt(v)]
      \/ view[v] = Unread
  <2>1. CASE view[w] = Unread
    BY <1>4, <2>1 DEF Alerts
  <2>2. CASE ShardAt(v) # ShardAt(w)
    BY <1>4, <2>2
  <2> QED
    BY <1>0, <2>1, <2>2 DEF Apart
<1> QED
  BY <1>6, <1>7, <1>8

LEMMA CommitCounts ==
  ASSUME TypeInv, CountInv, NEW w \in Worker, Commit(w)
  PROVE  /\ CountedOnce'
         /\ Counts' = Counts + Cardinality(mine[w] \intersect Hit)
<1> DEFINE new == mine[w] \intersect Hit
           old == stored \intersect Hit
<1>0. WorkTypes /\ DbTypes /\ MineOK(w) /\ AlertsOK
  BY DEF TypeInv, CountInv
<1>1. CountOf(alerts["asset"]) \in Nat /\ CountOf(alerts["agent"]) \in Nat
  BY <1>0 DEF AlertsOK, Shard, Counting
<1>2. new \subseteq Event /\ old \subseteq Event /\ new \intersect old = {}
  BY <1>0 DEF WorkTypes, DbTypes, MineOK
<1>3. stored' \intersect Hit = old \union new
  BY CommitFacts
<1>4. Counts = Cardinality(old)
  BY DEF CountInv, CountedOnce
<1> HIDE DEF new, old
<1>5. /\ IsFiniteSet(new) /\ Cardinality(new) \in Nat
      /\ IsFiniteSet(old) /\ Cardinality(old) \in Nat
  BY <1>2, EventsAreFinite
<1>6. Cardinality(old \union new) = Cardinality(old) + Cardinality(new)
  <2>1. Cardinality(old \intersect new) = 0
    <3>1. old \intersect new = {}
      BY <1>2
    <3> QED
      BY <3>1, FS_EmptySet
  <2>2. Cardinality(old \union new) = Cardinality(old) + Cardinality(new) - Cardinality(old \intersect new)
    BY <1>5, FS_Union
  <2> QED
    BY <1>5, <2>1, <2>2
<1>7. Counts' = Counts + Cardinality(new)
  <2>1. Counts' = CountOf(alerts'["asset"]) + CountOf(alerts'["agent"])
    BY DEF Counts
  <2>2. /\ ShardAt(w) \in Shard
        /\ CountOf(alerts'[ShardAt(w)]) = CountOf(alerts[ShardAt(w)]) + Cardinality(new)
        /\ \A s \in Shard : s # ShardAt(w) => alerts'[s] = alerts[s]
    BY CommitFacts DEF new
  <2>3. CASE ShardAt(w) = "asset"
    <3>1. CountOf(alerts'["asset"]) = CountOf(alerts["asset"]) + Cardinality(new)
      BY <2>2, <2>3
    <3>2. alerts'["agent"] = alerts["agent"]
      BY <2>2, <2>3 DEF Shard
    <3> QED
      BY <1>1, <1>5, <2>1, <3>1, <3>2 DEF Counts
  <2>4. CASE ShardAt(w) = "agent"
    <3>1. CountOf(alerts'["agent"]) = CountOf(alerts["agent"]) + Cardinality(new)
      BY <2>2, <2>4
    <3>2. alerts'["asset"] = alerts["asset"]
      BY <2>2, <2>4 DEF Shard
    <3> QED
      BY <1>1, <1>5, <2>1, <3>1, <3>2 DEF Counts
  <2> QED
    BY <2>2, <2>3, <2>4 DEF Shard
<1>8. CountedOnce'
  BY <1>3, <1>4, <1>6, <1>7 DEF CountedOnce
<1> QED
  BY <1>7, <1>8 DEF new

LEMMA CommitKeepsCount ==
  ASSUME TypeInv, CountInv, NEW w \in Worker, Commit(w) PROVE CountInv'
<1>0. WorkTypes /\ Apart
  BY DEF TypeInv, CountInv
<1>1. mine'[w] = {} /\ view'[w] = Unread /\ ShardAt(w)' = ShardAt(w)
  BY <1>0 DEF Commit, WorkTypes, ShardAt
<1>2. AlertsOK' /\ ShardAt(w) \in Shard
  BY CommitFacts
<1>3. MineOK(w)'
  BY <1>1, <1>2, FreshMineOK
<1>4. \A v \in Worker : MineOK(v)'
  BY <1>3, CommitKeepsOthers DEF Others
<1>5. \A v \in Others(w) : mine'[v] = mine[v] /\ view'[v] = view[v] /\ msg'[v] = msg[v]
  BY <1>0 DEF Commit, WorkTypes, Others
<1>6. Apart'
  BY <1>0, <1>1, <1>5, ApartStays
<1> QED
  BY <1>2, <1>4, <1>6, CommitCounts DEF CountInv
-----------------------------------------------------------------------------
(* The alerts count every stored hit once.                                  *)

LEMMA CountUnchanged ==
  ASSUME CountInv, UNCHANGED <<workVars, dbVars>> PROVE CountInv'
<1>1. \A w \in Worker : MineOK(w)'
  BY MineStays DEF CountInv
<1>2. Apart'
  BY DEF CountInv, Apart, ShardAt
<1>3. AlertsOK' /\ CountedOnce'
  BY DEF CountInv, AlertsOK, CountedOnce, Counts
<1> QED
  BY <1>1, <1>2, <1>3 DEF CountInv

LEMMA NextKeepsCount ==
  ASSUME TypeInv, KeptInv, RiseInv, CountInv, [Next]_vars PROVE CountInv'
<1>1. CASE UNCHANGED vars
  BY <1>1, CountUnchanged DEF vars
<1>2. CASE AgentStep
  BY <1>2, AgentLeavesServer, CountUnchanged
<1>3. ASSUME NEW i \in Call, CallProceeds(i) \/ CallBreaks(i) PROVE CountInv'
  <2>1. UNCHANGED <<workVars, dbVars>>
    BY <1>3 DEF CallProceeds, CallBreaks, Handle, Flush, SendAck, FlushFails, CallEnds
  <2> QED
    BY <2>1, CountUnchanged
<1>4. CASE LateArrives
  <2>1. UNCHANGED <<workVars, dbVars>>
    BY <1>4 DEF LateArrives, LateStored, LateLost
  <2> QED
    BY <2>1, CountUnchanged
<1>5. ASSUME NEW w \in Worker, Work(w) \/ WorkFails(w) PROVE CountInv'
  <2>1. CASE Commit(w)
    BY <2>1, CommitKeepsCount
  <2>2. CASE \/ \E k \in DOMAIN bus : Deliver(w, k)
             \/ SkipDuplicate(w) \/ InsertEvent(w) \/ UpsertAlert(w)
             \/ Ack(w) \/ Rollback(w) \/ AckLost(w)
    BY <2>2, WorkerKeepsCount DEF KeptInv, RiseInv
  <2> QED
    BY <1>5, <2>1, <2>2 DEF Work, WorkFails
<1> QED
  BY <1>1, <1>2, <1>3, <1>4, <1>5 DEF Next, ServerStep

LEMMA CountInvariant == Spec => []CountInv
<1>1. TypeInv /\ KeptInv /\ RiseInv /\ CountInv /\ [Next]_vars => CountInv'
  BY NextKeepsCount
<1> QED
  BY TypeInvariant, KeptInvariant, RiseInvariant, InitCountInv, <1>1, PTL DEF Spec

\* However often an event is delivered, to however many nodes at once, and
\* however often a transaction is rolled back or repeated after its commit: the
\* alerts count each stored hit once (ingest.Processor.store, upsertAlert).
THEOREM EachHitIsCountedOnce == Spec => []CountedOnce
<1>1. CountInv => CountedOnce
  BY DEF CountInv
<1> QED
  BY CountInvariant, <1>1, PTL
=============================================================================

-------------------------- MODULE EventOrderProofs --------------------------
(***************************************************************************)
(* Proofs about the order of events in EventPipeline: when the look-up of  *)
(* the asset does not fail, no event comes into the database before an     *)
(* accepted one that was collected earlier.                                *)
(*                                                                         *)
(* The argument: every sequence of events on its way is Led: whatever      *)
(* earlier event may still count stands before it in the same sequence or  *)
(* was where the sequence goes next already.  The files are in order but   *)
(* for repetitions of the batch that waits, so what the upload takes is    *)
(* Led, and each next place gets its events in the order of the one        *)
(* before.  Only the message at the head of the stream is not yet stored.  *)
(***************************************************************************)
EXTENDS EventPipelineProofs

USE EventsAssumption, SpoolAssumption, IntakeAssumption, PipelineAssumption
    DEF collectVars, diskVars, uploadVars, faultVars, SeqNos, None,
        callVars, busVars, workVars, dbVars, intakeVars

\* Events that are accepted or may be yet
Alive == EventsOf(batch) \union OnDisk(files) \union OnDisk(durable) \union accepted

Rising(b, n) == /\ \A k \in DOMAIN b : b[k] <= n
                /\ \A j, k \in DOMAIN b : j < k => b[j] < b[k]

Before(b, c) == \A d \in EventsOf(b), e \in EventsOf(c) : d < e

\* Of the live events that are earlier than one of b, each is in X or stands
\* before that one in b; n events were collected so far
Led(b, X, live, n) ==
  \A k \in DOMAIN b :
    /\ b[k] <= n
    /\ \A d \in live : d < b[k] => d \in X \/ \E j \in 1..k - 1 : b[j] = d

Dirs == DOMAIN files \union DOMAIN durable
At(s) == IF s \in DOMAIN files THEN files[s] ELSE durable[s]

\* Batches are in order, unless one is a repetition of the other
DirsInOrder ==
  /\ Rising(batch, taken)
  /\ \A s \in Dirs : Rising(At(s), taken)
  /\ \A s, t \in Dirs : s < t => At(s) = At(t) \/ Before(At(s), At(t))
  /\ \A s \in Dirs : (blocked /\ At(s) = batch) \/ Before(At(s), batch)

\* What a crash may bring back is confirmed
RemovedConfirmed == \A s \in DOMAIN durable \ DOMAIN files : EventsOf(durable[s]) \subseteq Confirmed

Batched(i) == [k \in DOMAIN queued[i] |-> queued[i][k].event]

CallLed(i) ==
  /\ Led(Batched(i), Confirmed, Alive, taken)
  /\ Led(todo[i], Confirmed \union EventsOf(Batched(i)), Alive, taken)
  /\ \A k \in DOMAIN queued[i] : queued[i][k].shard = "asset"

CallsLed == \A i \in Call : CallLed(i)

LateLed == \A c \in late : c.shard = "asset" /\ Led(c.events, Confirmed, Alive, taken)

\* Stored, or in a message before the k-th
Ahead(k) == stored \union UNION {EventsOf(bus[j].content.events) : j \in 1..k - 1}

BusLed ==
  \A k \in DOMAIN bus : /\ bus[k].content.shard = "asset"
                        /\ Led(bus[k].content.events, Ahead(k), Alive, taken)

StoredLed == \A e \in stored : e <= taken /\ \A d \in Alive : d < e => d \in stored

\* A worker with something left to store works on the head of the stream
HeadOnly ==
  \A w \in Worker :
    /\ worker[w] # "idle" => \/ EventsOf(EventsAt(w)) \subseteq stored
                             \/ bus # <<>> /\ bus[1] = msg[w]
    /\ mine[w] \subseteq EventsOf(EventsAt(w))

OrderInv == /\ DirsInOrder /\ RemovedConfirmed /\ Led(load, Confirmed, Alive, taken)
            /\ CallsLed /\ LateLed /\ BusLed /\ StoredLed /\ HeadOnly

LEMMA OrderInvInOrder == ASSUME StoredLed PROVE InOrder
BY DEF StoredLed, InOrder, Alive

LEMMA InitOrderInv == Init => OrderInv
<1> SUFFICES ASSUME Init PROVE OrderInv
  OBVIOUS
<1>1. /\ batch = <<>> /\ files = << >> /\ durable = << >> /\ load = <<>> /\ late = {} /\ stored = {}
      /\ queued = [i \in Call |-> <<>>] /\ todo = [i \in Call |-> <<>>]
      /\ worker = [w \in Worker |-> "idle"] /\ mine = [w \in Worker |-> {}] /\ bus = <<>>
  BY DEF Init, SpoolInit, IntakeInit
<1>2. DirsInOrder /\ RemovedConfirmed
  BY <1>1 DEF DirsInOrder, RemovedConfirmed, Rising, Dirs
<1>3. CallsLed
  BY <1>1 DEF CallsLed, CallLed, Led, Batched
<1> QED
  BY <1>1, <1>2, <1>3 DEF OrderInv, LateLed, BusLed, StoredLed, HeadOnly, Led
-----------------------------------------------------------------------------
(* Led sequences.                                                           *)

LEMMA Items == \A b \in Seq(Event) : \A k \in DOMAIN b : b[k] \in Event /\ b[k] \in Nat
<1> TAKE b \in Seq(Event)
<1> TAKE k \in DOMAIN b
<1>1. b[k] \in Event
  OBVIOUS
<1>2. Event \subseteq Nat
  OBVIOUS
<1> QED
  BY <1>1, <1>2

\* Once led, a sequence stays so: its events go on, and new ones are later
LEMMA LedStays ==
  ASSUME NEW b \in Seq(Event), NEW X, NEW Y, NEW live \in SUBSET Event, NEW new \in SUBSET Event,
         NEW n \in Nat, NEW m \in Nat, n <= m,
         Led(b, X, live, n), X \subseteq Y, \A d \in new : d \in live \/ n < d
  PROVE  Led(b, Y, new, m)
<1> SUFFICES ASSUME NEW k \in DOMAIN b
             PROVE  /\ b[k] <= m
                    /\ \A d \in new : d < b[k] => d \in Y \/ \E j \in 1..k - 1 : b[j] = d
  BY DEF Led
<1>0. b[k] <= n
  BY DEF Led
<1>1. b[k] \in Nat /\ b[k] <= n
  BY <1>0, Items
<1>2. Event \subseteq Nat
  OBVIOUS
<1>3. \A d \in new : d < b[k] => d \in live
  BY <1>1, <1>2
<1> QED
  BY <1>1, <1>3 DEF Led

LEMMA LedEmpty == \A X, live, n : Led(<<>>, X, live, n)
BY DEF Led

\* The first events of a sequence
LEMMA LedFirst ==
  ASSUME NEW b \in Seq(Event), NEW c \in Seq(Event), NEW X, NEW live, NEW n,
         Led(b, X, live, n), Len(c) <= Len(b), \A k \in 1..Len(c) : c[k] = b[k]
  PROVE  Led(c, X, live, n)
<1>1. /\ DOMAIN c = 1..Len(c) /\ DOMAIN b = 1..Len(b) /\ Len(c) \in Nat /\ Len(b) \in Nat
  OBVIOUS
<1> SUFFICES ASSUME NEW k \in 1..Len(c)
             PROVE  /\ c[k] <= n
                    /\ \A d \in live : d < c[k] => d \in X \/ \E j \in 1..k - 1 : c[j] = d
  BY <1>1 DEF Led
<1>2. k \in DOMAIN b /\ b[k] = c[k] /\ \A j \in 1..k - 1 : c[j] = b[j]
  BY <1>1
<1> QED
  BY <1>2 DEF Led

\* What is left of a sequence when its first m events are in Y
LEMMA LedRest ==
  ASSUME NEW b \in Seq(Event), NEW c \in Seq(Event), NEW m \in Nat, NEW X, NEW Y, NEW live, NEW n,
         Led(b, X, live, n), X \subseteq Y, m + Len(c) <= Len(b),
         \A k \in 1..Len(c) : c[k] = b[m + k],
         \A k \in 1..m : b[k] \in Y
  PROVE  Led(c, Y, live, n)
<1>1. /\ DOMAIN c = 1..Len(c) /\ DOMAIN b = 1..Len(b) /\ Len(c) \in Nat /\ Len(b) \in Nat
  OBVIOUS
<1> SUFFICES ASSUME NEW k \in 1..Len(c)
             PROVE  /\ c[k] <= n
                    /\ \A d \in live : d < c[k] => d \in Y \/ \E j \in 1..k - 1 : c[j] = d
  BY <1>1 DEF Led
<1>2. m + k \in DOMAIN b /\ b[m + k] = c[k]
  BY <1>1
<1>3. c[k] <= n /\ \A d \in live : d < c[k] => d \in X \/ \E j \in 1..m + k - 1 : b[j] = d
  BY <1>2 DEF Led
<1>4. ASSUME NEW j \in 1..m + k - 1 PROVE b[j] \in Y \/ \E i \in 1..k - 1 : c[i] = b[j]
  <2>1. CASE j <= m
    BY <2>1
  <2>2. CASE j > m
    <3>1. j - m \in 1..k - 1 /\ c[j - m] = b[m + (j - m)] /\ m + (j - m) = j
      BY <1>1, <2>2
    <3> QED
      BY <3>1
  <2> QED
    BY <2>1, <2>2
<1> QED
  BY <1>3, <1>4

\* The next event e of a sequence that is led given those of b
LEMMA LedAppend ==
  ASSUME NEW b \in Seq(Event), NEW e \in Event, NEW X, NEW live, NEW n,
         Led(b, X, live, n), e <= n, \A d \in live : d < e => d \in X \union EventsOf(b)
  PROVE  Led(Append(b, e), X, live, n)
<1> DEFINE c == Append(b, e)
<1>1. /\ DOMAIN c = 1..Len(b) + 1 /\ DOMAIN b = 1..Len(b) /\ Len(b) \in Nat
      /\ \A k \in 1..Len(b) : c[k] = b[k]
      /\ c[Len(b) + 1] = e
  OBVIOUS
<1> HIDE DEF c
<1> SUFFICES ASSUME NEW k \in 1..Len(b) + 1
             PROVE  /\ c[k] <= n
                    /\ \A d \in live : d < c[k] => d \in X \/ \E j \in 1..k - 1 : c[j] = d
  BY <1>1 DEF Led, c
<1>2. CASE k = Len(b) + 1
  <2>1. c[k] = e /\ 1..k - 1 = DOMAIN b
    BY <1>1, <1>2
  <2> QED
    BY <1>1, <2>1 DEF EventsOf
<1>3. CASE k # Len(b) + 1
  <2>1. k \in DOMAIN b /\ c[k] = b[k] /\ \A j \in 1..k - 1 : c[j] = b[j]
    BY <1>1, <1>3
  <2> QED
    BY <2>1 DEF Led
<1> QED
  BY <1>2, <1>3
-----------------------------------------------------------------------------
(* The order on the agent's disk.                                           *)

LEMMA BeforeEmpty == \A b : Before(b, <<>>)
BY DEF Before, EventsOf

\* A step that leaves files as they are, takes some away, or puts the batch
\* under the next number, and keeps the batch only to repeat it
LEMMA DirsStep ==
  ASSUME DirsInOrder, taken' = taken, next \in Nat, Dirs' \subseteq Nat,
         \A s \in Dirs : s < next,
         \A s \in Dirs' : (s \in Dirs /\ At(s)' = At(s)) \/ (s = next /\ At(s)' = batch),
         \/ batch' = <<>>
         \/ batch' = batch /\ blocked' = TRUE
         \/ UNCHANGED <<batch, blocked>> /\ \A s \in Dirs' : s \in Dirs /\ At(s)' = At(s)
  PROVE  DirsInOrder'
<1>1. Rising(batch', taken')
  <2>1. Rising(<<>>, taken)
    BY DEF Rising
  <2> QED
    BY <2>1 DEF DirsInOrder
<1>2. \A s \in Dirs' : Rising(At(s)', taken')
  BY DEF DirsInOrder
<1>3. ASSUME NEW s \in Dirs', NEW t \in Dirs', s < t PROVE At(s)' = At(t)' \/ Before(At(s)', At(t)')
  <2>1. s \in Dirs /\ At(s)' = At(s)
    <3>1. CASE t = next
      BY <1>3, <3>1
    <3>2. CASE t \in Dirs
      BY <1>3, <3>2
    <3> QED
      BY <3>1, <3>2
  <2>2. CASE t \in Dirs /\ At(t)' = At(t)
    BY <1>3, <2>1, <2>2 DEF DirsInOrder
  <2>3. CASE t = next /\ At(t)' = batch
    BY <2>1, <2>3 DEF DirsInOrder
  <2> QED
    BY <2>2, <2>3
<1>4. ASSUME NEW s \in Dirs' PROVE (blocked' /\ At(s)' = batch') \/ Before(At(s)', batch')
  <2>1. CASE batch' = <<>>
    BY <2>1, BeforeEmpty
  <2>2. CASE batch' = batch /\ blocked' = TRUE
    BY <2>2 DEF DirsInOrder
  <2>3. CASE UNCHANGED <<batch, blocked>> /\ \A t \in Dirs' : t \in Dirs /\ At(t)' = At(t)
    BY <2>3 DEF DirsInOrder
  <2> QED
    BY <2>1, <2>2, <2>3
<1> QED
  BY <1>1, <1>2, <1>3, <1>4 DEF DirsInOrder

LEMMA DirsFacts ==
  ASSUME TypeInv
  PROVE  /\ next \in Nat /\ Dirs \subseteq Nat /\ \A s \in Dirs : s < next /\ At(s) \in Seq(Event)
         /\ Alive \subseteq Event /\ taken \in Nat /\ batch \in Seq(Event)
<1>1. /\ next \in SeqNos /\ DOMAIN files \subseteq SeqNos /\ DOMAIN durable \subseteq SeqNos
      /\ \A s \in DOMAIN files : s < next /\ files[s] \in Seq(Event)
      /\ \A s \in DOMAIN durable : s < next /\ durable[s] \in Seq(Event)
      /\ taken \in Nat /\ batch \in Seq(Event) /\ accepted \subseteq Event
  BY DEF TypeInv, SpoolInv, SpoolTypes, Numbered, LinkTypes
<1>2. SeqNos \subseteq Nat
  OBVIOUS
<1>3. \A b \in Seq(Event) : EventsOf(b) \subseteq Event
  BY EventsType
<1>4. Alive \subseteq Event
  BY <1>1, <1>3 DEF Alive, OnDisk
<1> QED
  BY <1>1, <1>2, <1>4 DEF Dirs, At

LEMMA GatherOrder == ASSUME TypeInv, DirsInOrder, Collect PROVE DirsInOrder'
<1>1. /\ batch' = Append(batch, taken + 1) /\ taken' = taken + 1 /\ ~blocked
      /\ UNCHANGED <<files, durable>> /\ taken + 1 \in Event
  BY DirsFacts DEF Collect, Event
<1>2. Dirs' = Dirs /\ \A s \in Dirs : At(s)' = At(s)
  BY <1>1 DEF Dirs, At
<1>3. /\ batch \in Seq(Event) /\ taken \in Nat
      /\ \A s \in Dirs : At(s) \in Seq(Event)
  BY DirsFacts
<1>4. \A s \in Dirs : Before(At(s), batch) /\ Rising(At(s), taken)
  BY <1>1 DEF DirsInOrder
<1>5. EventsOf(batch') = EventsOf(batch) \union {taken + 1}
  BY <1>1, <1>3, AppendEvents
<1>6. ASSUME NEW s \in Dirs PROVE Before(At(s), batch') /\ Rising(At(s), taken + 1)
  <2>1. \A k \in DOMAIN At(s) : At(s)[k] \in Nat /\ At(s)[k] <= taken
    BY <1>3, <1>4, Items DEF Rising
  <2>2. \A d \in EventsOf(At(s)) : d < taken + 1
    BY <1>3, <2>1 DEF EventsOf
  <2>3. Before(At(s), batch')
    BY <1>4, <1>5, <2>2 DEF Before
  <2> QED
    BY <1>3, <1>4, <2>1, <2>3 DEF Rising
<1>7. Rising(batch', taken + 1)
  <2>1. /\ DOMAIN batch' = 1..Len(batch) + 1 /\ DOMAIN batch = 1..Len(batch) /\ Len(batch) \in Nat
        /\ \A k \in 1..Len(batch) : batch'[k] = batch[k]
        /\ batch'[Len(batch) + 1] = taken + 1
    BY <1>1, <1>3
  <2>2. Rising(batch, taken) /\ \A k \in DOMAIN batch : batch[k] \in Nat
    BY <1>3, Items DEF DirsInOrder
  <2>3. \A k \in 1..Len(batch) : batch'[k] \in Nat /\ batch'[k] <= taken
    BY <2>1, <2>2 DEF Rising
  <2>4. \A j, k \in 1..Len(batch) : j < k => batch'[j] < batch'[k]
    BY <2>1, <2>2 DEF Rising
  <2>5. \A k \in DOMAIN batch' : k = Len(batch) + 1 \/ k \in 1..Len(batch)
    BY <2>1
  <2>6. \A k \in DOMAIN batch' : batch'[k] <= taken + 1
    BY <1>3, <2>1, <2>3, <2>5
  <2>7. \A j, k \in DOMAIN batch' : j < k => batch'[j] < batch'[k]
    BY <1>3, <2>1, <2>3, <2>4, <2>5
  <2> QED
    BY <2>6, <2>7 DEF Rising
<1> QED
  BY <1>1, <1>2, <1>4, <1>6, <1>7 DEF DirsInOrder

LEMMA AppendOrder ==
  ASSUME TypeInv, DirsInOrder, RemovedConfirmed, Confirmed' = Confirmed,
         AppendBatch \/ AppendRefused \/ AppendFails
  PROVE  DirsInOrder' /\ RemovedConfirmed'
<1> DEFINE dir == With(files, next, batch)
<1>0. batch # <<>>
  BY DEF AppendBatch, AppendRefused, AppendFails
<1>1. /\ DOMAIN dir = DOMAIN files \union {next}
      /\ \A s \in DOMAIN files : dir[s] = files[s]
      /\ dir[next] = batch
  BY <1>0, WithFacts DEF TypeInv
<1>2. next \in Nat /\ Dirs \subseteq Nat /\ \A s \in Dirs : s < next
  BY DirsFacts
<1>3. taken' = taken /\ (batch' = <<>> \/ (batch' = batch /\ blocked' = TRUE))
  <2>1. CASE AppendBatch \/ AppendFails
    <3>1. taken' = taken /\ batch' = <<>>
      BY <2>1 DEF AppendBatch, AppendFails
    <3> QED
      BY <3>1
  <2>2. CASE AppendRefused
    BY <2>2, Zenon DEF AppendRefused
  <2> QED
    BY <2>1, <2>2
<1>4. \/ UNCHANGED <<files, durable>>
      \/ files' = dir /\ (durable' = durable \/ durable' = dir)
  BY DEF AppendBatch, AppendRefused, AppendFails, dir
<1> HIDE DEF dir
<1>5. next \notin DOMAIN files /\ next \notin DOMAIN durable
  BY <1>2 DEF Dirs
<1>6. \A s \in Dirs' : (s \in Dirs /\ At(s)' = At(s)) \/ (s = next /\ At(s)' = batch)
  BY <1>1, <1>4, <1>5 DEF Dirs, At
<1>7. Dirs' \subseteq Nat
  BY <1>2, <1>6
<1>8. DirsInOrder'
  BY <1>2, <1>3, <1>6, <1>7, DirsStep
<1>9. RemovedConfirmed'
  BY <1>1, <1>4, <1>5 DEF RemovedConfirmed
<1> QED
  BY <1>8, <1>9

LEMMA RemovalOrder ==
  ASSUME TypeInv, DiskInv, DirsInOrder, RemovedConfirmed, Confirmed' = Confirmed,
         UNCHANGED <<taken, batch, blocked>>, NEW s, AcknowledgeFront(s),
         s \in DOMAIN files => EventsOf(files[s]) \subseteq Confirmed
  PROVE  DirsInOrder' /\ RemovedConfirmed'
<1>1. /\ DOMAIN files' \subseteq DOMAIN files
      /\ \A t \in DOMAIN files' : files'[t] = files[t]
      /\ \A t \in DOMAIN files \ DOMAIN files' : t = s
      /\ durable' = files' \/ durable' = durable
  BY AcknowledgeFrontFacts
<1>2. Agree
  BY DEF DiskInv
<1>3. \A t \in Dirs' : t \in Dirs /\ At(t)' = At(t)
  BY <1>1, <1>2 DEF Dirs, At, Agree
<1>4. RemovedConfirmed'
  BY <1>1, <1>2 DEF RemovedConfirmed, Agree
<1> QED
  BY <1>3, <1>4, DirsFacts, DirsStep

LEMMA AgentKeepsOrder ==
  ASSUME TypeInv, KeptInv, DirsInOrder, RemovedConfirmed, AgentStep
  PROVE  DirsInOrder' /\ RemovedConfirmed'
<1>0. Confirmed' = Confirmed /\ DiskInv
  BY AgentLeavesServer DEF KeptInv
<1>1. CASE Gather
  BY <1>0, <1>1, GatherOrder DEF Gather, Collect, RemovedConfirmed
<1>2. CASE Persist \/ PersistRefused \/ PersistFails
  BY <1>0, <1>2, AppendOrder DEF Persist, PersistRefused, PersistFails
<1>3. ASSUME UNCHANGED <<taken, batch, blocked, files, durable>>
      PROVE  DirsInOrder' /\ RemovedConfirmed'
  BY <1>0, <1>3 DEF DirsInOrder, RemovedConfirmed, Dirs, At
<1>4. CASE Fetch
  BY <1>3, <1>4 DEF Fetch, TakeFront
<1>5. CASE TakeAck
  BY <1>3, <1>5 DEF TakeAck, ChunkAcknowledged
<1>6. CASE AcknowledgeBatch
  <2>1. EventsOf(load) \subseteq Confirmed
    BY <1>0, <1>6 DEF AcknowledgeBatch, TypeInv, SpoolInv, SpoolTypes, IdleOK, DiskInv, UploadOK, EventsOf
  <2>2. AcknowledgeFront(uploading) /\ UNCHANGED <<taken, batch, blocked>>
    BY <1>6 DEF AcknowledgeBatch
  <2>3. uploading \in DOMAIN files => EventsOf(files[uploading]) \subseteq Confirmed
    BY <1>0, <2>1 DEF DiskInv, UploadOK
  <2> QED
    BY <1>0, <2>2, <2>3, RemovalOrder
<1>7. ASSUME NEW s \in orphans, AcknowledgeOrphan(s) PROVE DirsInOrder' /\ RemovedConfirmed'
  <2>1. AcknowledgeFront(s) /\ UNCHANGED <<taken, batch, blocked>>
    BY <1>7 DEF AcknowledgeOrphan
  <2>2. s \in DOMAIN files => EventsOf(files[s]) \subseteq Confirmed
    BY <1>0 DEF DiskInv, OrphansOK
  <2> QED
    BY <1>0, <2>1, <2>2, RemovalOrder
<1>8. CASE UploadStops
  BY <1>3, <1>8 DEF UploadStops, StopUpload
<1>9. CASE AgentRestarts
  <2>1. /\ DOMAIN files' \subseteq DOMAIN files \union DOMAIN durable
        /\ \A s \in DOMAIN files' : files'[s] = IF s \in DOMAIN files THEN files[s] ELSE durable[s]
        /\ durable' = files' /\ batch' = <<>> /\ taken' = taken
    BY <1>9, ReopenFacts DEF AgentRestarts, Reopen, TypeInv
  <2>2. \A t \in Dirs' : t \in Dirs /\ At(t)' = At(t)
    BY <2>1 DEF Dirs, At
  <2>3. RemovedConfirmed'
    BY <2>1 DEF RemovedConfirmed
  <2> QED
    BY <2>1, <2>2, <2>3, DirsFacts, DirsStep
<1>10. ASSUME NEW i \in Call, SendChunk(i) PROVE DirsInOrder' /\ RemovedConfirmed'
  BY <1>3, <1>10 DEF SendChunk, spoolVars
<1> QED
  BY <1>1, <1>2, <1>4, <1>5, <1>6, <1>7, <1>8, <1>9, <1>10 DEF AgentStep, Removed
-----------------------------------------------------------------------------
(* What keeps sequences led.                                                *)

\* Only the event that is collected next comes to those that are alive
Later ==
  /\ taken \in Nat /\ taken' \in Nat /\ taken <= taken'
  /\ Alive \subseteq Event /\ Alive' \subseteq Event
  /\ \A d \in Alive' : d \in Alive \/ taken < d

LEMMA LaterOrSame ==
  ASSUME TypeInv, taken' = taken, Alive' \subseteq Alive PROVE Later
BY DirsFacts DEF Later

LEMMA AgentLater == ASSUME TypeInv, AgentStep PROVE Later
<1>0. /\ \A dir : \A e : e \in OnDisk(dir) <=> \E s \in DOMAIN dir : e \in EventsOf(dir[s])
      /\ batch \in Seq(Event)
  BY DirsFacts DEF OnDisk
<1>1. CASE Gather
  <2>1. /\ batch' = Append(batch, taken + 1) /\ taken' = taken + 1 /\ taken + 1 \in Event
        /\ UNCHANGED <<files, durable, accepted>>
    BY <1>1, DirsFacts DEF Gather, Collect, Event
  <2>2. EventsOf(batch') = EventsOf(batch) \union {taken + 1}
    BY <1>0, <2>1, AppendEvents
  <2>3. Alive' = Alive \union {taken + 1}
    BY <2>1, <2>2 DEF Alive
  <2> QED
    BY <2>1, <2>3, DirsFacts DEF Later
<1>2. CASE Persist \/ PersistRefused \/ PersistFails
  <2> DEFINE dir == With(files, next, batch)
  <2>1. AppendBatch \/ AppendRefused \/ AppendFails
    BY <1>2 DEF Persist, PersistRefused, PersistFails
  <2>2. batch # <<>>
    BY <2>1 DEF AppendBatch, AppendRefused, AppendFails
  <2>3. /\ DOMAIN dir = DOMAIN files \union {next}
        /\ \A s \in DOMAIN files : dir[s] = files[s]
        /\ dir[next] = batch
    BY <2>2, WithFacts DEF TypeInv
  <2>4. taken' = taken /\ (batch' = <<>> \/ batch' = batch)
    BY <2>1 DEF AppendBatch, AppendRefused, AppendFails
  <2>5. /\ files' = files \/ files' = dir
        /\ durable' = durable \/ durable' = dir
    BY <2>1 DEF AppendBatch, AppendRefused, AppendFails, dir
  <2>6. accepted' \subseteq accepted \union EventsOf(batch)
    BY <1>2 DEF Persist, PersistRefused, PersistFails
  <2> HIDE DEF dir
  <2>7. OnDisk(dir) \subseteq OnDisk(files) \union EventsOf(batch)
    BY <1>0, <2>3
  <2>8. EventsOf(batch') \subseteq EventsOf(batch)
    BY <2>4, EmptyEvents
  <2> QED
    BY <2>4, <2>5, <2>6, <2>7, <2>8, LaterOrSame DEF Alive
<1>3. ASSUME UNCHANGED <<taken, batch, files, durable, accepted>> PROVE Later
  BY <1>3, LaterOrSame DEF Alive
<1>4. CASE Fetch
  BY <1>3, <1>4 DEF Fetch, TakeFront
<1>5. CASE TakeAck
  BY <1>3, <1>5 DEF TakeAck, ChunkAcknowledged
<1>6. CASE Removed
  <2>1. /\ \E s : AcknowledgeFront(s)
        /\ UNCHANGED <<taken, batch, accepted>>
    BY <1>6 DEF Removed, AcknowledgeBatch, AcknowledgeOrphan
  <2>2. /\ DOMAIN files' \subseteq DOMAIN files
        /\ \A t \in DOMAIN files' : files'[t] = files[t]
        /\ durable' = files' \/ durable' = durable
    BY <2>1, AcknowledgeFrontFacts
  <2>3. OnDisk(files') \subseteq OnDisk(files)
    BY <1>0, <2>2
  <2> QED
    BY <2>1, <2>2, <2>3, LaterOrSame DEF Alive
<1>7. CASE UploadStops
  BY <1>3, <1>7 DEF UploadStops, StopUpload
<1>8. CASE AgentRestarts
  <2>1. /\ DOMAIN files' \subseteq DOMAIN files \union DOMAIN durable
        /\ \A s \in DOMAIN files' : files'[s] = IF s \in DOMAIN files THEN files[s] ELSE durable[s]
        /\ durable' = files' /\ batch' = <<>> /\ taken' = taken /\ accepted' = accepted
    BY <1>8, ReopenFacts DEF AgentRestarts, Reopen, TypeInv
  <2>2. OnDisk(files') \subseteq OnDisk(files) \union OnDisk(durable)
    BY <1>0, <2>1
  <2> QED
    BY <2>1, <2>2, EmptyEvents, LaterOrSame DEF Alive
<1>9. ASSUME NEW i \in Call, SendChunk(i) PROVE Later
  BY <1>3, <1>9 DEF SendChunk, spoolVars
<1> QED
  BY <1>1, <1>2, <1>4, <1>5, <1>6, <1>7, <1>8, <1>9 DEF AgentStep

LEMMA LedNow ==
  ASSUME Later, NEW b \in Seq(Event), NEW X, NEW Y, Led(b, X, Alive, taken), X \subseteq Y
  PROVE  Led(b, Y, Alive', taken')
BY LedStays DEF Later

LEMMA BatchedType ==
  ASSUME CallTypes, NEW i \in Call
  PROVE  /\ Batched(i) \in Seq(Event) /\ Len(Batched(i)) = Len(queued[i])
         /\ queued[i] \in Seq(Envelope) /\ todo[i] \in Seq(Event)
<1>1. queued[i] \in Seq(Envelope) /\ todo[i] \in Seq(Event)
  BY DEF CallTypes
<1>2. \A k \in 1..Len(queued[i]) : queued[i][k].event \in Event
  <2>1. \A k \in 1..Len(queued[i]) : queued[i][k] \in Envelope
    BY <1>1
  <2> QED
    BY <2>1 DEF Envelope
<1>3. DOMAIN queued[i] = 1..Len(queued[i]) /\ Len(queued[i]) \in Nat
  BY <1>1
<1> QED
  BY <1>1, <1>2, <1>3 DEF Batched

\* The queue's events when one is queued
LEMMA BatchedAppend ==
  ASSUME NEW i \in Call, CallTypes, NEW e \in Event, NEW shard \in Shard,
         queued'[i] = Append(queued[i], [event |-> e, shard |-> shard])
  PROVE  Batched(i)' = Append(Batched(i), e)
<1> DEFINE b == Batched(i)
           q == Append(queued[i], [event |-> e, shard |-> shard])
<1>1. /\ b \in Seq(Event) /\ queued[i] \in Seq(Envelope) /\ Len(b) = Len(queued[i])
  BY BatchedType
<1>2. PICK l \in Nat : l = Len(queued[i])
  BY <1>1
<1>3. /\ DOMAIN q = 1..l + 1 /\ DOMAIN queued[i] = 1..l
      /\ \A k \in 1..l : q[k] = queued[i][k]
      /\ q[l + 1] = [event |-> e, shard |-> shard]
  BY <1>1, <1>2
<1>4. Batched(i)' = [k \in DOMAIN q |-> q[k].event]
  BY DEF Batched
<1>5. \A k \in 1..l : b[k] = queued[i][k].event
  BY <1>3 DEF Batched
<1> HIDE DEF b, q
<1>6. Append(b, e) = [k \in 1..l + 1 |-> IF k = l + 1 THEN e ELSE b[k]]
  <2>1. /\ Append(b, e) \in Seq(Event) /\ Len(Append(b, e)) = l + 1
        /\ \A k \in 1..l : Append(b, e)[k] = b[k]
        /\ Append(b, e)[l + 1] = e
    BY <1>1, <1>2, AppendProperties
  <2> DEFINE c == Append(b, e)
  <2> HIDE DEF c
  <2>0. c \in Seq(Event) /\ Len(c) = l + 1
    BY <2>1 DEF c
  <2>2. c = [k \in 1..l + 1 |-> c[k]]
    BY <2>0, <1>2
  <2>3. \A k \in 1..l + 1 : c[k] = IF k = l + 1 THEN e ELSE b[k]
    BY <2>1 DEF c
  <2> QED
    BY <2>2, <2>3 DEF c
<1>7. \A k \in 1..l + 1 : q[k].event = IF k = l + 1 THEN e ELSE b[k]
  <2>1. \A k \in 1..l + 1 : k = l + 1 \/ k \in 1..l
    OBVIOUS
  <2>2. q[l + 1].event = e
    BY <1>3
  <2>3. \A k \in 1..l : q[k].event = b[k]
    BY <1>3, <1>5
  <2> QED
    BY <2>1, <2>2, <2>3
<1>8. [k \in DOMAIN q |-> q[k].event] = [k \in 1..l + 1 |-> IF k = l + 1 THEN e ELSE b[k]]
  BY <1>3, <1>7
<1> QED
  BY <1>4, <1>6, <1>8 DEF b

LEMMA RestFacts ==
  ASSUME NEW S, NEW s \in Seq(S), NEW n \in 1..Len(s)
  PROVE  /\ SubSeq(s, n + 1, Len(s)) \in Seq(S)
         /\ Len(SubSeq(s, n + 1, Len(s))) = Len(s) - n
         /\ DOMAIN SubSeq(s, n + 1, Len(s)) = 1..Len(s) - n
         /\ \A k \in 1..Len(s) - n : SubSeq(s, n + 1, Len(s))[k] = s[n + k] /\ n + k \in 1..Len(s)
<1>1. n \in Nat /\ Len(s) \in Nat /\ n + 1 \in 1..Len(s) + 1 /\ Len(s) \in (n + 1) - 1..Len(s)
  OBVIOUS
<1>2. /\ SubSeq(s, n + 1, Len(s)) \in Seq(S)
      /\ Len(SubSeq(s, n + 1, Len(s))) = Len(s) - (n + 1) + 1
      /\ \A k \in 1..Len(s) - (n + 1) + 1 : SubSeq(s, n + 1, Len(s))[k] = s[(n + 1) + k - 1]
  BY <1>1, SubSeqFacts
<1>3. DOMAIN SubSeq(s, n + 1, Len(s)) = 1..Len(s) - n
  BY <1>1, <1>2, LenProperties
<1>4. \A k \in 1..Len(s) - n : (n + 1) + k - 1 = n + k /\ n + k \in 1..Len(s)
  BY <1>1
<1> QED
  BY <1>1, <1>2, <1>3, <1>4

\* And when the first n have left it
LEMMA BatchedRest ==
  ASSUME NEW i \in Call, CallTypes, NEW n \in 1..Len(queued[i]),
         queued'[i] = SubSeq(queued[i], n + 1, Len(queued[i]))
  PROVE  /\ Batched(i)' \in Seq(Event)
         /\ Len(Batched(i)') = Len(queued[i]) - n
         /\ \A k \in 1..Len(queued[i]) - n : /\ Batched(i)'[k] = Batched(i)[n + k]
                                           /\ queued'[i][k] = queued[i][n + k]
                                           /\ n + k \in 1..Len(queued[i])
<1> DEFINE m == Len(queued[i])
           b == Batched(i)
           c == Batched(i)'
<1>1. /\ queued[i] \in Seq(Envelope) /\ m \in Nat /\ DOMAIN queued[i] = 1..m
  BY BatchedType
<1>2. PICK l \in Nat : l = m - n
  <2>1. n \in 1..m
    OBVIOUS
  <2> HIDE DEF m
  <2> QED
    BY <1>1, <2>1
<1>3. PICK q \in Seq(Envelope) :
        /\ q = queued'[i] /\ Len(q) = l /\ DOMAIN q = 1..l
        /\ \A k \in 1..l : q[k] = queued[i][n + k] /\ n + k \in 1..m
  <2> DEFINE r == SubSeq(queued[i], n + 1, m)
  <2>1. /\ r \in Seq(Envelope) /\ Len(r) = m - n /\ DOMAIN r = 1..m - n
        /\ \A k \in 1..m - n : r[k] = queued[i][n + k] /\ n + k \in 1..m
    BY <1>1, RestFacts
  <2>2. r = queued'[i]
    OBVIOUS
  <2> HIDE DEF r
  <2> QED
    BY <1>2, <2>1, <2>2
<1> HIDE DEF b, c, m
<1>4. c = [k \in 1..l |-> q[k].event] /\ \A k \in 1..l : q[k].event \in Event
  <2>1. \A k \in 1..l : q[k] \in Envelope
    BY <1>3
  <2>2. c = [k \in DOMAIN q |-> q[k].event]
    BY <1>3 DEF Batched, c
  <2> QED
    BY <1>3, <2>1, <2>2 DEF Envelope
<1>5. c \in Seq(Event) /\ Len(c) = l /\ \A k \in 1..l : c[k] = q[k].event
  BY <1>4
<1>6. \A k \in 1..m : b[k] = queued[i][k].event
  BY <1>1 DEF Batched, b
<1>7. \A k \in 1..l : c[k] = b[n + k]
  BY <1>3, <1>5, <1>6
<1> QED
  BY <1>2, <1>3, <1>5, <1>7 DEF b, c, m

LEMMA CallLedStays ==
  ASSUME TypeInv, Later, Confirmed \subseteq Confirmed', NEW i \in Call, CallLed(i),
         todo'[i] = todo[i], queued'[i] = queued[i]
  PROVE  CallLed(i)'
<1>1. Batched(i) \in Seq(Event) /\ todo[i] \in Seq(Event)
  BY BatchedType DEF TypeInv
<1>2. Batched(i)' = Batched(i)
  BY DEF Batched
<1>3. Led(Batched(i), Confirmed', Alive', taken')
  BY <1>1, LedNow DEF CallLed
<1>4. Led(todo[i], Confirmed' \union EventsOf(Batched(i)), Alive', taken')
  BY <1>1, LedNow DEF CallLed
<1> QED
  BY <1>2, <1>3, <1>4 DEF CallLed

\* A call that is over has nothing
LEMMA ClosedCallLed == ASSUME NEW i \in Call, todo'[i] = <<>>, queued'[i] = <<>> PROVE CallLed(i)'
<1>1. Batched(i)' = <<>>
  BY DEF Batched
<1> QED
  BY <1>1, LedEmpty DEF CallLed

LEMMA CallsStay ==
  ASSUME TypeInv, Later, Confirmed \subseteq Confirmed', CallsLed,
         \/ UNCHANGED <<todo, queued>>
         \/ \E i \in Call : Close(i)
  PROVE  CallsLed'
<1> SUFFICES ASSUME NEW j \in Call PROVE CallLed(j)'
  BY DEF CallsLed
<1>1. CASE UNCHANGED <<todo, queued>>
  BY <1>1, CallLedStays DEF CallsLed
<1>2. ASSUME NEW i \in Call, Close(i) PROVE CallLed(j)'
  BY <1>2, CloseFacts, CallLedStays, ClosedCallLed DEF CallsLed, TypeInv
<1> QED
  BY <1>1, <1>2

LEMMA LateStays ==
  ASSUME TypeInv, Later, Confirmed \subseteq Confirmed', LateLed, late' \subseteq late
  PROVE  LateLed'
<1>1. \A c \in late : c.events \in Seq(Event)
  BY DEF TypeInv, BusTypes, Content
<1>2. \A c \in late : Led(c.events, Confirmed', Alive', taken')
  BY <1>1, LedNow DEF LateLed
<1> QED
  BY <1>2 DEF LateLed

LEMMA MessageEvents ==
  ASSUME BusTypes, NEW k \in DOMAIN bus PROVE bus[k].content.events \in Seq(Event)
<1>1. bus[k] \in Message
  BY DEF BusTypes
<1> QED
  BY <1>1 DEF Message, Content

LEMMA BusStays ==
  ASSUME TypeInv, Later, BusLed, bus' = bus, stored \subseteq stored' PROVE BusLed'
<1> SUFFICES ASSUME NEW k \in DOMAIN bus
             PROVE  /\ bus'[k].content.shard = "asset"
                    /\ Led(bus'[k].content.events, Ahead(k)', Alive', taken')
  BY DEF BusLed
<1>1. Ahead(k) \subseteq Ahead(k)'
  BY DEF Ahead
<1>2. bus[k].content.events \in Seq(Event)
  BY MessageEvents DEF TypeInv
<1>3. Led(bus[k].content.events, Ahead(k)', Alive', taken')
  BY <1>1, <1>2, LedNow DEF BusLed
<1> QED
  BY <1>3 DEF BusLed

LEMMA StoredStays == ASSUME TypeInv, Later, StoredLed, stored' = stored PROVE StoredLed'
<1>1. stored \subseteq Nat
  BY DEF TypeInv, DbTypes
<1>2. ASSUME NEW e \in stored, NEW d \in Alive', d < e PROVE d \in stored
  <2>1. d \in Nat /\ e \in Nat /\ e <= taken
    BY <1>1 DEF Later, StoredLed
  <2>2. d \in Alive
    BY <1>2, <2>1 DEF Later
  <2> QED
    BY <1>2, <2>2 DEF StoredLed
<1>3. ASSUME NEW e \in stored PROVE e <= taken'
  <2>1. PICK n \in Nat : n = taken' /\ taken <= n
    BY DEF Later
  <2>2. e \in Nat /\ e <= taken
    BY <1>1 DEF StoredLed
  <2> QED
    BY <2>1, <2>2 DEF Later
<1> QED
  BY <1>2, <1>3 DEF StoredLed

LEMMA HeadStays ==
  ASSUME HeadOnly, bus' = bus, UNCHANGED workVars, stored \subseteq stored' PROVE HeadOnly'
<1>1. \A w \in Worker : EventsAt(w)' = EventsAt(w) /\ worker'[w] = worker[w] /\ mine'[w] = mine[w]
                        /\ msg'[w] = msg[w]
  BY DEF EventsAt
<1> QED
  BY <1>1 DEF HeadOnly
-----------------------------------------------------------------------------
(* The agent's steps.                                                       *)

\* A rising sequence is led by itself
LEMMA RisingLed ==
  ASSUME NEW b \in Seq(Event), NEW n, Rising(b, n), NEW k \in DOMAIN b, NEW d \in EventsOf(b), d < b[k]
  PROVE  \E j \in 1..k - 1 : b[j] = d
<1>1. PICK j \in DOMAIN b : b[j] = d
  BY DEF EventsOf
<1>2. b[j] \in Nat /\ b[k] \in Nat /\ j \in Nat /\ k \in Nat /\ j >= 1
  BY Items
<1>3. ~(k < j)
  BY <1>1, <1>2 DEF Rising
<1>4. j # k
  BY <1>1, <1>2
<1> QED
  BY <1>1, <1>2, <1>3, <1>4

\* The oldest file: what is earlier than one of its events is in it or confirmed
LEMMA FrontLed ==
  ASSUME TypeInv, DiskInv, DirsInOrder, RemovedConfirmed, NEW s \in DOMAIN files, IsFront(s)
  PROVE  Led(files[s], Confirmed, Alive, taken)
<1> DEFINE b == files[s]
<1>1. b \in Seq(Event) /\ b = At(s) /\ s \in Dirs /\ Rising(b, taken)
  BY DirsFacts DEF At, Dirs, DirsInOrder
<1>2. Alive \subseteq Event /\ Dirs \subseteq Nat
  BY DirsFacts
<1> HIDE DEF b
<1> SUFFICES ASSUME NEW k \in DOMAIN b, NEW d \in Alive, d < b[k]
             PROVE  d \in Confirmed \/ \E j \in 1..k - 1 : b[j] = d
  BY <1>1 DEF Led, Rising, b
<1>3. d \in Nat /\ b[k] \in Nat /\ b[k] \in EventsOf(b)
  BY <1>1, <1>2, Items DEF EventsOf
<1>4. ASSUME d \in EventsOf(b) PROVE \E j \in 1..k - 1 : b[j] = d
  BY <1>1, <1>4, RisingLed
<1>5. ASSUME NEW c, Before(b, c), d \in EventsOf(c) PROVE FALSE
  <2>1. b[k] < d
    BY <1>3, <1>5 DEF Before
  <2> QED
    BY <1>3, <2>1
<1>6. CASE d \in EventsOf(batch)
  BY <1>1, <1>4, <1>5, <1>6 DEF DirsInOrder
<1>7. ASSUME NEW t \in DOMAIN files, d \in EventsOf(files[t]) PROVE \E j \in 1..k - 1 : b[j] = d
  <2>1. t \in Dirs /\ At(t) = files[t] /\ s <= t /\ t \in Nat /\ s \in Nat
    BY <1>1, <1>2 DEF Dirs, At, IsFront
  <2>2. t = s \/ s < t
    BY <2>1
  <2>3. CASE t = s
    BY <1>4, <1>7, <2>3 DEF b
  <2>4. CASE s < t
    BY <1>1, <1>4, <1>5, <1>7, <2>1, <2>4 DEF DirsInOrder
  <2> QED
    BY <2>2, <2>3, <2>4
<1>8. CASE d \in OnDisk(files)
  BY <1>7, <1>8 DEF OnDisk
<1>9. CASE d \in OnDisk(durable)
  <2>1. PICK t \in DOMAIN durable : d \in EventsOf(durable[t])
    BY <1>9 DEF OnDisk
  <2>2. CASE t \in DOMAIN files
    BY <1>7, <2>1, <2>2 DEF DiskInv, Agree
  <2>3. CASE t \notin DOMAIN files
    BY <2>1, <2>3 DEF RemovedConfirmed
  <2> QED
    BY <2>2, <2>3
<1>10. CASE d \in accepted
  BY <1>7, <1>10 DEF DiskInv, SafeOnDisk
<1> QED
  BY <1>6, <1>8, <1>9, <1>10 DEF Alive

LEMMA LoadStays ==
  ASSUME TypeInv, KeptInv, DirsInOrder, RemovedConfirmed, Led(load, Confirmed, Alive, taken),
         AgentStep
  PROVE  Led(load', Confirmed', Alive', taken')
<1>0. Later /\ Confirmed' = Confirmed /\ load \in Seq(Event)
  BY AgentLater, AgentLeavesServer DEF TypeInv, SpoolInv, SpoolTypes
<1>1. ASSUME load' = load PROVE Led(load', Confirmed', Alive', taken')
  BY <1>0, <1>1, LedNow
<1>2. ASSUME load' = <<>> PROVE Led(load', Confirmed', Alive', taken')
  BY <1>2, LedEmpty
<1>3. CASE Fetch
  <2>1. PICK s \in DOMAIN files : TakeFront(s)
    BY <1>3 DEF Fetch
  <2>2. load' = files[s] /\ files[s] \in Seq(Event) /\ IsFront(s)
    BY <2>1 DEF TakeFront, TypeInv, SpoolInv, SpoolTypes
  <2>3. Led(files[s], Confirmed, Alive, taken)
    BY <2>2, FrontLed DEF KeptInv
  <2> QED
    BY <1>0, <2>2, <2>3, LedNow
<1>4. CASE \/ Gather \/ Persist \/ PersistRefused \/ PersistFails \/ TakeAck
           \/ \E i \in Call : SendChunk(i)
  BY <1>1, <1>4 DEF Gather, Collect, Persist, AppendBatch, PersistRefused, AppendRefused,
                    PersistFails, AppendFails, TakeAck, ChunkAcknowledged, SendChunk, spoolVars
<1>5. CASE Removed \/ UploadStops \/ AgentRestarts
  BY <1>1, <1>2, <1>5 DEF Removed, AcknowledgeBatch, AcknowledgeOrphan, UploadStops, StopUpload,
                          AgentRestarts, Reopen, Idle
<1> QED
  BY <1>3, <1>4, <1>5 DEF AgentStep

\* The next chunk is led, as what was sent before is confirmed
LEMMA ChunkLed ==
  ASSUME TypeInv, DiskInv, Led(load, Confirmed, Alive, taken)
  PROVE  Chunk \in Seq(Event) /\ Led(Chunk, Confirmed, Alive, taken)
<1>1. load \in Seq(Event) /\ sent \in 0..Len(load)
  BY DEF TypeInv, SpoolInv, SpoolTypes
<1>2. /\ Chunk \in Seq(Event) /\ sent + Len(Chunk) <= Len(load)
      /\ \A k \in 1..Len(Chunk) : Chunk[k] = load[sent + k]
  BY <1>1, ChunkFacts
<1>3. sent \in Nat /\ \A k \in 1..sent : load[k] \in Confirmed
  BY <1>1 DEF DiskInv, UploadOK
<1> QED
  BY <1>1, <1>2, <1>3, LedRest

LEMMA AgentKeepsOrderInv ==
  ASSUME TypeInv, KeptInv, OrderInv, AgentStep PROVE OrderInv'
<1>0. /\ Later /\ Confirmed' = Confirmed
      /\ UNCHANGED <<bus, late, workVars, dbVars>>
  BY AgentLater, AgentLeavesServer
<1>1. DirsInOrder' /\ RemovedConfirmed'
  BY AgentKeepsOrder DEF OrderInv
<1>2. Led(load', Confirmed', Alive', taken')
  BY LoadStays DEF OrderInv
<1>3. LateLed' /\ BusLed' /\ StoredLed' /\ HeadOnly'
  BY <1>0, LateStays, BusStays, StoredStays, HeadStays DEF OrderInv
<1>4. CallsLed'
  <2>1. CASE ~\E i \in Call : SendChunk(i)
    <3>1. UNCHANGED <<todo, queued>> \/ \E i \in Call : Close(i)
      BY <2>1 DEF AgentStep, Gather, Persist, PersistRefused, PersistFails, Fetch, TakeAck, Removed,
                  UploadStops, AgentRestarts, Hangup, TypeInv, LinkTypes
    <3> QED
      BY <1>0, <3>1, CallsStay DEF OrderInv
  <2>2. ASSUME NEW i \in Call, SendChunk(i) PROVE CallsLed'
    <3>1. todo' = [todo EXCEPT ![i] = Chunk] /\ queued' = queued
      BY <2>2 DEF SendChunk, Report
    <3>2. \A j \in Call \ {i} : CallLed(j)'
      BY <1>0, <3>1, CallLedStays DEF TypeInv, CallTypes, OrderInv, CallsLed
    <3>3. Chunk \in Seq(Event) /\ Led(Chunk, Confirmed, Alive, taken)
      BY ChunkLed DEF KeptInv, OrderInv
    <3>4. /\ Led(Batched(i), Confirmed', Alive', taken')
          /\ Led(Chunk, Confirmed' \union EventsOf(Batched(i)), Alive', taken')
      BY <1>0, <3>3, BatchedType, LedNow DEF TypeInv, OrderInv, CallsLed, CallLed
    <3>5. todo'[i] = Chunk /\ Batched(i)' = Batched(i)
      BY <3>1 DEF TypeInv, CallTypes, Batched
    <3>6. CallLed(i)'
      BY <3>1, <3>4, <3>5 DEF CallLed, OrderInv, CallsLed
    <3> QED
      BY <3>2, <3>6 DEF CallsLed
  <2> QED
    BY <2>1, <2>2
<1> QED
  BY <1>1, <1>2, <1>3, <1>4 DEF OrderInv
-----------------------------------------------------------------------------
(* The server's calls.                                                      *)

\* The handler's next event goes to the asset's shard, behind those queued
LEMMA HandleOrder ==
  ASSUME LookupFails = FALSE, TypeInv, Later, Confirmed' = Confirmed, CallsLed,
         NEW i \in Call, Handle(i)
  PROVE  CallsLed'
<1> DEFINE b == Batched(i)
           e == Head(todo[i])
           q == Append(queued[i], [event |-> e, shard |-> "asset"])
<1>1. /\ todo[i] # <<>> /\ todo' = [todo EXCEPT ![i] = Tail(@)]
      /\ \E found \in {TRUE, ~LookupFails} : known' = [known EXCEPT ![i] = @ \/ found]
      /\ LET shard == IF known'[i] THEN "asset" ELSE "agent"
         IN queued' = [queued EXCEPT ![i] = Append(@, [event |-> Head(todo[i]), shard |-> shard])]
  BY DEF Handle
<1>2. known'[i]
  <2>1. \A found \in {TRUE, ~LookupFails} : found = TRUE
    OBVIOUS
  <2>2. known' = [known EXCEPT ![i] = @ \/ TRUE]
    BY <1>1, <2>1
  <2> QED
    BY <2>2 DEF TypeInv, CallTypes
<1>3. queued'[i] = q /\ todo'[i] = Tail(todo[i])
  BY <1>1, <1>2 DEF TypeInv, CallTypes
<1>4. \A j \in Call \ {i} : CallLed(j)'
  <2>1. \A j \in Call \ {i} : todo'[j] = todo[j] /\ queued'[j] = queued[j]
    BY <1>1 DEF TypeInv, CallTypes
  <2> QED
    BY <2>1, CallLedStays DEF CallsLed
<1>5. /\ b \in Seq(Event) /\ queued[i] \in Seq(Envelope) /\ todo[i] \in Seq(Event)
      /\ Len(b) = Len(queued[i])
  BY BatchedType DEF TypeInv
<1>6. /\ Tail(todo[i]) \in Seq(Event) /\ e \in Event /\ e = todo[i][1] /\ 1 \in DOMAIN todo[i]
      /\ Len(Tail(todo[i])) = Len(todo[i]) - 1 /\ Len(todo[i]) \in Nat
      /\ \A k \in 1..Len(todo[i]) - 1 : Tail(todo[i])[k] = todo[i][1 + k]
  BY <1>1, <1>5, HeadTailProperties, LenProperties, EmptySeq
<1>7. Batched(i)' = Append(b, e)
  <2>1. "asset" \in Shard
    BY DEF Shard
  <2> QED
    BY <1>3, <1>6, <2>1, BatchedAppend DEF TypeInv
<1>8. EventsOf(Append(b, e)) = EventsOf(b) \union {e} /\ Append(b, e) \in Seq(Event)
  BY <1>5, <1>6, AppendEvents
<1>9. /\ Led(b, Confirmed, Alive, taken)
      /\ Led(todo[i], Confirmed \union EventsOf(b), Alive, taken)
      /\ \A k \in DOMAIN queued[i] : queued[i][k].shard = "asset"
  BY DEF CallsLed, CallLed
<1> HIDE DEF b, e
<1>10. Led(Append(b, e), Confirmed, Alive, taken)
  <2>1. e <= taken /\ \A d \in Alive : d < e => d \in Confirmed \union EventsOf(b)
    BY <1>6, <1>9 DEF Led
  <2> QED
    BY <1>5, <1>6, <1>9, <2>1, LedAppend
<1>11. Led(Tail(todo[i]), Confirmed \union EventsOf(Append(b, e)), Alive, taken)
  <2>1. \A k \in 1..1 : todo[i][k] \in Confirmed \union EventsOf(Append(b, e))
    BY <1>6, <1>8
  <2>2. Confirmed \union EventsOf(b) \subseteq Confirmed \union EventsOf(Append(b, e))
    BY <1>8
  <2>3. 1 + Len(Tail(todo[i])) <= Len(todo[i])
        /\ \A k \in 1..Len(Tail(todo[i])) : Tail(todo[i])[k] = todo[i][1 + k]
    BY <1>6
  <2> DEFINE s == todo[i]
             r == Tail(todo[i])
             X == Confirmed \union EventsOf(b)
             Y == Confirmed \union EventsOf(Append(b, e))
  <2>4. /\ s \in Seq(Event) /\ r \in Seq(Event) /\ Led(s, X, Alive, taken)
        /\ X \subseteq Y /\ \A k \in 1..1 : s[k] \in Y
        /\ 1 + Len(r) <= Len(s) /\ \A k \in 1..Len(r) : r[k] = s[1 + k]
    BY <1>5, <1>6, <1>9, <2>1, <2>2, <2>3
  <2> HIDE DEF s, r, X, Y
  <2>5. Led(r, Y, Alive, taken)
    BY <2>4, LedRest
  <2> QED
    BY <2>5 DEF r, Y
<1>12. /\ Led(Append(b, e), Confirmed', Alive', taken')
       /\ Led(Tail(todo[i]), Confirmed' \union EventsOf(Append(b, e)), Alive', taken')
  BY <1>6, <1>8, <1>10, <1>11, LedNow
<1>13. \A k \in DOMAIN queued'[i] : queued'[i][k].shard = "asset"
  <2>1. /\ DOMAIN q = 1..Len(queued[i]) + 1 /\ Len(queued[i]) \in Nat
        /\ DOMAIN queued[i] = 1..Len(queued[i])
        /\ \A k \in 1..Len(queued[i]) : q[k] = queued[i][k]
        /\ q[Len(queued[i]) + 1].shard = "asset"
    BY <1>5
  <2> HIDE DEF q
  <2> QED
    BY <1>3, <1>9, <2>1
<1>14. CallLed(i)'
  BY <1>3, <1>7, <1>12, <1>13 DEF CallLed
<1> QED
  BY <1>4, <1>14 DEF CallsLed

\* A message made of the first queued events
LEMMA FirstLed ==
  ASSUME TypeInv, CallsLed, NEW i \in Call, NEW content \in FirstOf(i)
  PROVE  content \in Content /\ content.shard = "asset"
         /\ Led(content.events, Confirmed, Alive, taken)
<1>1. /\ content \in Content
      /\ Len(content.events) \in 1..Len(queued[i])
      /\ \A k \in 1..Len(content.events) :
           content.events[k] = queued[i][k].event /\ content.shard = queued[i][k].shard
  BY FirstOfFacts DEF TypeInv
<1>2. /\ Batched(i) \in Seq(Event) /\ Len(Batched(i)) = Len(queued[i])
      /\ DOMAIN queued[i] = 1..Len(queued[i]) /\ content.events \in Seq(Event)
  BY <1>1, BatchedType DEF TypeInv, Content
<1>3. \A k \in 1..Len(content.events) : content.events[k] = Batched(i)[k]
  BY <1>1, <1>2 DEF Batched
<1>4. Led(Batched(i), Confirmed, Alive, taken) /\ \A k \in DOMAIN queued[i] : queued[i][k].shard = "asset"
  BY DEF CallsLed, CallLed
<1>5. content.shard = "asset"
  BY <1>1, <1>2, <1>4
<1>6. Led(content.events, Confirmed, Alive, taken)
  BY <1>1, <1>2, <1>3, <1>4, LedFirst
<1> QED
  BY <1>1, <1>5, <1>6

\* The rest of the queue follows
LEMMA FlushOrder ==
  ASSUME TypeInv, Later, CallsLed, NEW i \in Call, NEW content \in FirstOf(i),
         Confirmed \subseteq Confirmed', EventsOf(content.events) \subseteq Confirmed',
         queued' = [queued EXCEPT ![i] = SubSeq(@, Len(content.events) + 1, Len(@))],
         todo' = todo
  PROVE  CallsLed'
<1> DEFINE n == Len(content.events)
           m == Len(queued[i])
           b == Batched(i)
           c == Batched(i)'
<1>1. /\ content \in Content /\ n \in 1..m
      /\ DOMAIN content.events = 1..n
      /\ \A k \in 1..n : content.events[k] = queued[i][k].event
  BY FirstOfFacts DEF TypeInv
<1>2. /\ b \in Seq(Event) /\ Len(b) = m /\ queued[i] \in Seq(Envelope) /\ todo[i] \in Seq(Event)
      /\ m \in Nat /\ DOMAIN queued[i] = 1..m
  BY BatchedType DEF TypeInv
<1>3. queued'[i] = SubSeq(queued[i], n + 1, m) /\ \A j \in Call \ {i} : queued'[j] = queued[j]
  BY DEF TypeInv, CallTypes
<1> HIDE DEF n, m, b, c
<1>0. PICK l \in Nat : l = m - n
  BY <1>1, <1>2
<1>7. /\ c \in Seq(Event) /\ Len(c) = l /\ DOMAIN c = 1..l
      /\ \A k \in 1..l : c[k] = b[n + k] /\ queued'[i][k] = queued[i][n + k] /\ n + k \in 1..m
  <2>1. /\ c \in Seq(Event) /\ Len(c) = m - n
        /\ \A k \in 1..m - n : c[k] = b[n + k] /\ queued'[i][k] = queued[i][n + k] /\ n + k \in 1..m
    <3>1. n \in 1..Len(queued[i]) /\ queued'[i] = SubSeq(queued[i], n + 1, Len(queued[i]))
      BY <1>1, <1>3 DEF m
    <3>2. CallTypes
      BY DEF TypeInv
    <3> QED
      BY <3>1, <3>2, BatchedRest DEF b, c, m
  <2>2. DOMAIN c = 1..Len(c)
    BY <2>1
  <2> QED
    BY <1>0, <2>1, <2>2
<1>8. \A k \in 1..n : b[k] \in Confirmed'
  <2>1. \A k \in 1..m : b[k] = queued[i][k].event
    BY <1>2 DEF Batched, b
  <2>2. \A k \in 1..n : content.events[k] \in Confirmed'
    BY <1>1 DEF EventsOf
  <2> QED
    BY <1>1, <1>2, <2>1, <2>2
<1>10. Led(b, Confirmed, Alive, taken) /\ Led(todo[i], Confirmed \union EventsOf(b), Alive, taken)
  BY DEF CallsLed, CallLed, b
<1>11. Led(c, Confirmed', Alive, taken)
  <2>1. n \in Nat /\ n + Len(c) <= Len(b)
    BY <1>0, <1>1, <1>2, <1>7
  <2>2. \A k \in 1..Len(c) : c[k] = b[n + k]
    BY <1>7
  <2> QED
    BY <1>2, <1>7, <1>8, <1>10, <2>1, <2>2, LedRest
<1>12. EventsOf(b) \subseteq Confirmed' \union EventsOf(c)
  <2> SUFFICES ASSUME NEW k \in 1..m, k > n PROVE b[k] \in EventsOf(c)
    BY <1>1, <1>2, <1>8 DEF EventsOf
  <2>1. k - n \in 1..l /\ n + (k - n) = k
    BY <1>0, <1>1, <1>2
  <2> QED
    BY <1>7, <2>1 DEF EventsOf
<1>13. /\ Led(c, Confirmed', Alive', taken')
       /\ Led(todo[i], Confirmed' \union EventsOf(c), Alive', taken')
  BY <1>2, <1>7, <1>10, <1>11, <1>12, LedNow
<1>14. \A k \in DOMAIN queued'[i] : queued'[i][k].shard = "asset"
  <2>0. DOMAIN queued'[i] = 1..l
    <3>1. DOMAIN SubSeq(queued[i], n + 1, m) = 1..m - n
      BY <1>1, <1>2, RestFacts DEF m
    <3> QED
      BY <1>0, <1>3, <3>1
  <2> SUFFICES ASSUME NEW k \in 1..l PROVE queued'[i][k].shard = "asset"
    BY <2>0
  <2>1. n + k \in DOMAIN queued[i]
    BY <1>2, <1>7
  <2> QED
    BY <1>7, <2>1 DEF CallsLed, CallLed
<1>15. CallLed(i)'
  BY <1>13, <1>14 DEF CallLed, c
<1> QED
  BY <1>3, <1>15, CallLedStays DEF CallsLed

\* A message that enters the stream stands behind all others
LEMMA StoreKeepsOrder ==
  ASSUME TypeInv, Later, BusLed, HeadOnly, UNCHANGED <<workVars, stored>>,
         NEW content \in Content, content.shard = "asset",
         Led(content.events, Confirmed, Alive, taken), Store(content)
  PROVE  BusLed' /\ HeadOnly'
<1>1. CASE bus' = bus
  BY <1>1, BusStays, HeadStays
<1>2. ASSUME NEW id, bus' = Append(bus, [id |-> id, content |-> content])
      PROVE  BusLed' /\ HeadOnly'
  <2>1. bus \in Seq(Message) /\ content.events \in Seq(Event)
    BY DEF TypeInv, BusTypes, Content
  <2>2. /\ Len(bus) \in Nat /\ DOMAIN bus = 1..Len(bus) /\ DOMAIN bus' = 1..Len(bus) + 1
        /\ \A k \in DOMAIN bus : bus'[k] = bus[k]
        /\ bus'[Len(bus) + 1].content = content
    BY <1>2, <2>1
  <2>3. ASSUME NEW k \in DOMAIN bus
        PROVE  bus'[k].content.shard = "asset" /\ Led(bus'[k].content.events, Ahead(k)', Alive', taken')
    <3>1. \A j \in 1..k - 1 : bus'[j] = bus[j]
      BY <2>2
    <3>2. Ahead(k) \subseteq Ahead(k)'
      BY <3>1 DEF Ahead
    <3>3. bus[k].content.events \in Seq(Event)
      BY MessageEvents DEF TypeInv
    <3>4. Led(bus[k].content.events, Ahead(k)', Alive', taken')
      BY <3>2, <3>3, LedNow DEF BusLed
    <3> QED
      BY <2>2, <3>4 DEF BusLed
  <2>0. PICK n \in Nat : n = Len(bus) + 1
    BY <2>2
  <2>4. Led(content.events, Ahead(n)', Alive', taken')
    <3>1. \A j \in DOMAIN bus : j \in 1..n - 1
      BY <2>0, <2>2
    <3>2. Confirmed \subseteq Ahead(n)'
      BY <2>2, <3>1 DEF Confirmed, Published, Ahead
    <3> QED
      BY <2>1, <3>2, LedNow
  <2>5. BusLed'
    <3> SUFFICES ASSUME NEW k \in DOMAIN bus'
                 PROVE  bus'[k].content.shard = "asset" /\ Led(bus'[k].content.events, Ahead(k)', Alive', taken')
      BY DEF BusLed
    <3>1. k \in DOMAIN bus \/ k = n
      BY <2>0, <2>2
    <3> QED
      BY <2>0, <2>2, <2>3, <2>4, <3>1
  <2>6. HeadOnly'
    <3>1. bus # <<>> => bus' # <<>> /\ bus'[1] = bus[1]
      <4>1. bus # <<>> => 1 \in DOMAIN bus
        BY <2>1
      <4> QED
        BY <2>2, <4>1
    <3>2. \A w \in Worker : EventsAt(w)' = EventsAt(w) /\ worker'[w] = worker[w] /\ mine'[w] = mine[w]
                            /\ msg'[w] = msg[w]
      BY DEF EventsAt
    <3> QED
      BY <3>1, <3>2 DEF HeadOnly
  <2> QED
    BY <2>5, <2>6
<1> QED
  BY <1>1, <1>2, StoreFacts DEF TypeInv

\* What does not depend on the steps of the server
LEMMA DiskOrderStays ==
  ASSUME TypeInv, Later, Confirmed \subseteq Confirmed', UNCHANGED spoolVars,
         DirsInOrder, RemovedConfirmed, Led(load, Confirmed, Alive, taken)
  PROVE  DirsInOrder' /\ RemovedConfirmed' /\ Led(load', Confirmed', Alive', taken')
<1>1. UNCHANGED <<taken, batch, blocked, files, durable, load>>
  BY DEF spoolVars
<1>2. DirsInOrder' /\ RemovedConfirmed'
  BY <1>1 DEF DirsInOrder, RemovedConfirmed, Dirs, At
<1>3. load \in Seq(Event)
  BY DEF TypeInv, SpoolInv, SpoolTypes
<1> QED
  BY <1>1, <1>2, <1>3, LedNow

LEMMA CallsKeepOrder ==
  ASSUME LookupFails = FALSE, TypeInv, CallsOK, Later, CallsLed, LateLed, BusLed, HeadOnly,
         NEW i \in Call, CallProceeds(i) \/ CallBreaks(i)
  PROVE  CallsLed' /\ LateLed' /\ BusLed' /\ HeadOnly'
<1>0. UNCHANGED <<workVars, stored>> /\ Confirmed \subseteq Confirmed'
  BY CallStepFacts DEF CallProceeds, CallBreaks
<1>1. ASSUME UNCHANGED bus PROVE BusLed' /\ HeadOnly'
  BY <1>0, <1>1, BusStays, HeadStays
<1>2. CASE Handle(i)
  <2>1. UNCHANGED <<bus, late>> /\ Confirmed' = Confirmed
    BY <1>0, <1>2 DEF Handle, Confirmed, Published
  <2> QED
    BY <1>0, <1>1, <1>2, <2>1, HandleOrder, LateStays
<1>3. CASE Flush(i)
  <2>1. PICK content \in FirstOf(i) :
          /\ Store(content) /\ UNCHANGED <<todo, late>>
          /\ queued' = [queued EXCEPT ![i] = SubSeq(@, Len(content.events) + 1, Len(@))]
    BY <1>3 DEF Flush
  <2>2. content \in Content /\ content.shard = "asset" /\ Led(content.events, Confirmed, Alive, taken)
    BY FirstLed
  <2>3. EventsOf(content.events) \subseteq Confirmed'
    BY <1>0, <2>1, <2>2, StoreConfirms DEF TypeInv
  <2>4. CallsLed'
    BY <1>0, <2>1, <2>3, FlushOrder
  <2>5. BusLed' /\ HeadOnly'
    BY <1>0, <2>1, <2>2, StoreKeepsOrder
  <2> QED
    BY <1>0, <2>1, <2>4, <2>5, LateStays
<1>4. CASE SendAck(i) \/ CallEnds(i)
  <2>1. UNCHANGED <<bus, late>> /\ (UNCHANGED <<todo, queued>> \/ Close(i))
    BY <1>4 DEF SendAck, CallEnds
  <2> QED
    BY <1>0, <1>1, <2>1, CallsStay, LateStays
<1>5. CASE FlushFails(i)
  <2>1. /\ UNCHANGED bus /\ Close(i)
        /\ late' = late \/ \E content \in FirstOf(i) : late' = late \union {content}
    BY <1>5 DEF FlushFails
  <2>2. CASE late' = late
    BY <1>0, <1>1, <2>1, <2>2, CallsStay, LateStays
  <2>3. ASSUME NEW content \in FirstOf(i), late' = late \union {content} PROVE LateLed'
    <3>1. content.shard = "asset" /\ Led(content.events, Confirmed', Alive', taken')
      <4>1. content \in Content /\ content.shard = "asset" /\ Led(content.events, Confirmed, Alive, taken)
        BY FirstLed
      <4>2. content.events \in Seq(Event)
        BY <4>1 DEF Content
      <4> QED
        BY <1>0, <4>1, <4>2, LedNow
    <3>2. \A c \in late : c.shard = "asset" /\ Led(c.events, Confirmed', Alive', taken')
      <4>1. \A c \in late : c.events \in Seq(Event)
        BY DEF TypeInv, BusTypes, Content
      <4> QED
        BY <1>0, <4>1, LedNow DEF LateLed
    <3> QED
      BY <2>3, <3>1, <3>2 DEF LateLed
  <2> QED
    BY <1>0, <1>1, <2>1, <2>2, <2>3, CallsStay
<1> QED
  BY <1>2, <1>3, <1>4, <1>5 DEF CallProceeds, CallBreaks

LEMMA LateKeepsOrder ==
  ASSUME TypeInv, Later, CallsLed, LateLed, BusLed, HeadOnly, LateArrives
  PROVE  /\ CallsLed' /\ LateLed' /\ BusLed' /\ HeadOnly'
         /\ Confirmed \subseteq Confirmed' /\ UNCHANGED stored
<1>1. PICK content \in late : LateStored(content) \/ LateLost(content)
  BY DEF LateArrives
<1>2. /\ content \in Content /\ late' \subseteq late
      /\ UNCHANGED <<callVars, workVars, dbVars>> /\ UNCHANGED <<todo, queued, stored>>
  BY <1>1 DEF LateStored, LateLost, TypeInv, BusTypes
<1>3. BusLed' /\ HeadOnly' /\ Confirmed \subseteq Confirmed'
  <2>1. CASE LateStored(content)
    <3>1. Store(content)
      BY <2>1 DEF LateStored
    <3>2. content.shard = "asset" /\ Led(content.events, Confirmed, Alive, taken)
      BY DEF LateLed
    <3> QED
      BY <1>2, <3>1, <3>2, StoreKeepsOrder, StoreConfirms DEF TypeInv
  <2>2. CASE LateLost(content)
    <3>1. bus' = bus /\ Confirmed' = Confirmed
      BY <1>2, <2>2 DEF LateLost, Confirmed, Published
    <3> QED
      BY <1>2, <3>1, BusStays, HeadStays
  <2> QED
    BY <1>1, <2>1, <2>2
<1> QED
  BY <1>2, <1>3, CallsStay, LateStays

\* The acknowledged message was stored: what stood before one that is left
\* still does, or is stored
LEMMA AckKeepsOrder ==
  ASSUME TypeInv, KeptInv, Later, BusLed, HeadOnly, NEW w \in Worker, Ack(w)
  PROVE  BusLed' /\ HeadOnly' /\ stored' = stored
<1>0. BusTypes /\ WorkTypes /\ WorkOK(w) /\ worker[w] = "done" /\ stored' = stored
  BY DEF TypeInv, KeptInv, WorkersOK, Ack
<1>1. /\ EventsOf(EventsAt(w)) \subseteq stored
      /\ \A k \in DOMAIN bus : bus[k].id = msg[w].id => bus[k] = msg[w]
  BY <1>0 DEF WorkOK
<1>2. worker'[w] = "idle" /\ mine'[w] = {}
  BY <1>0 DEF Ack, Release, WorkTypes
<1>3. \A v \in Worker \ {w} : worker'[v] = worker[v] /\ msg'[v] = msg[v] /\ mine'[v] = mine[v]
  BY <1>0 DEF Ack, Release, WorkTypes
<1>4. ASSUME bus # <<>> => EventsOf(bus[1].content.events) \subseteq stored
                           \/ (bus' # <<>> /\ bus'[1] = bus[1])
      PROVE  HeadOnly'
  <2> SUFFICES ASSUME NEW v \in Worker
               PROVE  /\ worker'[v] # "idle" => \/ EventsOf(EventsAt(v)') \subseteq stored'
                                                \/ bus' # <<>> /\ bus'[1] = msg'[v]
                      /\ mine'[v] \subseteq EventsOf(EventsAt(v)')
    BY DEF HeadOnly
  <2>1. CASE v = w
    BY <1>2, <2>1
  <2>2. CASE v # w
    <3>1. /\ worker'[v] = worker[v] /\ msg'[v] = msg[v] /\ mine'[v] = mine[v]
          /\ EventsAt(v)' = EventsAt(v)
      BY <1>3, <2>2 DEF EventsAt
    <3>2. /\ mine[v] \subseteq EventsOf(EventsAt(v))
          /\ worker[v] # "idle" => EventsOf(EventsAt(v)) \subseteq stored \/ (bus # <<>> /\ bus[1] = msg[v])
      BY DEF HeadOnly
    <3>3. bus # <<>> /\ bus[1] = msg[v] /\ EventsOf(bus[1].content.events) \subseteq stored
            => EventsOf(EventsAt(v)) \subseteq stored
      BY DEF EventsAt
    <3> QED
      BY <1>0, <1>4, <3>1, <3>2, <3>3
  <2> QED
    BY <2>1, <2>2
<1>5. CASE UNCHANGED bus
  BY <1>0, <1>4, <1>5, BusStays
<1>6. ASSUME NEW k \in DOMAIN bus, bus[k].id = msg[w].id,
             Len(bus) \in Nat, DOMAIN bus = 1..Len(bus), DOMAIN bus' = 1..Len(bus) - 1,
             \A j \in 1..Len(bus) - 1 : bus'[j] = IF j < k THEN bus[j] ELSE bus[j + 1]
      PROVE  BusLed' /\ HeadOnly'
  <2> DEFINE old(j) == IF j < k THEN j ELSE j + 1
             new(i) == IF i < k THEN i ELSE i - 1
  <2>1. /\ bus[k] = msg[w] /\ EventsOf(bus[k].content.events) \subseteq stored
        /\ \A j \in DOMAIN bus' : old(j) \in DOMAIN bus /\ bus'[j] = bus[old(j)]
    BY <1>1, <1>6 DEF EventsAt
  <2>2. ASSUME NEW j \in DOMAIN bus', NEW i \in 1..old(j) - 1, i # k
        PROVE  new(i) \in 1..j - 1 /\ bus'[new(i)] = bus[i]
    <3>1. PICK l \in Nat : l = Len(bus)
      BY <1>6
    <3>2. /\ k \in 1..l /\ j \in 1..l - 1 /\ i \in 1..j /\ (j < k => i \in 1..j - 1)
      BY <1>6, <3>1
    <3>3. new(i) \in 1..j - 1 /\ new(i) \in 1..l - 1
      BY <2>2, <3>2
    <3>4. bus'[new(i)] = IF new(i) < k THEN bus[new(i)] ELSE bus[new(i) + 1]
      BY <1>6, <3>1, <3>3
    <3>5. (IF new(i) < k THEN new(i) ELSE new(i) + 1) = i
      BY <2>2, <3>2
    <3> QED
      BY <3>3, <3>4, <3>5
  <2>3. ASSUME k # 1 PROVE bus' # <<>> /\ bus'[1] = bus[1]
    <3>1. 1 \in DOMAIN bus' /\ 1 < k
      BY <1>6, <2>3
    <3>2. bus'[1] = bus[1]
      BY <1>6, <3>1
    <3>3. DOMAIN bus' # {} /\ DOMAIN <<>> = {}
      BY <3>1
    <3> QED
      BY <3>2, <3>3
  <2> HIDE DEF old, new
  <2>5. HeadOnly'
    BY <1>4, <2>1, <2>3
  <2>6. ASSUME NEW j \in DOMAIN bus' PROVE Ahead(old(j)) \subseteq Ahead(j)'
    <3> SUFFICES ASSUME NEW i \in 1..old(j) - 1
                 PROVE  EventsOf(bus[i].content.events) \subseteq Ahead(j)'
      BY <1>0 DEF Ahead
    <3>1. CASE i = k
      BY <1>0, <2>1, <3>1 DEF Ahead
    <3>2. CASE i # k
      BY <2>2, <3>2 DEF Ahead
    <3> QED
      BY <3>1, <3>2
  <2>7. BusLed'
    <3> SUFFICES ASSUME NEW j \in DOMAIN bus'
                 PROVE  bus'[j].content.shard = "asset" /\ Led(bus'[j].content.events, Ahead(j)', Alive', taken')
      BY DEF BusLed
    <3>1. /\ old(j) \in DOMAIN bus /\ bus'[j] = bus[old(j)]
          /\ bus[old(j)].content.events \in Seq(Event)
      BY <1>0, <2>1, MessageEvents
    <3>2. /\ bus[old(j)].content.shard = "asset"
          /\ Led(bus[old(j)].content.events, Ahead(old(j)), Alive, taken)
      BY <3>1 DEF BusLed
    <3> QED
      BY <2>6, <3>1, <3>2, LedNow
  <2> QED
    BY <2>5, <2>7
<1> QED
  BY <1>0, <1>5, <1>6, AckFacts
-----------------------------------------------------------------------------
(* The consumers.                                                           *)

\* Every step but the commit: all messages are of one shard, so that only the
\* oldest is delivered, and a transaction inserts events of its message
LEMMA WorkKeepsHead ==
  ASSUME TypeInv, WorkersOK, BusLed, HeadOnly, NEW w \in Worker, UNCHANGED <<bus, stored>>,
         \/ \E k \in DOMAIN bus : Deliver(w, k)
         \/ SkipDuplicate(w) \/ InsertEvent(w) \/ UpsertAlert(w)
         \/ Rollback(w) \/ AckLost(w)
  PROVE  HeadOnly'
<1>0. WorkTypes /\ BusTypes
  BY DEF TypeInv
<1>1. \A v \in Worker \ {w} : worker'[v] = worker[v] /\ msg'[v] = msg[v] /\ mine'[v] = mine[v]
  BY <1>0 DEF Deliver, SkipDuplicate, InsertEvent, UpsertAlert, Rollback, AckLost, Release, WorkTypes
<1>2. ASSUME /\ worker'[w] # "idle" => \/ EventsOf(EventsAt(w)') \subseteq stored
                                       \/ bus # <<>> /\ bus[1] = msg'[w]
             /\ mine'[w] \subseteq EventsOf(EventsAt(w)')
      PROVE  HeadOnly'
  <2> SUFFICES ASSUME NEW v \in Worker
               PROVE  /\ worker'[v] # "idle" => \/ EventsOf(EventsAt(v)') \subseteq stored'
                                                \/ bus' # <<>> /\ bus'[1] = msg'[v]
                      /\ mine'[v] \subseteq EventsOf(EventsAt(v)')
    BY DEF HeadOnly
  <2>1. CASE v = w
    BY <1>2, <2>1
  <2>2. CASE v # w
    <3>1. /\ worker'[v] = worker[v] /\ msg'[v] = msg[v] /\ mine'[v] = mine[v]
          /\ EventsAt(v)' = EventsAt(v)
      BY <1>1, <2>2 DEF EventsAt
    <3> QED
      BY <3>1 DEF HeadOnly
  <2> QED
    BY <2>1, <2>2
<1>3. ASSUME NEW k \in DOMAIN bus, Deliver(w, k) PROVE HeadOnly'
  <2>1. /\ worker[w] = "idle" /\ msg'[w] = bus[k] /\ mine'[w] = mine[w]
        /\ \A j \in 1..k - 1 : bus[j].content.shard # bus[k].content.shard
    BY <1>0, <1>3 DEF Deliver, WorkTypes
  <2>2. mine[w] = {}
    BY <2>1 DEF WorkersOK, WorkOK
  <2>3. k = 1
    <3>1. bus \in Seq(Message) /\ k \in 1..Len(bus)
      BY <1>0 DEF BusTypes
    <3>2. k # 1 => 1 \in 1..k - 1 /\ 1 \in DOMAIN bus
      BY <3>1
    <3> QED
      BY <2>1, <3>2 DEF BusLed
  <2>4. bus # <<>>
    OBVIOUS
  <2> QED
    BY <1>2, <2>1, <2>2, <2>3, <2>4
<1>4. ASSUME UNCHANGED <<worker, msg>>, mine'[w] \subseteq EventsOf(EventsAt(w)) PROVE HeadOnly'
  <2>1. EventsAt(w)' = EventsAt(w)
    BY <1>4 DEF EventsAt
  <2> QED
    BY <1>2, <1>4, <2>1 DEF HeadOnly
<1>5. CASE SkipDuplicate(w) \/ UpsertAlert(w)
  BY <1>4, <1>5 DEF SkipDuplicate, UpsertAlert, HeadOnly
<1>6. CASE InsertEvent(w)
  <2>1. mine'[w] = mine[w] \union {Current(w)} /\ UNCHANGED <<worker, msg>> /\ More(w)
    BY <1>0, <1>6 DEF InsertEvent, WorkTypes
  <2>2. Current(w) \in EventsOf(EventsAt(w))
    BY <1>0, <2>1, AtFacts DEF Current, More, EventsOf
  <2> QED
    BY <1>4, <2>1, <2>2 DEF HeadOnly
<1>7. CASE Rollback(w) \/ AckLost(w)
  <2>1. worker'[w] = "idle" /\ mine'[w] = {}
    BY <1>0, <1>7 DEF Rollback, AckLost, Release, WorkTypes
  <2> QED
    BY <1>2, <2>1
<1> QED
  BY <1>3, <1>5, <1>6, <1>7

\* A transaction stores all of the head of the stream, or only what is stored
LEMMA CommitKeepsOrder ==
  ASSUME TypeInv, WorkersOK, Later, taken' = taken, Alive' = Alive,
         BusLed, StoredLed, HeadOnly, NEW w \in Worker, Commit(w)
  PROVE  BusLed' /\ StoredLed' /\ HeadOnly'
<1>0. WorkTypes /\ BusTypes
  BY DEF TypeInv
<1>1. /\ stored' = stored \union mine[w] /\ UNCHANGED <<bus, msg>>
      /\ worker[w] = "open" /\ pos[w] = Len(EventsAt(w))
  BY DEF Commit, Finished
<1>2. /\ EventsAt(w) \in Seq(Event) /\ EventsOf(EventsAt(w)) \subseteq stored'
      /\ mine[w] \subseteq EventsOf(EventsAt(w))
  <2>1. \A k \in 1..Len(EventsAt(w)) : EventsAt(w)[k] \in stored'
    BY <1>1 DEF WorkersOK, WorkOK
  <2> QED
    BY <1>0, <2>1, AtFacts DEF EventsOf, HeadOnly
<1>3. BusLed'
  BY <1>1, BusStays
<1>4. HeadOnly'
  <2>1. \A v \in Worker : mine'[v] \subseteq mine[v] /\ EventsAt(v)' = EventsAt(v)
    BY <1>0, <1>1 DEF Commit, WorkTypes, EventsAt
  <2>2. \A v \in Worker : worker'[v] # "idle" => worker[v] # "idle"
    BY <1>0, <1>1 DEF Commit, WorkTypes
  <2> QED
    BY <1>1, <2>1, <2>2 DEF HeadOnly
<1>5. StoredLed'
  <2>1. CASE EventsOf(EventsAt(w)) \subseteq stored
    <3>1. stored' = stored
      BY <1>1, <1>2, <2>1
    <3> QED
      BY <3>1, StoredStays
  <2>2. CASE bus # <<>> /\ bus[1] = msg[w]
    <3> DEFINE b == EventsAt(w)
    <3>1. 1 \in DOMAIN bus /\ b = bus[1].content.events
      BY <1>0, <2>2 DEF BusTypes, EventsAt
    <3>2. Ahead(1) = stored
      BY DEF Ahead
    <3>3. b \in Seq(Event) /\ Led(b, stored, Alive, taken)
          /\ EventsOf(b) \subseteq stored' /\ mine[w] \subseteq EventsOf(b)
      BY <1>2, <3>1, <3>2 DEF BusLed
    <3> HIDE DEF b
    <3>4. ASSUME NEW e \in EventsOf(b) PROVE e <= taken /\ \A d \in Alive : d < e => d \in stored'
      <4>1. PICK k \in DOMAIN b : b[k] = e
        BY <3>4 DEF EventsOf
      <4>2. b[k] <= taken /\ \A d \in Alive : d < b[k] => d \in stored \/ \E j \in 1..k - 1 : b[j] = d
        BY <3>3 DEF Led
      <4>3. \A j \in 1..k - 1 : b[j] \in EventsOf(b)
        <5>1. \A j \in 1..k - 1 : j \in DOMAIN b
          BY <3>3, <4>1
        <5> QED
          BY <5>1 DEF EventsOf
      <4> QED
        BY <1>1, <3>3, <4>1, <4>2, <4>3
    <3> QED
      BY <1>1, <3>3, <3>4 DEF StoredLed
  <2> QED
    BY <1>1, <2>1, <2>2 DEF HeadOnly
<1> QED
  BY <1>3, <1>4, <1>5

LEMMA WorkKeepsOrder ==
  ASSUME TypeInv, KeptInv, Later, taken' = taken, Alive' = Alive,
         BusLed, StoredLed, HeadOnly, NEW w \in Worker, Work(w) \/ WorkFails(w)
  PROVE  BusLed' /\ StoredLed' /\ HeadOnly'
<1>0. WorkersOK
  BY DEF KeptInv
<1>1. CASE Commit(w)
  BY <1>0, <1>1, CommitKeepsOrder
<1>2. CASE Ack(w)
  BY <1>2, AckKeepsOrder, StoredStays
<1>3. CASE \/ \E k \in DOMAIN bus : Deliver(w, k)
           \/ SkipDuplicate(w) \/ InsertEvent(w) \/ UpsertAlert(w)
           \/ Rollback(w) \/ AckLost(w)
  <2>1. UNCHANGED <<bus, stored>>
    BY <1>3 DEF Deliver, SkipDuplicate, InsertEvent, UpsertAlert, Rollback, AckLost
  <2>2. HeadOnly'
    BY <1>0, <1>3, <2>1, WorkKeepsHead
  <2> QED
    BY <2>1, <2>2, BusStays, StoredStays
<1> QED
  BY <1>1, <1>2, <1>3 DEF Work, WorkFails

LEMMA ServerKeepsOrderInv ==
  ASSUME LookupFails = FALSE, TypeInv, KeptInv, OrderInv, ServerStep PROVE OrderInv'
<1>0. /\ DirsInOrder /\ RemovedConfirmed /\ Led(load, Confirmed, Alive, taken)
      /\ CallsLed /\ LateLed /\ BusLed /\ StoredLed /\ HeadOnly
      /\ CallsOK /\ WorkersOK /\ PlacesOK
  BY DEF OrderInv, KeptInv
<1>1. UNCHANGED <<spoolVars, accepted>> /\ UNCHANGED <<taken, batch, files, durable>>
  BY DEF ServerStep, CallProceeds, CallBreaks, LateArrives, Work, WorkFails, spoolVars
<1>2. Alive' = Alive /\ Later
  BY <1>1, LaterOrSame DEF Alive
<1>3. ASSUME Confirmed \subseteq Confirmed', CallsLed', LateLed', BusLed', StoredLed', HeadOnly'
      PROVE  OrderInv'
  <2>1. DirsInOrder' /\ RemovedConfirmed' /\ Led(load', Confirmed', Alive', taken')
    BY <1>0, <1>1, <1>2, <1>3, DiskOrderStays
  <2> QED
    BY <1>3, <2>1 DEF OrderInv
<1>4. ASSUME NEW i \in Call, CallProceeds(i) \/ CallBreaks(i) PROVE OrderInv'
  <2>1. CallsLed' /\ LateLed' /\ BusLed' /\ HeadOnly'
    BY <1>0, <1>2, <1>4, CallsKeepOrder
  <2>2. Confirmed \subseteq Confirmed' /\ stored' = stored
    BY <1>0, <1>4, CallStepFacts DEF CallProceeds, CallBreaks
  <2> QED
    BY <1>0, <1>2, <1>3, <2>1, <2>2, StoredStays
<1>5. CASE LateArrives
  BY <1>0, <1>2, <1>3, <1>5, LateKeepsOrder, StoredStays
<1>6. ASSUME NEW w \in Worker, Work(w) \/ WorkFails(w) PROVE OrderInv'
  <2>1. BusLed' /\ StoredLed' /\ HeadOnly'
    BY <1>0, <1>1, <1>2, <1>6, WorkKeepsOrder
  <2>2. Confirmed \subseteq Confirmed' /\ UNCHANGED callVars /\ late' = late
    <3>1. CASE Ack(w)
      BY <1>0, <3>1, AckKeepsWorkers DEF Ack
    <3>2. CASE \/ \E k \in DOMAIN bus : Deliver(w, k)
               \/ SkipDuplicate(w) \/ InsertEvent(w) \/ UpsertAlert(w)
               \/ Commit(w) \/ Rollback(w) \/ AckLost(w)
      <4>1. UNCHANGED <<callVars, busVars>> /\ stored \subseteq stored'
        BY <1>0, <3>2, WorkerStepKeepsWorkers
      <4> QED
        BY <4>1 DEF Confirmed, Published
    <3> QED
      BY <1>6, <3>1, <3>2 DEF Work, WorkFails
  <2>3. CallsLed' /\ LateLed'
    BY <1>0, <1>2, <2>2, CallsStay, LateStays
  <2> QED
    BY <1>3, <2>1, <2>2, <2>3
<1> QED
  BY <1>4, <1>5, <1>6 DEF ServerStep

LEMMA OrderUnchanged == ASSUME TypeInv, OrderInv, UNCHANGED vars PROVE OrderInv'
<1>1. /\ UNCHANGED <<spoolVars, callVars, busVars, workVars, dbVars>>
      /\ UNCHANGED <<taken, batch, files, durable, accepted, stored, bus, todo, queued, late>>
  BY DEF vars, intakeVars, spoolVars
<1>2. Alive' = Alive /\ Later /\ Confirmed' = Confirmed
  BY <1>1, LaterOrSame DEF Alive, Confirmed, Published
<1>3. DirsInOrder' /\ RemovedConfirmed' /\ Led(load', Confirmed', Alive', taken')
  BY <1>1, <1>2, DiskOrderStays DEF OrderInv
<1> QED
  BY <1>1, <1>2, <1>3, CallsStay, LateStays, BusStays, StoredStays, HeadStays DEF OrderInv

LEMMA OrderInvariant == ASSUME LookupFails = FALSE PROVE Spec => []OrderInv
<1>1. TypeInv /\ KeptInv /\ OrderInv /\ [Next]_vars => OrderInv'
  BY AgentKeepsOrderInv, ServerKeepsOrderInv, OrderUnchanged DEF Next
<1> QED
  BY TypeInvariant, KeptInvariant, InitOrderInv, <1>1, PTL DEF Spec

\* As long as the look-up of the asset does not fail, an event comes into the
\* database only after every accepted event that was collected before it: no
\* chunk, ticker, retry, repeated batch, late publication, redelivery to a second
\* node or crash lets it overtake (docs/deployment.md:404).  Without the
\* hypothesis it does not hold, as the run event_order shows: the messages
\* of one call then go to two shards.
THEOREM EventsStayInOrder == ASSUME LookupFails = FALSE PROVE Spec => []InOrder
<1>1. OrderInv => InOrder
  BY OrderInvInOrder DEF OrderInv
<1> QED
  BY OrderInvariant, <1>1, PTL
=============================================================================

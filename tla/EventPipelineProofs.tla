------------------------ MODULE EventPipelineProofs ------------------------
(***************************************************************************)
(* Proofs about EventPipeline for any number of events, calls, consumers,  *)
(* messages, restarts and failures, any sizes of batches, chunks and of    *)
(* the spool: the variables keep their types, and no accepted event is     *)
(* lost.                                                                   *)
(*                                                                         *)
(* The argument: an accepted event is confirmed, that is in the stream or  *)
(* in the database, or in a file that the process and a crash both see;    *)
(* and whatever makes a step take something away - an upload that goes on, *)
(* an acknowledgement asked for, a message acknowledged - is, for as long  *)
(* as it lasts, evidence that the events are confirmed.                    *)
(***************************************************************************)
EXTENDS EventPipeline, WellFoundedInduction, SequenceTheorems, TLAPS

USE EventsAssumption, SpoolAssumption, IntakeAssumption, PipelineAssumption

\* Sequence numbers are used once: each numbers a batch of at least one event,
\* or a repetition.  Those of files, of the upload and of leftover calls of
\* acknowledge are below the next one, through every crash.
Numbered ==
  /\ next + Len(batch) <= taken + repeats
  /\ \A s \in DOMAIN files : s < next
  /\ \A s \in DOMAIN durable : s < next
  /\ \A s \in orphans : s < next
  /\ uploading # None => uploading < next

IdleOK ==
  /\ uploading = None => load = <<>> /\ sent = 0
  /\ acking => uploading # None /\ sent = Len(load)

SpoolFlags == blocked \in BOOLEAN /\ collecting \in BOOLEAN /\ acking \in BOOLEAN

SpoolTypes ==
  /\ taken \in 0..MaxEvents
  /\ batch \in Seq(Event)
  /\ DOMAIN files \subseteq SeqNos
  /\ \A s \in DOMAIN files : files[s] \in Seq(Event)
  /\ DOMAIN durable \subseteq SeqNos
  /\ \A s \in DOMAIN durable : durable[s] \in Seq(Event)
  /\ next \in SeqNos
  /\ uploading \in SeqNos \union {None}
  /\ load \in Seq(Event)
  /\ sent \in 0..Len(load)
  /\ orphans \subseteq SeqNos
  /\ restarts \in 0..MaxRestarts
  /\ repeats \in 0..MaxRepeats

\* SpoolTypeOK, its flags aside
SpoolInv == SpoolTypes /\ Numbered /\ IdleOK
-----------------------------------------------------------------------------
(* Sequences of events.                                                     *)

LEMMA EmptyEvents == EventsOf(<<>>) = {}
BY DEF EventsOf

LEMMA EventsType == ASSUME NEW S, NEW b \in Seq(S) PROVE EventsOf(b) \subseteq S
BY DEF EventsOf

LEMMA AppendEvents ==
  ASSUME NEW S, NEW b \in Seq(S), NEW e \in S
  PROVE  Append(b, e) \in Seq(S) /\ EventsOf(Append(b, e)) = EventsOf(b) \union {e}
<1>1. /\ Append(b, e) \in Seq(S)
      /\ DOMAIN Append(b, e) = 1..Len(b) + 1
      /\ \A k \in 1..Len(b) : Append(b, e)[k] = b[k]
      /\ Append(b, e)[Len(b) + 1] = e
      /\ DOMAIN b = 1..Len(b) /\ Len(b) \in Nat
  BY AppendProperties
<1>2. EventsOf(Append(b, e)) \subseteq EventsOf(b) \union {e}
  BY <1>1 DEF EventsOf
<1>3. EventsOf(b) \subseteq EventsOf(Append(b, e))
  BY <1>1 DEF EventsOf
<1>4. e \in EventsOf(Append(b, e))
  BY <1>1 DEF EventsOf
<1> QED
  BY <1>1, <1>2, <1>3, <1>4

LEMMA TailEvents ==
  ASSUME NEW S, NEW b \in Seq(S), b # <<>>
  PROVE  /\ Tail(b) \in Seq(S) /\ Head(b) \in S /\ Len(b) # 0
         /\ EventsOf(b) = {Head(b)} \union EventsOf(Tail(b))
<1>1. /\ Tail(b) \in Seq(S) /\ Head(b) \in S /\ Head(b) = b[1]
      /\ Len(b) \in Nat \ {0}
      /\ Len(Tail(b)) = Len(b) - 1
      /\ \A k \in 1..Len(b) - 1 : Tail(b)[k] = b[k + 1]
  BY HeadTailProperties, LenProperties, EmptySeq
<1>2. DOMAIN b = 1..Len(b) /\ DOMAIN Tail(b) = 1..Len(b) - 1
  BY <1>1, LenProperties
<1>3. EventsOf(b) \subseteq {Head(b)} \union EventsOf(Tail(b))
  <2> SUFFICES ASSUME NEW k \in 1..Len(b), k # 1 PROVE b[k] \in EventsOf(Tail(b))
    BY <1>1, <1>2 DEF EventsOf
  <2>1. k - 1 \in 1..Len(b) - 1 /\ Tail(b)[k - 1] = b[k]
    BY <1>1
  <2> QED
    BY <2>1, <1>2 DEF EventsOf
<1>4. {Head(b)} \union EventsOf(Tail(b)) \subseteq EventsOf(b)
  BY <1>1, <1>2 DEF EventsOf
<1> QED
  BY <1>1, <1>3, <1>4

LEMMA SubSeqFacts ==
  ASSUME NEW S, NEW b \in Seq(S), NEW m \in 1..Len(b) + 1, NEW n \in m - 1..Len(b)
  PROVE  /\ SubSeq(b, m, n) \in Seq(S)
         /\ Len(SubSeq(b, m, n)) = n - m + 1
         /\ \A k \in 1..n - m + 1 : SubSeq(b, m, n)[k] = b[m + k - 1]
BY SubSeqProperties

LEMMA RemoveAtFacts ==
  ASSUME NEW S, NEW b \in Seq(S), NEW k \in DOMAIN b
  PROVE  /\ Seqs!RemoveAt(b, k) \in Seq(S)
         /\ Len(Seqs!RemoveAt(b, k)) = Len(b) - 1
         /\ \A j \in 1..Len(b) - 1 : Seqs!RemoveAt(b, k)[j] = IF j < k THEN b[j] ELSE b[j + 1]
<1> DEFINE l == SubSeq(b, 1, k - 1)
           r == SubSeq(b, k + 1, Len(b))
<1>0. k \in 1..Len(b)
  OBVIOUS
<1>1. l \in Seq(S) /\ Len(l) = k - 1 /\ \A j \in 1..k - 1 : l[j] = b[j]
  BY <1>0, SubSeqFacts
<1>2. r \in Seq(S) /\ Len(r) = Len(b) - k /\ \A j \in 1..Len(b) - k : r[j] = b[k + j]
  BY <1>0, SubSeqFacts
<1>3. Seqs!RemoveAt(b, k) = l \o r
  BY DEF Seqs!RemoveAt
<1> HIDE DEF l, r
<1> QED
  BY <1>0, <1>1, <1>2, <1>3, ConcatProperties

\* The next chunk of the load: its events follow those already sent
LEMMA ChunkFacts ==
  ASSUME load \in Seq(Event), sent \in 0..Len(load)
  PROVE  /\ Chunk \in Seq(Event)
         /\ sent + Len(Chunk) \in 0..Len(load)
         /\ DOMAIN Chunk = 1..Len(Chunk)
         /\ \A k \in 1..Len(Chunk) : Chunk[k] = load[sent + k]
<1> DEFINE n == IF sent + ChunkEvents < Len(load) THEN sent + ChunkEvents ELSE Len(load)
<1>1. n \in sent..Len(load) /\ sent + 1 \in 1..Len(load) + 1
  BY PipelineAssumption
<1>2. Chunk = SubSeq(load, sent + 1, n)
  BY DEF Chunk
<1> HIDE DEF n
<1>3. /\ Chunk \in Seq(Event) /\ Len(Chunk) = n - sent
      /\ \A k \in 1..n - sent : Chunk[k] = load[sent + k]
  BY <1>1, <1>2, SubSeqFacts
<1> QED
  BY <1>1, <1>3, LenProperties
-----------------------------------------------------------------------------
(* Directories of batches.                                                  *)

LEMMA Greatest ==
  ASSUME NEW T, NEW n \in Nat, T \subseteq 0..n, T # {}
  PROVE  \E x \in T : \A y \in T : y <= x
<1> DEFINE U == {n - x : x \in T}
<1>1. U \subseteq Nat
  BY SMT
<1>2. U # {}
  BY Zenon
<1>3. PICK u \in U : \A v \in U : ~ (<<v, u>> \in OpToRel(<, Nat))
  BY <1>1, <1>2, NatLessThanWellFounded, WFMin, Zenon
<1>4. \A v \in U : ~ (v < u)
  <2> SUFFICES ASSUME NEW v \in U, v < u PROVE FALSE
    OBVIOUS
  <2>1. <<v, u>> \in Nat \X Nat
    BY <1>1
  <2>2. <<v, u>> \in OpToRel(<, Nat)
    BY <2>1 DEF OpToRel
  <2> QED BY <1>3, <2>2
<1>5. PICK x \in T : u = n - x
  BY <1>3
<1>6. \A y \in T : ~ (n - y < n - x)
  BY <1>4, <1>5
<1> QED
  BY <1>6

\* The number after a directory's is above all of it, and no higher than any
\* number that is
LEMMA NextAfterFacts ==
  ASSUME NEW dir, dir = [s \in DOMAIN dir |-> dir[s]],
         NEW n \in Nat, DOMAIN dir \subseteq 0..n
  PROVE  /\ NextAfter(dir) \in 0..n + 1
         /\ \A s \in DOMAIN dir : s < NextAfter(dir)
         /\ \A m \in Nat : (\A s \in DOMAIN dir : s < m) => NextAfter(dir) <= m
<1>1. CASE dir = << >>
  BY <1>1 DEF NextAfter
<1>2. CASE dir # << >>
  <2> DEFINE x == CHOOSE s \in DOMAIN dir : \A t \in DOMAIN dir : t <= s
  <2>0. DOMAIN dir # {}
    <3>1. \A T : T = {} => [s \in T |-> dir[s]] = << >>
      OBVIOUS
    <3> QED
      BY <1>2, <3>1, Zenon
  <2>1. x \in DOMAIN dir /\ \A t \in DOMAIN dir : t <= x
    BY <2>0, Greatest, Zenon
  <2>2. NextAfter(dir) = 1 + x
    BY <1>2 DEF NextAfter
  <2> HIDE DEF x
  <2> QED
    BY <2>1, <2>2
<1> QED
  BY <1>1, <1>2
-----------------------------------------------------------------------------
(* The spool's types and numbers.                                           *)

USE DEF collectVars, diskVars, uploadVars, faultVars, SeqNos, None

LEMMA SpoolTypesOK == SpoolTypeOK <=> SpoolFlags /\ SpoolTypes
BY DEF SpoolTypeOK, SpoolFlags, SpoolTypes

LEMMA SpoolInitInv == SpoolInit => SpoolFlags /\ SpoolInv
<1> SUFFICES ASSUME SpoolInit PROVE SpoolFlags /\ SpoolInv
  OBVIOUS
<1>1. SpoolFlags
  BY Zenon DEF SpoolInit, SpoolFlags
<1>2. SpoolInv
  BY DEF SpoolInit, SpoolInv, SpoolTypes, Numbered, IdleOK
<1> QED
  BY <1>1, <1>2

\* The flags stay flags
LEMMA FlagsStay ==
  ASSUME SpoolFlags,
         \/ Collect \/ AppendBatch \/ AppendRefused \/ AppendFails
         \/ \E s \in DOMAIN files : TakeFront(s)
         \/ ChunkAcknowledged(Len(Chunk))
         \/ AcknowledgeBatch
         \/ \E s \in orphans : AcknowledgeOrphan(s)
         \/ StopUpload
         \/ Reopen
         \/ UNCHANGED spoolVars
  PROVE  SpoolFlags'
<1>1. blocked' \in BOOLEAN
  BY Zenon DEF SpoolFlags, Collect, AppendBatch, AppendRefused, AppendFails, TakeFront,
        ChunkAcknowledged, AcknowledgeBatch, AcknowledgeOrphan, StopUpload, Reopen, spoolVars
<1>2. collecting' \in BOOLEAN
  BY Zenon DEF SpoolFlags, Collect, AppendBatch, AppendRefused, AppendFails, TakeFront,
        ChunkAcknowledged, AcknowledgeBatch, AcknowledgeOrphan, StopUpload, Reopen, spoolVars
<1>3. acking' \in BOOLEAN
  BY Zenon DEF SpoolFlags, Collect, AppendBatch, AppendRefused, AppendFails, TakeFront,
        ChunkAcknowledged, AcknowledgeBatch, AcknowledgeOrphan, StopUpload, Reopen, spoolVars, Idle
<1> QED
  BY <1>1, <1>2, <1>3 DEF SpoolFlags

LEMMA CollectInv == SpoolInv /\ Collect => SpoolInv'
<1> SUFFICES ASSUME SpoolInv, Collect PROVE SpoolInv'
  OBVIOUS
<1> USE DEF SpoolInv, SpoolTypes, Numbered, IdleOK
<1>1. taken + 1 \in Event /\ batch \in Seq(Event)
  BY DEF Collect, Event
<1>2. batch' \in Seq(Event) /\ Len(batch') = Len(batch) + 1
  BY <1>1 DEF Collect
<1> QED
  BY <1>2 DEF Collect

\* A batch is put into the directory under the next number
LEMMA WithFacts ==
  ASSUME SpoolInv, batch # <<>>
  PROVE  LET dir == With(files, next, batch) IN
         /\ DOMAIN dir = DOMAIN files \union {next}
         /\ \A s \in DOMAIN files : dir[s] = files[s]
         /\ dir[next] = batch
         /\ Len(batch) \in Nat /\ Len(batch) >= 1
<1>1. batch \in Seq(Event) /\ \A s \in DOMAIN files : s < next
  BY DEF SpoolInv, SpoolTypes, Numbered
<1>2. Len(batch) \in Nat /\ Len(batch) >= 1
  BY <1>1, EmptySeq, LenProperties
<1>3. next \notin DOMAIN files
  BY <1>1 DEF SpoolInv, SpoolTypes
<1> QED
  BY <1>2, <1>3 DEF With

\* The batch becomes the file next, or nothing is written
LEMMA AppendInv ==
  ASSUME SpoolInv, AppendBatch \/ AppendRefused \/ AppendFails PROVE SpoolInv'
<1> DEFINE dir == With(files, next, batch)
<1> USE DEF SpoolInv, SpoolTypes, Numbered, IdleOK
<1>0. batch # <<>>
  BY DEF AppendBatch, AppendRefused, AppendFails
<1>1. /\ DOMAIN dir = DOMAIN files \union {next}
      /\ \A s \in DOMAIN files : dir[s] = files[s]
      /\ dir[next] = batch
      /\ Len(batch) \in Nat /\ Len(batch) >= 1
  BY <1>0, WithFacts
<1> HIDE DEF dir
<1>2. /\ DOMAIN dir \subseteq SeqNos /\ next + 1 \in SeqNos
      /\ \A s \in DOMAIN dir : dir[s] \in Seq(Event) /\ s < next + 1
      /\ \A s \in DOMAIN durable : s < next + 1
      /\ \A s \in orphans : s < next + 1
      /\ uploading # None => uploading < next + 1
  BY <1>1
<1>3. Len(<<>>) = 0 /\ <<>> \in Seq(Event)
  OBVIOUS
<1>4. /\ UNCHANGED <<taken, uploadVars, restarts>>
      /\ (files' = files /\ next' = next) \/ (files' = dir /\ next' = next + 1)
      /\ durable' = durable \/ durable' = files'
  <2>1. CASE AppendBatch
    BY <2>1 DEF AppendBatch, dir
  <2>2. CASE AppendRefused
    BY <2>2 DEF AppendRefused, dir
  <2>3. CASE AppendFails
    BY <2>3 DEF AppendFails, dir
  <2> QED
    BY <2>1, <2>2, <2>3
<1>5. /\ batch' \in Seq(Event) /\ repeats' \in 0..MaxRepeats
      /\ next' + Len(batch') <= taken + repeats'
  <2>1. CASE AppendBatch
    BY <1>1, <1>3, <2>1 DEF AppendBatch
  <2>2. CASE AppendRefused
    BY <1>1, <2>2 DEF AppendRefused
  <2>3. CASE AppendFails
    BY <1>1, <1>3, <2>3 DEF AppendFails
  <2> QED
    BY <2>1, <2>2, <2>3
<1>6. SpoolTypes'
  BY <1>2, <1>4, <1>5
<1>7. Numbered'
  BY <1>2, <1>4, <1>5
<1>8. IdleOK'
  BY <1>4
<1> QED
  BY <1>6, <1>7, <1>8

\* AcknowledgeFront takes at most one file away
LEMMA AcknowledgeFrontFacts ==
  ASSUME NEW s, AcknowledgeFront(s)
  PROVE  /\ next' = next
         /\ DOMAIN files' \subseteq DOMAIN files
         /\ \A t \in DOMAIN files' : files'[t] = files[t]
         /\ \A t \in DOMAIN files \ DOMAIN files' : t = s /\ IsFront(s)
         /\ durable' = files' \/ durable' = durable
BY DEF AcknowledgeFront, Remove, Without

LEMMA UploadInv ==
  ASSUME SpoolInv,
         \/ \E s \in DOMAIN files : TakeFront(s)
         \/ ChunkAcknowledged(Len(Chunk))
         \/ AcknowledgeBatch
         \/ \E s \in orphans : AcknowledgeOrphan(s)
         \/ StopUpload
  PROVE  SpoolInv'
<1> USE DEF SpoolInv, SpoolTypes, Numbered, IdleOK
<1>1. ASSUME NEW s \in DOMAIN files, TakeFront(s) PROVE SpoolInv'
  <2>1. /\ UNCHANGED <<sent, acking, orphans, taken, batch, diskVars, faultVars>>
        /\ uploading' = s /\ load' = files[s]
        /\ s \in SeqNos /\ s # None /\ s < next
        /\ sent = 0 /\ ~acking /\ files[s] \in Seq(Event)
    BY <1>1 DEF TakeFront
  <2>2. SpoolTypes'
    BY <2>1
  <2>3. Numbered'
    BY <2>1
  <2>4. IdleOK'
    BY <2>1
  <2> QED
    BY <2>2, <2>3, <2>4
<1>2. CASE ChunkAcknowledged(Len(Chunk))
  <2>1. sent + Len(Chunk) \in 0..Len(load)
    BY ChunkFacts
  <2> QED
    BY <1>2, <2>1 DEF ChunkAcknowledged
<1>3. Len(<<>>) = 0 /\ <<>> \in Seq(Event)
  OBVIOUS
<1>4. CASE AcknowledgeBatch
  <2>1. /\ UNCHANGED <<orphans, taken, batch, faultVars>>
        /\ uploading' = None /\ load' = <<>> /\ sent' = 0 /\ acking' = FALSE
        /\ AcknowledgeFront(uploading)
    BY <1>4 DEF AcknowledgeBatch, Idle
  <2>2. /\ next' = next /\ DOMAIN files' \subseteq DOMAIN files
        /\ \A t \in DOMAIN files' : files'[t] = files[t]
        /\ durable' = files' \/ durable' = durable
    BY <2>1, AcknowledgeFrontFacts
  <2>3. SpoolTypes'
    BY <1>3, <2>1, <2>2
  <2>4. Numbered'
    BY <2>1, <2>2
  <2>5. IdleOK'
    BY <2>1
  <2> QED
    BY <2>3, <2>4, <2>5
<1>5. ASSUME NEW s \in orphans, AcknowledgeOrphan(s) PROVE SpoolInv'
  <2>1. /\ UNCHANGED <<uploading, load, sent, acking, taken, batch, faultVars>>
        /\ orphans' = orphans \ {s}
        /\ AcknowledgeFront(s)
    BY <1>5 DEF AcknowledgeOrphan
  <2>2. /\ next' = next /\ DOMAIN files' \subseteq DOMAIN files
        /\ \A t \in DOMAIN files' : files'[t] = files[t]
        /\ durable' = files' \/ durable' = durable
    BY <2>1, AcknowledgeFrontFacts
  <2>3. SpoolTypes'
    BY <2>1, <2>2
  <2>4. Numbered'
    BY <2>1, <2>2
  <2>5. IdleOK'
    BY <2>1
  <2> QED
    BY <2>3, <2>4, <2>5
<1>6. CASE StopUpload
  <2>1. /\ UNCHANGED <<taken, batch, diskVars, faultVars>>
        /\ uploading' = None /\ load' = <<>> /\ sent' = 0 /\ acking' = FALSE
        /\ orphans' = orphans \/ orphans' = orphans \union {uploading}
        /\ uploading \in SeqNos
    BY <1>6 DEF StopUpload, Idle
  <2>2. orphans' \subseteq SeqNos /\ \A s \in orphans' : s < next
    <3>1. uploading \in SeqNos /\ uploading # None
      BY <1>6 DEF StopUpload
    <3>2. uploading < next /\ orphans \subseteq SeqNos /\ \A s \in orphans : s < next
      BY <3>1
    <3> HIDE DEF SpoolInv, SpoolTypes, Numbered, IdleOK, SeqNos, None
    <3> QED
      BY <2>1, <3>1, <3>2
  <2>3. SpoolTypes'
    BY <1>3, <2>1, <2>2
  <2>4. Numbered'
    BY <2>1, <2>2
  <2>5. IdleOK'
    BY <2>1
  <2> QED
    BY <2>3, <2>4, <2>5
<1> QED
  BY <1>1, <1>2, <1>4, <1>5, <1>6

\* What a crash leaves is between the directory and its last synced state
LEMMA ReopenFacts ==
  ASSUME SpoolInv, Reopen
  PROVE  /\ DOMAIN files' \subseteq DOMAIN files \union DOMAIN durable
         /\ DOMAIN files \intersect DOMAIN durable \subseteq DOMAIN files'
         /\ \A s \in DOMAIN files' : files'[s] = IF s \in DOMAIN files THEN files[s] ELSE durable[s]
         /\ \E n \in Nat : /\ next' = n /\ n <= next
                          /\ \A s \in DOMAIN files' : s < n
<1>1. PICK S \in SUBSET (DOMAIN durable \union DOMAIN files) :
        /\ files' = [s \in S |-> IF s \in DOMAIN files THEN files[s] ELSE durable[s]]
        /\ DOMAIN durable \intersect DOMAIN files \subseteq S
  BY DEF Reopen, Survivors
<1>2. /\ DOMAIN files' = S
      /\ files' = [s \in DOMAIN files' |-> files'[s]]
      /\ \A s \in S : files'[s] = IF s \in DOMAIN files THEN files[s] ELSE durable[s]
  BY <1>1
<1>3. DOMAIN files' \subseteq SeqNos /\ next \in Nat /\ \A s \in DOMAIN files' : s < next
  BY <1>1, <1>2 DEF SpoolInv, SpoolTypes, Numbered
<1>4. MaxEvents + MaxRepeats \in Nat
  OBVIOUS
<1>5. /\ NextAfter(files') \in Nat
      /\ \A s \in DOMAIN files' : s < NextAfter(files')
      /\ NextAfter(files') <= next
  BY <1>2, <1>3, <1>4, NextAfterFacts
<1> QED
  BY <1>1, <1>2, <1>5 DEF Reopen

LEMMA ReopenInv == ASSUME SpoolInv, Reopen PROVE SpoolInv'
<1> USE DEF SpoolInv, SpoolTypes, Numbered, IdleOK
<1>1. /\ DOMAIN files' \subseteq DOMAIN files \union DOMAIN durable
      /\ \A s \in DOMAIN files' : files'[s] = IF s \in DOMAIN files THEN files[s] ELSE durable[s]
  BY ReopenFacts
<1>2. PICK n \in Nat : /\ next' = n /\ n <= next
                       /\ \A s \in DOMAIN files' : s < n
  BY ReopenFacts
<1>3. /\ durable' = files' /\ batch' = <<>>
      /\ uploading' = None /\ load' = <<>> /\ sent' = 0 /\ acking' = FALSE
      /\ orphans' = {} /\ restarts < MaxRestarts /\ restarts' = restarts + 1
      /\ UNCHANGED <<taken, repeats>>
  BY DEF Reopen, Idle
<1>4. Len(<<>>) = 0 /\ <<>> \in Seq(Event)
  OBVIOUS
<1>5. /\ DOMAIN files' \subseteq SeqNos
      /\ \A s \in DOMAIN files' : files'[s] \in Seq(Event)
  BY <1>1
<1>6. n \in SeqNos /\ n <= taken + repeats
  <2>1. /\ Len(batch) \in Nat /\ next + Len(batch) <= taken + repeats
        /\ next \in 0..MaxEvents + MaxRepeats
        /\ taken \in Nat /\ repeats \in Nat
    BY LenProperties
  <2> HIDE DEF SpoolInv, SpoolTypes, Numbered, IdleOK
  <2> QED
    BY <1>2, <2>1
<1>7. SpoolTypes'
  BY <1>2, <1>3, <1>4, <1>5, <1>6
<1>8. Numbered'
  BY <1>2, <1>3, <1>4, <1>6
<1>9. IdleOK'
  BY <1>3
<1> QED
  BY <1>7, <1>8, <1>9
-----------------------------------------------------------------------------
(* The intake's types.                                                      *)

USE DEF callVars, busVars, workVars, dbVars, intakeVars

CallTypes ==
  /\ call \in [Call -> {"free", "open", "acked"}]
  /\ known \in [Call -> BOOLEAN]
  /\ todo \in [Call -> Seq(Event)]
  /\ queued \in [Call -> Seq(Envelope)]
  /\ received \in [Call -> Nat]

BusTypes == bus \in Seq(Message) /\ late \subseteq Content

WorkTypes ==
  /\ worker \in [Worker -> {"idle", "open", "done"}]
  /\ msg \in [Worker -> Message \union {NoMsg}]
  /\ pos \in [Worker -> Nat]
  /\ mine \in [Worker -> SUBSET Event]
  /\ view \in [Worker -> Seq(Alert) \union {Unread}]

DbTypes == stored \subseteq Event /\ alerts \in [Shard -> Seq(Alert)]

LEMMA IntakeTypesOK ==
  IntakeTypeOK <=> CallTypes /\ BusTypes /\ WorkTypes /\ DbTypes
BY DEF IntakeTypeOK, CallTypes, BusTypes, WorkTypes, DbTypes

LEMMA IntakeInitTypes == IntakeInit => IntakeTypeOK
<1> SUFFICES ASSUME IntakeInit PROVE IntakeTypeOK
  OBVIOUS
<1>1. CallTypes
  BY DEF IntakeInit, CallTypes
<1>2. BusTypes
  BY DEF IntakeInit, BusTypes
<1>3. WorkTypes
  BY DEF IntakeInit, WorkTypes
<1>4. DbTypes
  BY DEF IntakeInit, DbTypes
<1> QED
  BY <1>1, <1>2, <1>3, <1>4, IntakeTypesOK

LEMMA CloseTypes == ASSUME CallTypes, NEW i \in Call, Close(i) PROVE CallTypes'
BY DEF CallTypes, Close

LEMMA HandleTypes ==
  ASSUME CallTypes, NEW i \in Call, Handle(i) PROVE CallTypes'
<1>1. todo[i] \in Seq(Event) /\ todo[i] # <<>> /\ queued[i] \in Seq(Envelope)
  BY DEF CallTypes, Handle
<1>2. Tail(todo[i]) \in Seq(Event) /\ Head(todo[i]) \in Event
  BY <1>1, TailEvents
<1>3. PICK found \in {TRUE, ~LookupFails} : known' = [known EXCEPT ![i] = @ \/ found]
  BY DEF Handle
<1>4. known' \in [Call -> BOOLEAN]
  BY <1>3 DEF CallTypes
<1>5. PICK shard \in Shard :
        queued' = [queued EXCEPT ![i] = Append(@, [event |-> Head(todo[i]), shard |-> shard])]
  BY DEF Handle, Shard
<1>6. Append(queued[i], [event |-> Head(todo[i]), shard |-> shard]) \in Seq(Envelope)
  BY <1>1, <1>2, AppendEvents DEF Envelope
<1> QED
  BY <1>2, <1>4, <1>5, <1>6 DEF CallTypes, Handle

\* A message that FirstOf offers holds the first events of the queue
LEMMA FirstOfFacts ==
  ASSUME CallTypes, NEW i \in Call, NEW content \in FirstOf(i)
  PROVE  /\ content \in Content
         /\ Len(content.events) \in 1..Len(queued[i])
         /\ DOMAIN content.events = 1..Len(content.events)
         /\ \A k \in 1..Len(content.events) :
              /\ content.events[k] = queued[i][k].event
              /\ content.shard = queued[i][k].shard
<1>1. queued[i] \in Seq(Envelope)
  BY DEF CallTypes
<1>2. PICK n \in DOMAIN queued[i] :
        /\ \A k \in 1..n : queued[i][k].shard = queued[i][1].shard
        /\ content = [shard |-> queued[i][1].shard, events |-> [k \in 1..n |-> queued[i][k].event]]
  BY DEF FirstOf
<1>3. n \in 1..Len(queued[i]) /\ \A k \in 1..n : queued[i][k] \in Envelope
  BY <1>1
<1>4. \A k \in 1..n : queued[i][k].event \in Event /\ queued[i][k].shard \in Shard
  BY <1>3 DEF Envelope
<1>5. /\ content.events \in Seq(Event) /\ Len(content.events) = n
      /\ content.events = [k \in 1..n |-> queued[i][k].event]
      /\ content.shard = queued[i][1].shard
  BY <1>2, <1>3, <1>4
<1>6. content \in Content
  BY <1>2, <1>3, <1>4, <1>5 DEF Content
<1> QED
  BY <1>2, <1>3, <1>5, <1>6

\* The stream takes a message at its end, or leaves one out it holds already or
\* that was handled
LEMMA StoreFacts ==
  ASSUME BusTypes, NEW content \in Content, Store(content)
  PROVE  /\ bus' \in Seq(Message)
         /\ \/ bus' = bus /\ Taken(content)
            \/ \E id \in MsgId \ InUse :
                 /\ [id |-> id, content |-> content] \in Message
                 /\ bus' = Append(bus, [id |-> id, content |-> content])
<1>1. \A id \in MsgId : [id |-> id, content |-> content] \in Message
  BY DEF Message
<1>2. CASE \E id \in MsgId \ InUse : bus' = Append(bus, [id |-> id, content |-> content])
  <2>1. PICK id \in MsgId \ InUse : bus' = Append(bus, [id |-> id, content |-> content])
    BY <1>2
  <2>2. Append(bus, [id |-> id, content |-> content]) \in Seq(Message)
    BY <1>1 DEF BusTypes
  <2> QED
    BY <1>1, <2>1, <2>2
<1>3. CASE Taken(content) /\ UNCHANGED bus
  BY <1>3 DEF BusTypes
<1> QED
  BY <1>2, <1>3 DEF Store

LEMMA FlushTypes ==
  ASSUME CallTypes, BusTypes, NEW i \in Call, Flush(i) PROVE CallTypes' /\ BusTypes'
<1>1. PICK content \in FirstOf(i) :
        /\ Store(content)
        /\ received' = [received EXCEPT ![i] = @ + Len(content.events)]
        /\ queued' = [queued EXCEPT ![i] = SubSeq(@, Len(content.events) + 1, Len(@))]
        /\ UNCHANGED <<call, known, todo, late>>
  BY DEF Flush
<1>2. content \in Content /\ Len(content.events) \in 1..Len(queued[i])
  BY FirstOfFacts
<1>3. queued[i] \in Seq(Envelope) /\ Len(queued[i]) \in Nat
  BY DEF CallTypes
<1>4. SubSeq(queued[i], Len(content.events) + 1, Len(queued[i])) \in Seq(Envelope)
  BY <1>2, <1>3, SubSeqFacts
<1>5. CallTypes'
  BY <1>1, <1>2, <1>3, <1>4 DEF CallTypes
<1>6. BusTypes'
  BY <1>1, <1>2, StoreFacts DEF BusTypes
<1> QED
  BY <1>5, <1>6

LEMMA CallStepTypes ==
  ASSUME CallTypes, BusTypes, NEW i \in Call,
         Handle(i) \/ Flush(i) \/ SendAck(i) \/ FlushFails(i) \/ CallEnds(i)
  PROVE  CallTypes' /\ BusTypes'
<1>1. CASE Handle(i)
  BY <1>1, HandleTypes DEF Handle, BusTypes
<1>2. CASE Flush(i)
  BY <1>2, FlushTypes
<1>3. CASE SendAck(i)
  BY <1>3 DEF SendAck, CallTypes, BusTypes
<1>4. CASE FlushFails(i)
  <2>1. late' \subseteq Content
    BY <1>4, FirstOfFacts DEF FlushFails, BusTypes
  <2> QED
    BY <1>4, <2>1, CloseTypes DEF FlushFails, BusTypes
<1>5. CASE CallEnds(i)
  BY <1>5, CloseTypes DEF CallEnds, BusTypes
<1> QED
  BY <1>1, <1>2, <1>3, <1>4, <1>5

LEMMA LateTypes ==
  ASSUME BusTypes, NEW content \in late, LateStored(content) \/ LateLost(content)
  PROVE  BusTypes'
<1>1. content \in Content
  BY DEF BusTypes
<1>2. CASE LateStored(content)
  BY <1>1, <1>2, StoreFacts DEF LateStored, BusTypes
<1>3. CASE LateLost(content)
  BY <1>3 DEF LateLost, BusTypes
<1> QED
  BY <1>2, <1>3

LEMMA AtFacts ==
  ASSUME WorkTypes, NEW w \in Worker
  PROVE  /\ EventsAt(w) \in Seq(Event) /\ ShardAt(w) \in Shard
         /\ pos[w] \in Nat /\ Len(EventsAt(w)) \in Nat
         /\ More(w) => Current(w) \in Event
<1>1. msg[w] \in Message \union {NoMsg}
  BY DEF WorkTypes
<1>2. NoMsg.content.events = <<>> /\ NoMsg.content.shard \in Shard
  BY DEF NoMsg, Shard
<1>3. CASE msg[w] \in Message
  <2>1. msg[w].content \in Content
    BY <1>3 DEF Message
  <2> QED
    BY <2>1 DEF Content, EventsAt, ShardAt, More, Current, WorkTypes
<1>4. CASE msg[w] = NoMsg
  <2>1. EventsAt(w) = <<>> /\ ShardAt(w) \in Shard /\ pos[w] \in Nat
    BY <1>2, <1>4 DEF EventsAt, ShardAt, WorkTypes
  <2>2. <<>> \in Seq(Event) /\ Len(<<>>) = 0
    OBVIOUS
  <2> QED
    BY <2>1, <2>2 DEF More
<1> QED
  BY <1>1, <1>3, <1>4

LEMMA AlertCounts ==
  ASSUME NEW a \in Alert, NEW t \in Nat
  PROVE  [a EXCEPT !.count = @ + 1, !.last = IF @ < t THEN t ELSE @] \in Alert
<1>1. PICK d \in Nat \ {0}, m \in Nat : d = a.count + 1 /\ m = IF a.last < t THEN t ELSE a.last
  BY DEF Alert
<1>2. [a EXCEPT !.count = @ + 1, !.last = IF @ < t THEN t ELSE @] = [a EXCEPT !.count = d, !.last = m]
  BY <1>1
<1> QED
  BY <1>2 DEF Alert

LEMMA CountedType ==
  ASSUME NEW list \in Seq(Alert), NEW e \in Event PROVE Counted(list, e) \in Seq(Alert)
<1> DEFINE n == Len(list)
           t == Ts[e]
<1>1. t \in Nat /\ n \in Nat
  OBVIOUS
<1>2. [first |-> t, last |-> t, count |-> 1] \in Alert
  BY <1>1 DEF Alert
<1>3. Append(list, [first |-> t, last |-> t, count |-> 1]) \in Seq(Alert)
  BY <1>2
<1>4. ASSUME n > 0
      PROVE  [list EXCEPT ![n].count = @ + 1, ![n].last  = IF @ < t THEN t ELSE @] \in Seq(Alert)
  <2>1. n \in 1..Len(list) /\ list[n] \in Alert
    BY <1>1, <1>4
  <2> DEFINE a == [list[n] EXCEPT !.count = @ + 1, !.last = IF @ < t THEN t ELSE @]
  <2>4. a \in Alert
    BY <1>1, <2>1, AlertCounts
  <2>5. [list EXCEPT ![n].count = @ + 1, ![n].last  = IF @ < t THEN t ELSE @] = [list EXCEPT ![n] = a]
    BY <2>1
  <2> HIDE DEF a
  <2> QED
    BY <2>1, <2>4, <2>5, ExceptSeq
<1> QED
  BY <1>1, <1>3, <1>4 DEF Counted

LEMMA WorkStepTypes ==
  ASSUME WorkTypes, DbTypes, BusTypes, NEW w \in Worker,
         \/ \E k \in DOMAIN bus : Deliver(w, k)
         \/ SkipDuplicate(w) \/ InsertEvent(w) \/ UpsertAlert(w)
         \/ Commit(w) \/ Ack(w) \/ Rollback(w) \/ AckLost(w)
  PROVE  WorkTypes' /\ DbTypes' /\ BusTypes'
<1>0. pos[w] + 1 \in Nat
  BY DEF WorkTypes
<1>1. ASSUME NEW k \in DOMAIN bus, Deliver(w, k) PROVE WorkTypes' /\ DbTypes' /\ BusTypes'
  <2>1. bus[k] \in Message
    BY DEF BusTypes
  <2> QED
    BY <1>1, <2>1 DEF Deliver, WorkTypes, DbTypes, BusTypes
<1>2. CASE SkipDuplicate(w)
  BY <1>0, <1>2 DEF SkipDuplicate, Advance, WorkTypes, DbTypes, BusTypes
<1>3. CASE InsertEvent(w)
  <2>1. mine[w] \union {Current(w)} \subseteq Event
    BY <1>3, AtFacts DEF InsertEvent, WorkTypes
  <2> QED
    BY <1>0, <1>3, <2>1 DEF InsertEvent, Advance, WorkTypes, DbTypes, BusTypes
<1>4. ASSUME TRUE PROVE Alerts(w) \in Seq(Alert)
  BY AtFacts DEF Alerts, WorkTypes, DbTypes
<1>5. CASE UpsertAlert(w)
  <2>1. Counted(Alerts(w), Current(w)) \in Seq(Alert)
    BY <1>4, <1>5, AtFacts, CountedType DEF UpsertAlert
  <2> QED
    BY <1>0, <1>5, <2>1 DEF UpsertAlert, Advance, WorkTypes, DbTypes, BusTypes
<1>6. CASE Commit(w)
  <2>1. stored \union mine[w] \subseteq Event
    BY DEF WorkTypes, DbTypes
  <2> QED
    BY <1>4, <1>6, <2>1, AtFacts DEF Commit, WorkTypes, DbTypes, BusTypes
<1>7. ASSUME Release(w) PROVE WorkTypes'
  BY <1>7 DEF Release, WorkTypes
<1>8. CASE Ack(w)
  <2>1. bus' \in Seq(Message)
    BY <1>8, RemoveAtFacts DEF Ack, BusTypes
  <2> QED
    BY <1>7, <1>8, <2>1 DEF Ack, DbTypes, BusTypes
<1>9. CASE Rollback(w) \/ AckLost(w)
  BY <1>7, <1>9 DEF Rollback, AckLost, DbTypes, BusTypes
<1> QED
  BY <1>1, <1>2, <1>3, <1>5, <1>6, <1>8, <1>9
-----------------------------------------------------------------------------
(* The pipeline's types.                                                    *)

LinkTypes == link \in Call \union {NoCall} /\ accepted \subseteq Event

TypeInv ==
  /\ SpoolFlags /\ SpoolInv
  /\ CallTypes /\ BusTypes /\ WorkTypes /\ DbTypes
  /\ LinkTypes /\ calm \in BOOLEAN

LEMMA TypeInvOK == TypeInv => TypeOK
BY SpoolTypesOK, IntakeTypesOK DEF TypeInv, TypeOK, SpoolInv, LinkTypes

LEMMA InitTypeInv == Init => TypeInv
<1> SUFFICES ASSUME Init PROVE TypeInv
  OBVIOUS
<1>1. SpoolFlags /\ SpoolInv
  BY SpoolInitInv DEF Init
<1>2. CallTypes /\ BusTypes /\ WorkTypes /\ DbTypes
  BY IntakeInitTypes, IntakeTypesOK DEF Init
<1>3. LinkTypes
  BY DEF Init, LinkTypes
<1>4. calm \in BOOLEAN
  BY Zenon DEF Init
<1> QED
  BY <1>1, <1>2, <1>3, <1>4 DEF TypeInv

LEMMA SpoolUnchanged == ASSUME SpoolInv, UNCHANGED spoolVars PROVE SpoolInv'
BY DEF SpoolInv, SpoolTypes, Numbered, IdleOK, spoolVars

LEMMA IntakeUnchanged ==
  ASSUME CallTypes, BusTypes, WorkTypes, DbTypes
  PROVE  /\ UNCHANGED callVars => CallTypes'
         /\ UNCHANGED busVars => BusTypes'
         /\ UNCHANGED workVars => WorkTypes'
         /\ UNCHANGED dbVars => DbTypes'
BY DEF CallTypes, BusTypes, WorkTypes, DbTypes

LEMMA HangupTypes ==
  ASSUME TypeInv, Hangup
  PROVE  CallTypes' /\ BusTypes' /\ WorkTypes' /\ DbTypes' /\ link' = NoCall
<1>1. CASE link # NoCall /\ call[link] = "acked"
  <2>1. link \in Call /\ Close(link) /\ UNCHANGED <<busVars, workVars, dbVars>>
    BY <1>1 DEF Hangup, TypeInv, LinkTypes
  <2> QED
    BY <2>1, CloseTypes, IntakeUnchanged DEF TypeInv, Hangup
<1>2. CASE ~ (link # NoCall /\ call[link] = "acked")
  BY <1>2, IntakeUnchanged DEF Hangup, TypeInv
<1> QED
  BY <1>1, <1>2

LEMMA AgentTypes == ASSUME TypeInv, AgentStep PROVE TypeInv'
<1> USE DEF TypeInv
<1>1. ASSUME UNCHANGED <<intakeVars, link, accepted, calm>>
      PROVE  CallTypes' /\ BusTypes' /\ WorkTypes' /\ DbTypes' /\ LinkTypes' /\ calm' \in BOOLEAN
  BY <1>1, IntakeUnchanged DEF LinkTypes
<1>2. CASE Gather
  BY <1>1, <1>2, CollectInv, FlagsStay DEF Gather
<1>3. CASE Persist
  <2>1. accepted \union EventsOf(batch) \subseteq Event
    BY EventsType DEF SpoolInv, SpoolTypes, LinkTypes
  <2> QED
    BY <1>3, <2>1, AppendInv, FlagsStay, IntakeUnchanged DEF Persist, LinkTypes
<1>4. CASE PersistRefused
  BY <1>1, <1>4, AppendInv, FlagsStay DEF PersistRefused
<1>5. CASE PersistFails
  BY <1>1, <1>5, AppendInv, FlagsStay DEF PersistFails
<1>6. CASE Fetch
  BY <1>1, <1>6, UploadInv, FlagsStay DEF Fetch
<1>7. CASE TakeAck
  <2>1. link \in Call /\ Close(link) /\ ChunkAcknowledged(Len(Chunk))
        /\ link' = NoCall /\ UNCHANGED <<busVars, workVars, dbVars, accepted, calm>>
    BY <1>7 DEF TakeAck, LinkTypes
  <2> QED
    BY <2>1, CloseTypes, UploadInv, FlagsStay, IntakeUnchanged DEF LinkTypes
<1>8. CASE Removed
  BY <1>1, <1>8, UploadInv, FlagsStay DEF Removed
<1>9. CASE UploadStops
  BY <1>9, HangupTypes, UploadInv, FlagsStay DEF UploadStops, LinkTypes
<1>10. CASE AgentRestarts
  BY <1>10, HangupTypes, ReopenInv, FlagsStay DEF AgentRestarts, LinkTypes
<1>11. ASSUME NEW i \in Call, SendChunk(i) PROVE TypeInv'
  <2>1. Chunk \in Seq(Event)
    BY ChunkFacts DEF SpoolInv, SpoolTypes
  <2>2. CallTypes'
    BY <1>11, <2>1 DEF SendChunk, Report, CallTypes
  <2> QED
    BY <1>11, <2>2, SpoolUnchanged, FlagsStay, IntakeUnchanged DEF SendChunk, Report, LinkTypes
<1> QED
  BY <1>2, <1>3, <1>4, <1>5, <1>6, <1>7, <1>8, <1>9, <1>10, <1>11 DEF AgentStep

LEMMA ServerTypes == ASSUME TypeInv, ServerStep PROVE TypeInv'
<1> USE DEF TypeInv
<1>1. ASSUME UNCHANGED <<spoolVars, link, accepted, calm>>
      PROVE  SpoolFlags' /\ SpoolInv' /\ LinkTypes' /\ calm' \in BOOLEAN
  BY <1>1, SpoolUnchanged, FlagsStay DEF LinkTypes
<1>2. ASSUME NEW i \in Call, CallProceeds(i) \/ CallBreaks(i) PROVE TypeInv'
  <2>1. /\ Handle(i) \/ Flush(i) \/ SendAck(i) \/ FlushFails(i) \/ CallEnds(i)
        /\ UNCHANGED <<spoolVars, link, accepted, calm>>
    BY <1>2 DEF CallProceeds, CallBreaks
  <2>2. UNCHANGED <<workVars, dbVars>>
    BY <2>1 DEF Handle, Flush, SendAck, FlushFails, CallEnds
  <2> QED
    BY <1>1, <2>1, <2>2, CallStepTypes, IntakeUnchanged
<1>3. CASE LateArrives
  <2>1. PICK content \in late : LateStored(content) \/ LateLost(content)
    BY <1>3 DEF LateArrives
  <2>2. UNCHANGED <<callVars, workVars, dbVars>>
    BY <2>1 DEF LateStored, LateLost
  <2> QED
    BY <1>1, <1>3, <2>1, <2>2, LateTypes, IntakeUnchanged DEF LateArrives
<1>4. ASSUME NEW w \in Worker, Work(w) \/ WorkFails(w) PROVE TypeInv'
  <2>1. /\ \/ \E k \in DOMAIN bus : Deliver(w, k)
           \/ SkipDuplicate(w) \/ InsertEvent(w) \/ UpsertAlert(w)
           \/ Commit(w) \/ Ack(w) \/ Rollback(w) \/ AckLost(w)
        /\ UNCHANGED <<spoolVars, link, accepted, calm>>
    BY <1>4 DEF Work, WorkFails
  <2>2. UNCHANGED callVars
    BY <2>1 DEF Deliver, SkipDuplicate, InsertEvent, UpsertAlert, Commit, Ack, Rollback, AckLost
  <2> QED
    BY <1>1, <2>1, <2>2, WorkStepTypes, IntakeUnchanged
<1> QED
  BY <1>2, <1>3, <1>4 DEF ServerStep

LEMMA UnchangedTypes == ASSUME TypeInv, UNCHANGED vars PROVE TypeInv'
BY SpoolUnchanged, FlagsStay, IntakeUnchanged DEF vars, TypeInv, LinkTypes

LEMMA TypeInvariant == Spec => []TypeInv
<1>1. TypeInv /\ [Next]_vars => TypeInv'
  BY AgentTypes, ServerTypes, UnchangedTypes DEF Next
<1> QED
  BY InitTypeInv, <1>1, PTL DEF Spec

\* Whatever fails, is lost, repeated or restarted, every variable of the agent,
\* the stream, the transactions and the database keeps its type; in particular
\* numbering never runs past its bound, as a number names a batch or a repeat.
THEOREM TypeCorrect == Spec => []TypeOK
BY TypeInvariant, TypeInvOK, PTL
-----------------------------------------------------------------------------
(* Nothing accepted is lost.                                                *)

\* In the stream or in the database
Confirmed == Published \union stored

\* Events of a call that the stream has not got yet
Unsent(i) == EventsOf(todo[i]) \union {queued[i][k].event : k \in DOMAIN queued[i]}

\* An accepted event is confirmed or in a file that no crash takes
SafeOnDisk ==
  \A e \in accepted : \/ e \in Confirmed
                      \/ \E s \in DOMAIN files \intersect DOMAIN durable : e \in EventsOf(files[s])

Agree == \A s \in DOMAIN files \intersect DOMAIN durable : files[s] = durable[s]

\* The upload works on the file it took, and what was acknowledged is confirmed
UploadOK ==
  /\ uploading \in DOMAIN files => load = files[uploading]
  /\ \A k \in 1..sent : load[k] \in Confirmed

\* So is all of a file whose removal was asked for
OrphansOK == \A s \in orphans \intersect DOMAIN files : EventsOf(files[s]) \subseteq Confirmed

CallsOK == \A i \in Call : call[i] = "acked" => todo[i] = <<>> /\ queued[i] = <<>>

\* A call of the upload that is not over has what is left of the chunk
LinkOK ==
  link # NoCall =>
    /\ uploading # None /\ ~acking
    /\ call[link] # "free" => EventsOf(Chunk) \subseteq Confirmed \union Unsent(link)

\* A message's place is not reused while a worker holds it, and a worker has
\* stored, or will commit, the events it passed
WorkOK(w) ==
  /\ worker[w] = "idle" => pos[w] = 0 /\ mine[w] = {}
  /\ worker[w] # "idle" => /\ msg[w] \in Message
                           /\ \A k \in DOMAIN bus : bus[k].id = msg[w].id => bus[k] = msg[w]
  /\ worker[w] = "open" => /\ pos[w] <= Len(EventsAt(w))
                           /\ \A k \in 1..pos[w] : EventsAt(w)[k] \in stored \union mine[w]
  /\ worker[w] = "done" => EventsOf(EventsAt(w)) \subseteq stored

WorkersOK == \A w \in Worker : WorkOK(w)

PlacesOK == \A j, k \in DOMAIN bus : bus[j].id = bus[k].id => j = k

DiskInv == SafeOnDisk /\ Agree /\ UploadOK /\ OrphansOK
KeptInv == DiskInv /\ CallsOK /\ LinkOK /\ WorkersOK /\ PlacesOK

LEMMA KeptInvKept == ASSUME KeptInv PROVE Kept
BY DEF KeptInv, DiskInv, SafeOnDisk, Agree, Kept, OnDisk, Confirmed

LEMMA InitKeptInv == Init => KeptInv
<1> SUFFICES ASSUME Init PROVE KeptInv
  OBVIOUS
<1>1. /\ accepted = {} /\ files = << >> /\ durable = << >> /\ sent = 0 /\ orphans = {}
      /\ link = NoCall
      /\ call = [i \in Call |-> "free"] /\ worker = [w \in Worker |-> "idle"]
      /\ pos = [w \in Worker |-> 0] /\ mine = [w \in Worker |-> {}] /\ bus = <<>>
  BY DEF Init, SpoolInit, IntakeInit
<1>2. DiskInv
  BY <1>1 DEF DiskInv, SafeOnDisk, Agree, UploadOK, OrphansOK
<1> QED
  BY <1>1, <1>2 DEF KeptInv, CallsOK, LinkOK, WorkersOK, WorkOK, PlacesOK

-----------------------------------------------------------------------------
\* A message's events are published while it is in the stream
LEMMA PublishedFacts ==
  ASSUME BusTypes, NEW e
  PROVE  e \in Published <=> \E k \in DOMAIN bus : e \in EventsOf(bus[k].content.events)
BY DEF Published

LEMMA StoreConfirms ==
  ASSUME BusTypes, NEW content \in Content, Store(content), UNCHANGED stored
  PROVE  /\ Confirmed \subseteq Confirmed'
         /\ EventsOf(content.events) \subseteq Confirmed'
<1>1. CASE bus' = bus /\ Taken(content)
  BY <1>1 DEF Taken, Confirmed, Published
<1>2. ASSUME NEW id \in MsgId \ InUse,
             [id |-> id, content |-> content] \in Message,
             bus' = Append(bus, [id |-> id, content |-> content])
      PROVE  Confirmed \subseteq Confirmed' /\ EventsOf(content.events) \subseteq Confirmed'
  <2>1. /\ Len(bus) \in Nat /\ DOMAIN bus = 1..Len(bus) /\ DOMAIN bus' = 1..Len(bus) + 1
        /\ \A k \in DOMAIN bus : bus'[k] = bus[k]
        /\ bus'[Len(bus) + 1] = [id |-> id, content |-> content]
    BY <1>2 DEF BusTypes
  <2>2. Published \subseteq Published'
    BY <2>1 DEF Published
  <2>3. EventsOf(content.events) \subseteq Published'
    BY <2>1 DEF Published
  <2> QED
    BY <2>2, <2>3 DEF Confirmed
<1> QED
  BY <1>1, <1>2, StoreFacts

LEMMA DiskStays ==
  ASSUME DiskInv, Confirmed \subseteq Confirmed',
         UNCHANGED <<files, durable, uploading, load, sent, orphans, accepted>>
  PROVE  DiskInv'
BY DEF DiskInv, SafeOnDisk, Agree, UploadOK, OrphansOK

LEMMA AgentLeavesServer ==
  ASSUME AgentStep PROVE UNCHANGED <<bus, late, workVars, dbVars>> /\ Confirmed' = Confirmed
<1>1. UNCHANGED <<bus, late, workVars, dbVars>>
  BY DEF AgentStep, Gather, Persist, PersistRefused, PersistFails, Fetch, TakeAck, Removed,
         UploadStops, AgentRestarts, SendChunk, Report, Hangup
<1> QED
  BY <1>1 DEF Confirmed, Published

LEMMA AppendKeepsDisk ==
  ASSUME SpoolInv, LinkTypes, DiskInv, Confirmed' = Confirmed,
         \/ AppendBatch /\ accepted' = accepted \union EventsOf(batch)
         \/ (AppendRefused \/ AppendFails) /\ UNCHANGED accepted
  PROVE  DiskInv'
<1> DEFINE dir == With(files, next, batch)
<1> USE DEF DiskInv
<1>0. batch # <<>>
  BY DEF AppendBatch, AppendRefused, AppendFails
<1>1. /\ DOMAIN dir = DOMAIN files \union {next}
      /\ \A s \in DOMAIN files : dir[s] = files[s]
      /\ dir[next] = batch
  BY <1>0, WithFacts
<1>2. /\ next \notin DOMAIN files /\ next \notin DOMAIN durable
      /\ next \notin orphans /\ next # uploading
  BY DEF SpoolInv, SpoolTypes, Numbered
<1>3. /\ UNCHANGED <<uploading, load, sent, orphans>>
      /\ files' = files \/ files' = dir
  BY DEF AppendBatch, AppendRefused, AppendFails, dir
<1>4. \/ UNCHANGED durable /\ UNCHANGED accepted
      \/ files' = dir /\ durable' = dir /\ accepted' = accepted \union EventsOf(batch)
  BY DEF AppendBatch, AppendRefused, AppendFails, dir
<1> HIDE DEF dir
<1>5. SafeOnDisk'
  BY <1>1, <1>3, <1>4 DEF SafeOnDisk
<1>6. Agree'
  BY <1>1, <1>2, <1>3, <1>4 DEF Agree
<1>7. UploadOK'
  BY <1>1, <1>2, <1>3 DEF UploadOK
<1>8. OrphansOK'
  BY <1>1, <1>2, <1>3 DEF OrphansOK
<1> QED
  BY <1>5, <1>6, <1>7, <1>8

\* A file is taken from the directory only when all of it is confirmed
LEMMA RemovalKeepsDisk ==
  ASSUME SpoolInv, DiskInv, Confirmed' = Confirmed, UNCHANGED accepted,
         NEW s, AcknowledgeFront(s),
         s \in DOMAIN files => EventsOf(files[s]) \subseteq Confirmed
  PROVE  SafeOnDisk' /\ Agree' /\ \A t \in DOMAIN files' : t \in DOMAIN files /\ files'[t] = files[t]
<1> USE DEF DiskInv
<1>1. /\ DOMAIN files' \subseteq DOMAIN files
      /\ \A t \in DOMAIN files' : files'[t] = files[t]
      /\ \A t \in DOMAIN files \ DOMAIN files' : t = s
      /\ durable' = files' \/ durable' = durable
  BY AcknowledgeFrontFacts
<1>2. SafeOnDisk'
  BY <1>1 DEF SafeOnDisk
<1>3. Agree'
  BY <1>1 DEF Agree
<1> QED
  BY <1>1, <1>2, <1>3

LEMMA AgentKeepsDisk ==
  ASSUME TypeInv, DiskInv, CallsOK, LinkOK, AgentStep PROVE DiskInv'
<1>0. Confirmed' = Confirmed
  BY AgentLeavesServer
<1>1. CASE Gather
  BY <1>0, <1>1, DiskStays DEF Gather, Collect
<1>2. CASE Persist \/ PersistRefused \/ PersistFails
  BY <1>0, <1>2, AppendKeepsDisk DEF Persist, PersistRefused, PersistFails, TypeInv
<1>3. CASE Fetch
  <2>1. PICK s \in DOMAIN files : TakeFront(s)
    BY <1>3 DEF Fetch
  <2>2. sent = 0
    BY <2>1 DEF TakeFront, TypeInv, SpoolInv, IdleOK
  <2>3. UNCHANGED <<files, durable, accepted, orphans, sent>> /\ uploading' = s /\ load' = files[s]
    BY <1>3, <2>1 DEF Fetch, TakeFront
  <2> QED
    BY <1>0, <2>2, <2>3 DEF DiskInv, SafeOnDisk, Agree, UploadOK, OrphansOK
<1>4. CASE TakeAck
  <2>1. /\ link \in Call /\ call[link] = "acked"
        /\ UNCHANGED <<files, durable, accepted, orphans, uploading, load>>
        /\ sent' = sent + Len(Chunk)
    BY <1>4 DEF TakeAck, ChunkAcknowledged, TypeInv, LinkTypes
  <2>2. EventsOf(Chunk) \subseteq Confirmed
    <3>1. Unsent(link) = {}
      BY <2>1, EmptyEvents DEF CallsOK, Unsent
    <3> QED
      BY <1>4, <2>1, <3>1 DEF LinkOK, TakeAck
  <2>3. /\ load \in Seq(Event) /\ sent \in 0..Len(load)
    BY DEF TypeInv, SpoolInv, SpoolTypes
  <2>4. \A k \in 1..sent + Len(Chunk) : load[k] \in Confirmed
    <3> SUFFICES ASSUME NEW k \in 1..sent + Len(Chunk), k > sent PROVE load[k] \in Confirmed
      BY <2>3, ChunkFacts DEF DiskInv, UploadOK
    <3>1. k - sent \in 1..Len(Chunk) /\ load[sent + (k - sent)] = load[k]
      BY <2>3, ChunkFacts
    <3>2. Chunk[k - sent] = load[k]
      BY <2>3, <3>1, ChunkFacts
    <3> QED
      BY <2>2, <2>3, <3>1, <3>2, ChunkFacts DEF EventsOf
  <2> QED
    BY <1>0, <2>1, <2>4 DEF DiskInv, SafeOnDisk, Agree, UploadOK, OrphansOK
<1>5. CASE AcknowledgeBatch /\ UNCHANGED accepted
  <2>1. /\ AcknowledgeFront(uploading) /\ UNCHANGED orphans
        /\ uploading' = None /\ load' = <<>> /\ sent' = 0
        /\ acking
    BY <1>5 DEF AcknowledgeBatch, Idle
  <2>2. load \in Seq(Event) /\ sent = Len(load)
    BY <2>1 DEF TypeInv, SpoolInv, SpoolTypes, IdleOK
  <2>3. EventsOf(load) \subseteq Confirmed
    BY <2>2 DEF DiskInv, UploadOK, EventsOf
  <2>4. SafeOnDisk' /\ Agree' /\ \A t \in DOMAIN files' : t \in DOMAIN files /\ files'[t] = files[t]
    BY <1>0, <1>5, <2>1, <2>3, RemovalKeepsDisk DEF TypeInv, DiskInv, UploadOK
  <2>5. None \notin DOMAIN files'
    BY <2>4 DEF TypeInv, SpoolInv, SpoolTypes
  <2>6. UploadOK'
    BY <2>1, <2>5 DEF UploadOK
  <2>7. OrphansOK'
    BY <1>0, <2>1, <2>4 DEF DiskInv, OrphansOK
  <2> QED
    BY <2>4, <2>6, <2>7 DEF DiskInv
<1>6. ASSUME NEW s \in orphans, AcknowledgeOrphan(s), UNCHANGED accepted PROVE DiskInv'
  <2>1. /\ AcknowledgeFront(s) /\ orphans' = orphans \ {s}
        /\ UNCHANGED <<uploading, load, sent>>
    BY <1>6 DEF AcknowledgeOrphan
  <2>2. SafeOnDisk' /\ Agree' /\ \A t \in DOMAIN files' : t \in DOMAIN files /\ files'[t] = files[t]
    BY <1>0, <1>6, <2>1, RemovalKeepsDisk DEF TypeInv, DiskInv, OrphansOK
  <2> QED
    BY <1>0, <2>1, <2>2 DEF DiskInv, UploadOK, OrphansOK
<1>7. CASE UploadStops
  <2>1. /\ UNCHANGED <<files, durable, accepted>>
        /\ uploading' = None /\ load' = <<>> /\ sent' = 0
        /\ orphans' = IF acking THEN orphans \union {uploading} ELSE orphans
    BY <1>7 DEF UploadStops, StopUpload, Idle
  <2>2. acking => EventsOf(load) \subseteq Confirmed
    BY DEF TypeInv, SpoolInv, SpoolTypes, IdleOK, DiskInv, UploadOK, EventsOf
  <2>3. None \notin DOMAIN files
    BY DEF TypeInv, SpoolInv, SpoolTypes
  <2>4. UploadOK'
    BY <2>1, <2>3 DEF UploadOK
  <2>5. OrphansOK'
    BY <1>0, <2>1, <2>2 DEF DiskInv, UploadOK, OrphansOK
  <2> QED
    BY <1>0, <2>1, <2>4, <2>5 DEF DiskInv, SafeOnDisk, Agree
<1>8. CASE AgentRestarts
  <2>1. /\ DOMAIN files \intersect DOMAIN durable \subseteq DOMAIN files'
        /\ \A s \in DOMAIN files' : files'[s] = IF s \in DOMAIN files THEN files[s] ELSE durable[s]
        /\ durable' = files' /\ orphans' = {} /\ UNCHANGED accepted
        /\ uploading' = None /\ sent' = 0
    BY <1>8, ReopenFacts DEF AgentRestarts, Reopen, Idle, TypeInv
  <2>2. None \notin DOMAIN files'
    BY <1>8, ReopenFacts DEF AgentRestarts, TypeInv, SpoolInv, SpoolTypes
  <2>3. SafeOnDisk'
    BY <1>0, <2>1 DEF DiskInv, SafeOnDisk
  <2> QED
    BY <2>1, <2>2, <2>3 DEF DiskInv, Agree, UploadOK, OrphansOK
<1>9. ASSUME NEW i \in Call, SendChunk(i) PROVE DiskInv'
  BY <1>0, <1>9, DiskStays DEF SendChunk, spoolVars
<1> QED
  BY <1>1, <1>2, <1>3, <1>4, <1>5, <1>6, <1>7, <1>8, <1>9 DEF AgentStep, Removed

LEMMA CloseFacts ==
  ASSUME CallTypes, NEW i \in Call, Close(i)
  PROVE  /\ call'[i] = "free" /\ todo'[i] = <<>> /\ queued'[i] = <<>>
         /\ \A j \in Call \ {i} : call'[j] = call[j] /\ todo'[j] = todo[j] /\ queued'[j] = queued[j]
BY DEF CallTypes, Close

LEMMA HangupCalls == ASSUME TypeInv, CallsOK, Hangup PROVE CallsOK' /\ LinkOK'
<1>1. CASE link # NoCall /\ call[link] = "acked"
  <2>1. link \in Call /\ Close(link)
    BY <1>1 DEF Hangup, TypeInv, LinkTypes
  <2> QED
    BY <2>1, CloseFacts DEF TypeInv, Hangup, CallsOK, LinkOK
<1>2. CASE ~ (link # NoCall /\ call[link] = "acked")
  BY <1>2 DEF Hangup, CallsOK, LinkOK
<1> QED
  BY <1>1, <1>2

LEMMA AgentKeepsCalls ==
  ASSUME TypeInv, CallsOK, LinkOK, AgentStep PROVE CallsOK' /\ LinkOK'
<1>0. Confirmed' = Confirmed
  BY AgentLeavesServer
<1>1. ASSUME UNCHANGED <<intakeVars, link, uploading, load, sent, acking>>
      PROVE  CallsOK' /\ LinkOK'
  BY <1>0, <1>1 DEF CallsOK, LinkOK, Chunk, Unsent
<1>2. CASE Gather \/ Persist \/ PersistRefused \/ PersistFails
  BY <1>1, <1>2 DEF Gather, Collect, Persist, AppendBatch, PersistRefused, AppendRefused,
                    PersistFails, AppendFails
<1>3. ASSUME link = NoCall, UNCHANGED <<intakeVars, link>> PROVE CallsOK' /\ LinkOK'
  BY <1>3 DEF CallsOK, LinkOK
<1>4. CASE Fetch
  BY <1>3, <1>4 DEF Fetch, TakeFront, LinkOK
<1>5. CASE TakeAck
  <2>1. link \in Call /\ Close(link) /\ link' = NoCall
    BY <1>5 DEF TakeAck, TypeInv, LinkTypes
  <2> QED
    BY <2>1, CloseFacts DEF TypeInv, CallsOK, LinkOK
<1>6. CASE Removed
  <2>1. CASE AcknowledgeBatch
    BY <1>3, <1>6, <2>1 DEF Removed, AcknowledgeBatch, LinkOK
  <2>2. ASSUME NEW s \in orphans, AcknowledgeOrphan(s) PROVE CallsOK' /\ LinkOK'
    BY <1>1, <1>6, <2>2 DEF Removed, AcknowledgeOrphan
  <2> QED
    BY <1>6, <2>1, <2>2 DEF Removed
<1>7. CASE UploadStops \/ AgentRestarts
  BY <1>7, HangupCalls DEF UploadStops, AgentRestarts
<1>8. ASSUME NEW i \in Call, SendChunk(i) PROVE CallsOK' /\ LinkOK'
  <2>1. /\ todo' = [todo EXCEPT ![i] = Chunk] /\ call' = [call EXCEPT ![i] = "open"]
        /\ UNCHANGED <<queued, uploading, load, sent, acking>>
        /\ uploading # None /\ ~acking /\ link' = i
    BY <1>8 DEF SendChunk, Report, spoolVars
  <2>2. CallsOK'
    BY <2>1 DEF CallsOK, TypeInv, CallTypes
  <2>3. Chunk' = Chunk /\ todo'[i] = Chunk
    BY <2>1 DEF Chunk, TypeInv, CallTypes
  <2>4. LinkOK'
    BY <2>1, <2>3 DEF LinkOK, Unsent
  <2> QED
    BY <2>2, <2>4
<1> QED
  BY <1>2, <1>4, <1>5, <1>6, <1>7, <1>8 DEF AgentStep

LEMMA WorkersStay ==
  ASSUME WorkersOK, UNCHANGED <<bus, workVars, stored>> PROVE WorkersOK'
BY DEF WorkersOK, WorkOK, EventsAt

-----------------------------------------------------------------------------
\* What a call has left moves from one place to the next until it is published
LEMMA CallStepFacts ==
  ASSUME TypeInv, CallsOK, NEW i \in Call,
         Handle(i) \/ Flush(i) \/ SendAck(i) \/ FlushFails(i) \/ CallEnds(i)
  PROVE  /\ UNCHANGED <<workVars, dbVars>> /\ CallsOK'
         /\ Confirmed \subseteq Confirmed'
         /\ \A j \in Call : call'[j] # "free" =>
              call[j] # "free" /\ Unsent(j) \subseteq Confirmed' \union Unsent(j)'
<1> USE DEF TypeInv
<1>1. CASE Handle(i)
  <2>1. PICK shard \in Shard :
          queued' = [queued EXCEPT ![i] = Append(@, [event |-> Head(todo[i]), shard |-> shard])]
    BY <1>1 DEF Handle, Shard
  <2>2. /\ todo' = [todo EXCEPT ![i] = Tail(@)] /\ todo[i] # <<>> /\ call[i] = "open"
        /\ UNCHANGED <<call, busVars, workVars, dbVars>>
    BY <1>1 DEF Handle
  <2>3. Confirmed' = Confirmed
    BY <2>2 DEF Confirmed, Published
  <2>4. /\ EventsOf(todo[i]) = {Head(todo[i])} \union EventsOf(Tail(todo[i]))
        /\ queued[i] \in Seq(Envelope)
    BY <2>2, TailEvents DEF CallTypes
  <2> DEFINE q == Append(queued[i], [event |-> Head(todo[i]), shard |-> shard])
  <2>5. /\ DOMAIN q = 1..Len(queued[i]) + 1 /\ Len(queued[i]) \in Nat
        /\ DOMAIN queued[i] = 1..Len(queued[i])
        /\ \A k \in 1..Len(queued[i]) : q[k] = queued[i][k]
        /\ q[Len(queued[i]) + 1].event = Head(todo[i])
    BY <2>4
  <2>6. queued'[i] = q /\ todo'[i] = Tail(todo[i])
    BY <2>1, <2>2 DEF CallTypes
  <2> HIDE DEF q
  <2>7. Unsent(i) \subseteq Unsent(i)'
    BY <2>4, <2>5, <2>6 DEF Unsent
  <2>8. \A j \in Call \ {i} : Unsent(j)' = Unsent(j)
    BY <2>1, <2>2 DEF Unsent, CallTypes
  <2>9. CallsOK'
    BY <2>1, <2>2 DEF CallsOK, CallTypes
  <2> QED
    BY <2>2, <2>3, <2>7, <2>8, <2>9
<1>2. CASE Flush(i)
  <2>1. PICK content \in FirstOf(i) :
          /\ Store(content)
          /\ queued' = [queued EXCEPT ![i] = SubSeq(@, Len(content.events) + 1, Len(@))]
          /\ UNCHANGED <<call, todo, workVars, dbVars>>
    BY <1>2 DEF Flush
  <2> DEFINE n == Len(content.events)
             m == Len(queued[i])
  <2>2. /\ content \in Content /\ n \in 1..m
        /\ DOMAIN content.events = 1..n
        /\ \A k \in 1..n : content.events[k] = queued[i][k].event
    BY FirstOfFacts
  <2>3. Confirmed \subseteq Confirmed' /\ EventsOf(content.events) \subseteq Confirmed'
    BY <2>1, <2>2, StoreConfirms
  <2>4. queued[i] \in Seq(Envelope) /\ m \in Nat /\ DOMAIN queued[i] = 1..m
    BY DEF CallTypes
  <2>5. queued'[i] = SubSeq(queued[i], n + 1, m) /\ todo'[i] = todo[i]
    BY <2>1 DEF CallTypes
  <2> HIDE DEF n, m
  <2>6. /\ Len(queued'[i]) = m - n /\ queued'[i] \in Seq(Envelope)
        /\ \A k \in 1..m - n : queued'[i][k] = queued[i][n + k]
    BY <2>2, <2>4, <2>5, SubSeqFacts DEF m
  <2>7. ASSUME NEW k \in DOMAIN queued[i]
        PROVE  queued[i][k].event \in Confirmed' \union Unsent(i)'
    <3>1. CASE k <= n
      <4>1. queued[i][k].event \in EventsOf(content.events)
        BY <2>2, <2>4, <3>1 DEF EventsOf
      <4> QED
        BY <4>1, <2>3
    <3>2. CASE k > n
      <4>1. k - n \in 1..m - n /\ queued'[i][k - n] = queued[i][n + (k - n)]
        BY <2>2, <2>4, <2>6, <3>2
      <4>2. k - n \in DOMAIN queued'[i] /\ queued'[i][k - n] = queued[i][k]
        BY <2>2, <2>4, <2>6, <4>1
      <4> QED
        BY <4>2 DEF Unsent
    <3> QED
      BY <2>2, <2>4, <3>1, <3>2
  <2>8. Unsent(i) \subseteq Confirmed' \union Unsent(i)'
    BY <2>5, <2>7 DEF Unsent
  <2>9. \A j \in Call \ {i} : Unsent(j)' = Unsent(j)
    BY <2>1 DEF Unsent, CallTypes
  <2>10. CallsOK'
    BY <1>2, <2>1 DEF CallsOK, CallTypes, Flush
  <2> QED
    BY <2>1, <2>3, <2>8, <2>9, <2>10
<1>3. CASE SendAck(i)
  <2>1. /\ todo[i] = <<>> /\ queued[i] = <<>> /\ call[i] = "open"
        /\ call' = [call EXCEPT ![i] = "acked"]
        /\ UNCHANGED <<todo, queued, busVars, workVars, dbVars>>
    BY <1>3 DEF SendAck
  <2>2. Confirmed' = Confirmed /\ \A j \in Call : Unsent(j)' = Unsent(j)
    BY <2>1 DEF Confirmed, Published, Unsent
  <2>3. CallsOK'
    BY <2>1 DEF CallsOK, CallTypes
  <2> QED
    BY <2>1, <2>2, <2>3 DEF CallTypes
<1>4. CASE FlushFails(i) \/ CallEnds(i)
  <2>1. Close(i) /\ UNCHANGED <<bus, workVars, dbVars>>
    BY <1>4 DEF FlushFails, CallEnds
  <2>2. Confirmed' = Confirmed
    BY <2>1 DEF Confirmed, Published
  <2>3. \A j \in Call \ {i} : Unsent(j)' = Unsent(j)
    BY <2>1, CloseFacts DEF Unsent
  <2>4. CallsOK'
    BY <2>1, CloseFacts DEF CallsOK
  <2> QED
    BY <2>1, <2>2, <2>3, <2>4, CloseFacts
<1> QED
  BY <1>1, <1>2, <1>3, <1>4

LEMMA LinkStays ==
  ASSUME TypeInv, LinkOK, UNCHANGED <<spoolVars, link>>,
         Confirmed \subseteq Confirmed',
         \A j \in Call : call'[j] # "free" =>
              call[j] # "free" /\ Unsent(j) \subseteq Confirmed' \union Unsent(j)'
  PROVE  LinkOK'
<1>1. Chunk' = Chunk
  BY DEF Chunk, spoolVars
<1>2. UNCHANGED <<uploading, acking, link>>
  BY DEF spoolVars
<1> QED
  BY <1>1, <1>2 DEF LinkOK, TypeInv, LinkTypes

\* A new message gets a place that no worker's message has
LEMMA StoreKeepsWorkers ==
  ASSUME TypeInv, WorkersOK, NEW content \in Content, Store(content),
         UNCHANGED <<workVars, stored>>
  PROVE  WorkersOK'
<1>1. ASSUME NEW w \in Worker, NEW k \in DOMAIN bus', worker[w] # "idle", bus'[k].id = msg[w].id
      PROVE  bus'[k] = msg[w]
  <2>1. CASE bus' = bus
    BY <1>1, <2>1 DEF WorkersOK, WorkOK
  <2>2. ASSUME NEW id \in MsgId \ InUse, bus' = Append(bus, [id |-> id, content |-> content])
        PROVE  bus'[k] = msg[w]
    <3>1. bus \in Seq(Message)
      BY DEF TypeInv, BusTypes
    <3>2. CASE k = Len(bus) + 1
      <4>1. bus'[k].id = id
        BY <2>2, <3>1, <3>2
      <4> QED
        BY <1>1, <2>2, <4>1 DEF InUse
    <3>3. CASE k # Len(bus) + 1
      <4>1. k \in DOMAIN bus /\ bus'[k] = bus[k]
        BY <2>2, <3>1, <3>3
      <4> QED
        BY <1>1, <4>1 DEF WorkersOK, WorkOK
    <3> QED
      BY <3>2, <3>3
  <2> QED
    BY <2>1, <2>2, StoreFacts DEF TypeInv
<1> QED
  BY <1>1 DEF WorkersOK, WorkOK, EventsAt

\* What a step must show of the transaction it is on
LEMMA WorkOKNext ==
  ASSUME NEW w \in Worker, WorkOK(w), bus' = bus, msg' = msg, worker[w] # "idle",
         worker'[w] \in {"open", "done"},
         worker'[w] = "open" => /\ pos'[w] <= Len(EventsAt(w))
                                /\ \A k \in 1..pos'[w] : EventsAt(w)[k] \in stored' \union mine'[w],
         worker'[w] = "done" => EventsOf(EventsAt(w)) \subseteq stored'
  PROVE  WorkOK(w)'
<1>1. EventsAt(w)' = EventsAt(w)
  BY DEF EventsAt
<1>2. worker'[w] # "idle"
  OBVIOUS
<1>3. /\ msg'[w] \in Message
      /\ \A k \in DOMAIN bus' : bus'[k].id = msg'[w].id => bus'[k] = msg'[w]
  BY DEF WorkOK
<1> QED
  BY <1>1, <1>2, <1>3 DEF WorkOK

\* Steps on a transaction
LEMMA WorkerStepKeepsWorkers ==
  ASSUME TypeInv, WorkersOK, PlacesOK, NEW w \in Worker,
         \/ \E k \in DOMAIN bus : Deliver(w, k)
         \/ SkipDuplicate(w) \/ InsertEvent(w) \/ UpsertAlert(w)
         \/ Commit(w) \/ Rollback(w) \/ AckLost(w)
  PROVE  WorkersOK' /\ UNCHANGED <<callVars, busVars>> /\ stored \subseteq stored'
<1>0. CallTypes /\ BusTypes /\ WorkTypes /\ DbTypes
  BY DEF TypeInv
<1>1. UNCHANGED <<callVars, busVars>> /\ stored \subseteq stored'
  BY DEF Deliver, SkipDuplicate, InsertEvent, UpsertAlert, Commit, Rollback, AckLost
<1>2. \A v \in Worker \ {w} :
         /\ worker'[v] = worker[v] /\ msg'[v] = msg[v] /\ pos'[v] = pos[v] /\ mine'[v] = mine[v]
  BY <1>0 DEF Deliver, SkipDuplicate, InsertEvent, UpsertAlert, Commit, Rollback, AckLost,
         Release, Advance, WorkTypes
<1>3. \A v \in Worker \ {w} : WorkOK(v)'
  <2> SUFFICES ASSUME NEW v \in Worker \ {w} PROVE WorkOK(v)'
    OBVIOUS
  <2>1. WorkOK(v)
    BY DEF WorkersOK
  <2> QED
    BY <1>1, <1>2, <2>1 DEF WorkOK, EventsAt
<1>4. WorkOK(w)
  BY DEF WorkersOK
<1>5. /\ EventsAt(w) \in Seq(Event) /\ pos[w] \in Nat /\ Len(EventsAt(w)) \in Nat
  BY <1>0, AtFacts
<1>6. ASSUME NEW k \in DOMAIN bus, Deliver(w, k) PROVE WorkOK(w)'
  <2>1. bus[k] \in Message /\ worker'[w] = "open" /\ msg'[w] = bus[k] /\ pos'[w] = 0
    BY <1>0, <1>4, <1>6 DEF Deliver, WorkTypes, BusTypes, WorkOK
  <2>2. \A j \in DOMAIN bus : bus[j].id = bus[k].id => bus[j] = bus[k]
    BY DEF PlacesOK
  <2>3. bus[k].content.events \in Seq(Event)
    BY <2>1 DEF Message, Content
  <2> QED
    BY <1>1, <2>1, <2>2, <2>3 DEF WorkOK, EventsAt
<1>7. ASSUME UNCHANGED <<worker, msg, stored>>, More(w), pos'[w] = pos[w] + 1,
             Current(w) \in stored \union mine'[w], mine[w] \subseteq mine'[w]
      PROVE  WorkOK(w)'
  <2>1. /\ worker[w] = "open" /\ pos[w] + 1 <= Len(EventsAt(w))
        /\ EventsAt(w)[pos[w] + 1] \in stored \union mine'[w]
    BY <1>5, <1>7 DEF More, Current
  <2>2. \A k \in 1..pos[w] + 1 : EventsAt(w)[k] \in stored \union mine'[w]
    BY <1>4, <1>5, <1>7, <2>1 DEF WorkOK
  <2> QED
    BY <1>1, <1>4, <1>7, <2>1, <2>2, WorkOKNext
<1>8. ASSUME SkipDuplicate(w) PROVE WorkOK(w)'
  <2>1. pos'[w] = pos[w] + 1 /\ mine'[w] = mine[w]
    BY <1>0, <1>8 DEF SkipDuplicate, Advance, WorkTypes
  <2>2. UNCHANGED <<worker, msg, stored>> /\ More(w) /\ Current(w) \in stored
    BY <1>8 DEF SkipDuplicate, dbVars
  <2>3. Current(w) \in stored \union mine'[w] /\ mine[w] \subseteq mine'[w]
    BY <2>1, <2>2
  <2> QED
    BY <1>7, <2>1, <2>2, <2>3
<1>9. ASSUME InsertEvent(w) PROVE WorkOK(w)'
  <2>1. mine'[w] = mine[w] \union {Current(w)}
    BY <1>0, <1>9 DEF InsertEvent, WorkTypes
  <2>2. UNCHANGED <<worker, msg, stored>> /\ More(w)
    BY <1>9 DEF InsertEvent, dbVars
  <2>3. pos'[w] = pos[w] \/ pos'[w] = pos[w] + 1
    BY <1>0, <1>9 DEF InsertEvent, Advance, WorkTypes
  <2>4. Current(w) \in stored \union mine'[w] /\ mine[w] \subseteq mine'[w]
    BY <2>1
  <2>5. ASSUME pos'[w] = pos[w] PROVE WorkOK(w)'
    <3>1. worker[w] = "open"
      BY <2>2 DEF More
    <3>2. /\ pos'[w] <= Len(EventsAt(w))
          /\ \A k \in 1..pos'[w] : EventsAt(w)[k] \in stored' \union mine'[w]
      BY <1>4, <2>2, <2>4, <2>5, <3>1 DEF WorkOK
    <3> QED
      BY <1>1, <1>4, <2>2, <3>1, <3>2, WorkOKNext
  <2> QED
    BY <1>7, <2>2, <2>3, <2>4, <2>5
<1>10. ASSUME UpsertAlert(w) PROVE WorkOK(w)'
  <2>1. pos'[w] = pos[w] + 1 /\ mine'[w] = mine[w]
    BY <1>0, <1>10 DEF UpsertAlert, Advance, WorkTypes
  <2>2. UNCHANGED <<worker, msg, stored>> /\ More(w) /\ Current(w) \in mine[w]
    BY <1>10 DEF UpsertAlert, dbVars
  <2>3. Current(w) \in stored \union mine'[w] /\ mine[w] \subseteq mine'[w]
    BY <2>1, <2>2
  <2> QED
    BY <1>7, <2>1, <2>2, <2>3
<1>11. ASSUME Commit(w) PROVE WorkOK(w)'
  <2>1. worker'[w] = "done"
    BY <1>0, <1>11 DEF Commit, WorkTypes
  <2>2. msg' = msg /\ stored' = stored \union mine[w]
    BY <1>11 DEF Commit
  <2>3. worker[w] = "open" /\ pos[w] = Len(EventsAt(w))
    BY <1>11 DEF Commit, Finished
  <2>4. EventsOf(EventsAt(w)) \subseteq stored'
    BY <1>4, <1>5, <2>2, <2>3 DEF WorkOK, EventsOf
  <2> QED
    BY <1>1, <1>4, <2>1, <2>2, <2>3, <2>4, WorkOKNext
<1>12. ASSUME Rollback(w) \/ AckLost(w) PROVE WorkOK(w)'
  <2>1. worker'[w] = "idle"
    BY <1>0, <1>12 DEF Rollback, AckLost, Release, WorkTypes
  <2>2. pos'[w] = 0 /\ mine'[w] = {}
    BY <1>0, <1>12 DEF Rollback, AckLost, Release, WorkTypes
  <2> QED
    BY <2>1, <2>2 DEF WorkOK
<1> QED
  BY <1>1, <1>3, <1>6, <1>8, <1>9, <1>10, <1>11, <1>12 DEF WorkersOK

\* The acknowledged message, if still there, leaves the stream and no other does
LEMMA AckFacts ==
  ASSUME BusTypes, NEW w \in Worker, Ack(w)
  PROVE  \/ UNCHANGED bus /\ \A k \in DOMAIN bus : bus[k].id # msg[w].id
         \/ \E k \in DOMAIN bus :
              /\ bus[k].id = msg[w].id
              /\ Len(bus) \in Nat /\ DOMAIN bus = 1..Len(bus) /\ DOMAIN bus' = 1..Len(bus) - 1
              /\ \A j \in 1..Len(bus) - 1 : bus'[j] = IF j < k THEN bus[j] ELSE bus[j + 1]
<1>1. CASE UNCHANGED bus /\ \A k \in DOMAIN bus : bus[k].id # msg[w].id
  BY <1>1
<1>2. ASSUME NEW k \in DOMAIN bus, bus[k].id = msg[w].id, bus' = Seqs!RemoveAt(bus, k)
      PROVE  /\ Len(bus) \in Nat /\ DOMAIN bus = 1..Len(bus) /\ DOMAIN bus' = 1..Len(bus) - 1
             /\ \A j \in 1..Len(bus) - 1 : bus'[j] = IF j < k THEN bus[j] ELSE bus[j + 1]
  <2>1. bus \in Seq(Message)
    BY DEF BusTypes
  <2>2. /\ bus' \in Seq(Message) /\ Len(bus') = Len(bus) - 1
        /\ \A j \in 1..Len(bus) - 1 : bus'[j] = IF j < k THEN bus[j] ELSE bus[j + 1]
    BY <1>2, <2>1, RemoveAtFacts
  <2> QED
    BY <2>1, <2>2
<1> QED
  BY <1>1, <1>2 DEF Ack

LEMMA AckKeepsWorkers ==
  ASSUME TypeInv, WorkersOK, PlacesOK, NEW w \in Worker, Ack(w)
  PROVE  /\ WorkersOK' /\ PlacesOK' /\ Confirmed \subseteq Confirmed'
         /\ UNCHANGED <<callVars, stored>>
<1>0. BusTypes /\ WorkTypes
  BY DEF TypeInv
<1>1. UNCHANGED <<callVars, stored>>
  BY DEF Ack, dbVars
<1>2. WorkOK(w) /\ worker[w] = "done"
  BY DEF WorkersOK, Ack
<1>3. /\ EventsOf(EventsAt(w)) \subseteq stored
      /\ \A k \in DOMAIN bus : bus[k].id = msg[w].id => bus[k] = msg[w]
  BY <1>2 DEF WorkOK
<1>4. worker'[w] = "idle" /\ pos'[w] = 0 /\ mine'[w] = {}
  BY <1>0 DEF Ack, Release, WorkTypes
<1>5. \A v \in Worker \ {w} :
         /\ worker'[v] = worker[v] /\ msg'[v] = msg[v] /\ pos'[v] = pos[v] /\ mine'[v] = mine[v]
  BY <1>0 DEF Ack, Release, WorkTypes
<1>6. /\ \A j \in DOMAIN bus' : \E i \in DOMAIN bus : bus'[j] = bus[i]
      /\ \A i \in DOMAIN bus : bus[i] = msg[w] \/ \E j \in DOMAIN bus' : bus'[j] = bus[i]
      /\ PlacesOK'
  <2>1. CASE UNCHANGED bus
    BY <2>1 DEF PlacesOK
  <2>2. ASSUME NEW k \in DOMAIN bus,
               bus[k].id = msg[w].id,
               Len(bus) \in Nat, DOMAIN bus = 1..Len(bus), DOMAIN bus' = 1..Len(bus) - 1,
               \A j \in 1..Len(bus) - 1 : bus'[j] = IF j < k THEN bus[j] ELSE bus[j + 1]
        PROVE  /\ \A j \in DOMAIN bus' : \E i \in DOMAIN bus : bus'[j] = bus[i]
               /\ \A i \in DOMAIN bus : bus[i] = msg[w] \/ \E j \in DOMAIN bus' : bus'[j] = bus[i]
               /\ PlacesOK'
    <3> DEFINE old(j) == IF j < k THEN j ELSE j + 1
               new(i) == IF i < k THEN i ELSE i - 1
    <3>1. \A j \in DOMAIN bus' : old(j) \in DOMAIN bus /\ bus'[j] = bus[old(j)]
      BY <2>2
    <3>2. \A i \in DOMAIN bus : i # k => new(i) \in DOMAIN bus' /\ bus'[new(i)] = bus[i]
      BY <2>2
    <3>3. \A i, j \in DOMAIN bus' : old(i) = old(j) => i = j
      BY <2>2
    <3> HIDE DEF old, new
    <3>4. PlacesOK'
      BY <3>1, <3>3 DEF PlacesOK
    <3> QED
      BY <1>3, <2>2, <3>1, <3>2, <3>4
  <2> QED
    BY <1>0, <2>1, <2>2, AckFacts
<1>8. WorkersOK'
  <2>1. WorkOK(w)'
    BY <1>4 DEF WorkOK
  <2>2. ASSUME NEW v \in Worker \ {w} PROVE WorkOK(v)'
    <3>1. WorkOK(v)
      BY DEF WorkersOK
    <3> QED
      BY <1>1, <1>5, <1>6, <3>1 DEF WorkOK, EventsAt
  <2> QED
    BY <2>1, <2>2 DEF WorkersOK
<1>10. Confirmed \subseteq Confirmed'
  <2>1. ASSUME NEW e \in Published PROVE e \in Confirmed'
    <3>1. PICK i \in DOMAIN bus : e \in EventsOf(bus[i].content.events)
      BY DEF Published
    <3>2. CASE bus[i] = msg[w]
      BY <1>1, <1>3, <3>1, <3>2 DEF Confirmed, EventsAt
    <3>3. CASE \E j \in DOMAIN bus' : bus'[j] = bus[i]
      BY <3>1, <3>3 DEF Confirmed, Published
    <3> QED
      BY <1>6, <3>2, <3>3
  <2> QED
    BY <1>1, <2>1 DEF Confirmed
<1> QED
  BY <1>1, <1>6, <1>8, <1>10

LEMMA StoreKeepsPlaces ==
  ASSUME TypeInv, PlacesOK, NEW content \in Content, Store(content)
  PROVE  PlacesOK'
<1>1. bus \in Seq(Message)
  BY DEF TypeInv, BusTypes
<1>2. CASE bus' = bus
  BY <1>2 DEF PlacesOK
<1>3. ASSUME NEW id \in MsgId \ InUse, bus' = Append(bus, [id |-> id, content |-> content])
      PROVE  PlacesOK'
  <2>1. /\ DOMAIN bus' = 1..Len(bus) + 1 /\ DOMAIN bus = 1..Len(bus) /\ Len(bus) \in Nat
        /\ \A k \in 1..Len(bus) : bus'[k] = bus[k]
        /\ bus'[Len(bus) + 1].id = id
    BY <1>1, <1>3
  <2>2. \A k \in DOMAIN bus : bus[k].id # id
    BY DEF InUse
  <2> QED
    BY <2>1, <2>2 DEF PlacesOK
<1> QED
  BY <1>2, <1>3, StoreFacts DEF TypeInv

LEMMA AgentKeeps == ASSUME TypeInv, KeptInv, AgentStep PROVE KeptInv'
<1>1. UNCHANGED <<bus, workVars, dbVars>>
  BY AgentLeavesServer
<1>2. WorkersOK' /\ PlacesOK'
  BY <1>1, WorkersStay DEF KeptInv, PlacesOK, dbVars
<1> QED
  BY <1>2, AgentKeepsDisk, AgentKeepsCalls DEF KeptInv

LEMMA ServerKeeps == ASSUME TypeInv, KeptInv, ServerStep PROVE KeptInv'
<1>0. DiskInv /\ CallsOK /\ LinkOK /\ WorkersOK /\ PlacesOK /\ CallTypes /\ BusTypes
  BY DEF KeptInv, TypeInv
<1>1. /\ UNCHANGED <<spoolVars, link, accepted>>
      /\ UNCHANGED <<files, durable, uploading, load, sent, orphans>>
  BY DEF ServerStep, CallProceeds, CallBreaks, LateArrives, Work, WorkFails, spoolVars,
         diskVars, uploadVars
<1>2. ASSUME Confirmed \subseteq Confirmed', UNCHANGED <<callVars>>
      PROVE  DiskInv' /\ CallsOK' /\ LinkOK'
  <2>1. DiskInv'
    BY <1>0, <1>1, <1>2, DiskStays
  <2>2. UNCHANGED <<call, todo, queued>>
    BY <1>2 DEF callVars
  <2>3. CallsOK' /\ \A j \in Call : Unsent(j)' = Unsent(j) /\ call'[j] = call[j]
    BY <1>0, <2>2 DEF CallsOK, Unsent
  <2> QED
    BY <1>0, <1>1, <1>2, <2>1, <2>3, LinkStays
<1>3. ASSUME NEW i \in Call, CallProceeds(i) \/ CallBreaks(i) PROVE KeptInv'
  <2>1. Handle(i) \/ Flush(i) \/ SendAck(i) \/ FlushFails(i) \/ CallEnds(i)
    BY <1>3 DEF CallProceeds, CallBreaks
  <2>2. /\ UNCHANGED <<workVars, dbVars>> /\ CallsOK'
        /\ Confirmed \subseteq Confirmed'
        /\ LinkOK'
    BY <1>0, <1>1, <2>1, CallStepFacts, LinkStays
  <2>3. UNCHANGED bus \/ \E content \in Content : Store(content)
    BY <2>1, FirstOfFacts, <1>0 DEF Handle, Flush, SendAck, FlushFails, CallEnds, busVars
  <2>4. WorkersOK' /\ PlacesOK'
    <3>1. UNCHANGED stored
      BY <2>2 DEF dbVars
    <3>2. CASE UNCHANGED bus
      BY <1>0, <2>2, <3>1, <3>2, WorkersStay DEF PlacesOK
    <3>3. ASSUME NEW content \in Content, Store(content) PROVE WorkersOK' /\ PlacesOK'
      BY <1>0, <2>2, <3>1, <3>3, StoreKeepsWorkers, StoreKeepsPlaces
    <3> QED
      BY <2>3, <3>2, <3>3
  <2> QED
    BY <1>0, <1>1, <2>2, <2>4, DiskStays DEF KeptInv
<1>4. CASE LateArrives
  <2>1. PICK content \in late : LateStored(content) \/ LateLost(content)
    BY <1>4 DEF LateArrives
  <2>2. content \in Content /\ UNCHANGED <<callVars, workVars, dbVars, stored>>
    BY <1>0, <2>1 DEF LateStored, LateLost, BusTypes, dbVars
  <2>3. CASE LateStored(content)
    <3>1. Store(content)
      BY <2>3 DEF LateStored
    <3> QED
      BY <1>0, <1>2, <2>2, <3>1, StoreConfirms, StoreKeepsWorkers, StoreKeepsPlaces DEF KeptInv
  <2>4. CASE LateLost(content)
    <3>1. UNCHANGED bus
      BY <2>4 DEF LateLost
    <3>2. Confirmed' = Confirmed /\ PlacesOK'
      BY <1>0, <2>2, <3>1 DEF Confirmed, Published, PlacesOK
    <3> QED
      BY <1>0, <1>2, <2>2, <3>1, <3>2, WorkersStay DEF KeptInv
  <2> QED
    BY <2>1, <2>3, <2>4
<1>5. ASSUME NEW w \in Worker, Work(w) \/ WorkFails(w) PROVE KeptInv'
  <2>1. CASE Ack(w)
    BY <1>0, <1>2, <2>1, AckKeepsWorkers DEF KeptInv
  <2>2. CASE \/ \E k \in DOMAIN bus : Deliver(w, k)
             \/ SkipDuplicate(w) \/ InsertEvent(w) \/ UpsertAlert(w)
             \/ Commit(w) \/ Rollback(w) \/ AckLost(w)
    <3>1. WorkersOK' /\ UNCHANGED <<callVars, busVars>> /\ stored \subseteq stored'
      BY <1>0, <2>2, WorkerStepKeepsWorkers
    <3>2. Confirmed \subseteq Confirmed' /\ PlacesOK'
      BY <1>0, <3>1 DEF Confirmed, Published, PlacesOK, busVars
    <3> QED
      BY <1>2, <3>1, <3>2 DEF KeptInv
  <2> QED
    BY <1>5, <2>1, <2>2 DEF Work, WorkFails
<1> QED
  BY <1>3, <1>4, <1>5 DEF ServerStep

LEMMA KeptUnchanged == ASSUME KeptInv, TypeInv, UNCHANGED vars PROVE KeptInv'
<1>1. /\ UNCHANGED <<spoolVars, callVars, busVars, workVars, dbVars, link, accepted>>
  BY DEF vars, intakeVars
<1>2. /\ UNCHANGED <<files, durable, uploading, load, sent, orphans, acking>>
      /\ UNCHANGED <<call, todo, queued, bus, stored>>
  BY <1>1 DEF spoolVars, diskVars, uploadVars, callVars, busVars, dbVars
<1>3. Confirmed' = Confirmed /\ PlacesOK' /\ CallsOK'
  BY <1>2 DEF Confirmed, Published, PlacesOK, CallsOK, KeptInv
<1>4. LinkOK'
  <2>1. \A j \in Call : Unsent(j)' = Unsent(j) /\ call'[j] = call[j]
    BY <1>2 DEF Unsent
  <2> QED
    BY <1>1, <1>3, <2>1, LinkStays DEF KeptInv
<1> QED
  BY <1>1, <1>2, <1>3, <1>4, DiskStays, WorkersStay DEF KeptInv

LEMMA KeptInvariant == Spec => []KeptInv
<1>1. TypeInv /\ KeptInv /\ [Next]_vars => KeptInv'
  BY AgentKeeps, ServerKeeps, KeptUnchanged DEF Next
<1> QED
  BY TypeInvariant, InitKeptInv, <1>1, PTL DEF Spec

\* An event whose append returned Ok to the agent stays in a file no crash takes,
\* in the stream or in the database, for every number of calls, transactions,
\* crashes, failed syncs, late publications and redeliveries.
THEOREM NothingAcceptedIsLost == Spec => []Kept
BY KeptInvariant, KeptInvKept, PTL
=============================================================================

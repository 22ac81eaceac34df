--------------------------- MODULE EventPipeline ---------------------------
(***************************************************************************)
(* One agent's spool, the server's intake and the database behind it,      *)
(* joined by ReportEvents calls (delivery::upload).                        *)
(***************************************************************************)
EXTENDS AgentSpool, EventIntake

CONSTANTS ChunkEvents,  \* events of one call: 64
          NoCall

ASSUME PipelineAssumption == ChunkEvents \in Nat \ {0} /\ NoCall \notin Call

VARIABLES link,         \* the call the upload waits for, or NoCall
          accepted,     \* events whose append returned Ok (history)
          calm          \* nothing fails any more

vars == <<spoolVars, intakeVars, link, accepted, calm>>

TypeOK ==
  /\ SpoolTypeOK
  /\ IntakeTypeOK
  /\ link \in Call \union {NoCall}
  /\ accepted \subseteq Event
  /\ calm \in BOOLEAN

Init == SpoolInit /\ IntakeInit /\ link = NoCall /\ accepted = {} /\ calm = FALSE
-----------------------------------------------------------------------------
(* The agent.                                                               *)

Gather ==
  /\ Collect
  /\ UNCHANGED <<intakeVars, link, accepted, calm>>

Persist ==
  /\ AppendBatch
  /\ accepted' = accepted \union EventsOf(batch)
  /\ UNCHANGED <<intakeVars, link, calm>>

PersistRefused ==
  /\ AppendRefused
  /\ calm => ~Room
  /\ UNCHANGED <<intakeVars, link, accepted, calm>>

PersistFails ==
  /\ ~calm
  /\ AppendFails
  /\ UNCHANGED <<intakeVars, link, accepted, calm>>

Fetch ==
  /\ \E s \in DOMAIN files : TakeFront(s)
  /\ UNCHANGED <<intakeVars, link, accepted, calm>>

\* chunks(64): the next events of the batch
Chunk == SubSeq(load, sent + 1,
                IF sent + ChunkEvents < Len(load) THEN sent + ChunkEvents ELSE Len(load))

SendChunk(i) ==
  /\ uploading # None
  /\ ~acking
  /\ link = NoCall
  /\ Report(i, Chunk)
  /\ link' = i
  /\ UNCHANGED <<spoolVars, accepted, calm>>

\* The answer: the upload goes on when it counts every event of the chunk
TakeAck ==
  /\ link # NoCall
  /\ call[link] = "acked"
  /\ received[link] = Len(Chunk)
  /\ ChunkAcknowledged(Len(Chunk))
  /\ Close(link)
  /\ link' = NoCall
  /\ UNCHANGED <<busVars, workVars, dbVars, accepted, calm>>

Removed ==
  /\ AcknowledgeBatch \/ \E s \in orphans : AcknowledgeOrphan(s)
  /\ UNCHANGED <<intakeVars, link, accepted, calm>>

\* The agent drops its call.  A handler still at work is not told at once.
Hangup ==
  /\ link' = NoCall
  /\ IF link # NoCall /\ call[link] = "acked"
     THEN Close(link) /\ UNCHANGED <<busVars, workVars, dbVars>>
     ELSE UNCHANGED intakeVars

\* The call failed, timed out or the session was dropped.
UploadStops ==
  /\ calm => link # NoCall /\ call[link] = "free"
  /\ StopUpload
  /\ Hangup
  /\ UNCHANGED <<accepted, calm>>

AgentRestarts ==
  /\ calm => ~collecting
  /\ Reopen
  /\ Hangup
  /\ UNCHANGED <<accepted, calm>>
-----------------------------------------------------------------------------
(* The server.                                                              *)

CallProceeds(i) ==
  /\ Handle(i) \/ Flush(i) \/ SendAck(i)
  /\ UNCHANGED <<spoolVars, link, accepted, calm>>

\* A call the agent gave up ends even when nothing fails
CallBreaks(i) ==
  /\ \/ FlushFails(i) /\ ~calm
     \/ CallEnds(i) /\ (calm => i # link)
  /\ UNCHANGED <<spoolVars, link, accepted, calm>>

LateArrives ==
  /\ \E content \in late : LateStored(content) \/ LateLost(content)
  /\ UNCHANGED <<spoolVars, link, accepted, calm>>

Work(w) ==
  /\ \/ \E k \in DOMAIN bus : Deliver(w, k)
     \/ SkipDuplicate(w) \/ InsertEvent(w) \/ UpsertAlert(w)
     \/ Commit(w) \/ Ack(w)
  /\ UNCHANGED <<spoolVars, link, accepted, calm>>

WorkFails(w) ==
  /\ ~calm
  /\ Rollback(w) \/ AckLost(w)
  /\ UNCHANGED <<spoolVars, link, accepted, calm>>

CalmsDown ==
  /\ ~calm
  /\ calm' = TRUE
  /\ UNCHANGED <<spoolVars, intakeVars, link, accepted>>
-----------------------------------------------------------------------------
AgentStep == \/ Gather \/ Persist \/ PersistRefused \/ PersistFails
             \/ Fetch \/ TakeAck \/ Removed \/ UploadStops \/ AgentRestarts
             \/ \E i \in Call : SendChunk(i)

ServerStep == \/ \E i \in Call : CallProceeds(i) \/ CallBreaks(i)
              \/ LateArrives
              \/ \E w \in Worker : Work(w) \/ WorkFails(w)

Next == AgentStep \/ ServerStep
Spec == Init /\ [][Next]_vars
-----------------------------------------------------------------------------
(* Safety.                                                                  *)

Published == UNION {EventsOf(bus[k].content.events) : k \in DOMAIN bus}

\* An event the spool accepted is in a file a crash leaves, in the stream, or
\* in the database, whatever crashes, times out, is sent twice or is dropped:
\* a batch leaves the disk only when the stream confirmed all of it.
Kept == accepted \subseteq OnDisk(durable) \union Published \union stored

\* Of two accepted events the one collected later is not in the database
\* before the other: chunks, messages and redeliveries never overtake, as
\* docs/deployment.md:404 says of the events of one asset.
InOrder == \A d, e \in accepted : d < e /\ e \in stored => d \in stored

\* The counts of a list of alerts are added up as the size of a set: a pair for
\* each hit that an alert counts
Units(list)   == UNION {{<<k, n>> : n \in 1..list[k].count} : k \in DOMAIN list}
CountOf(list) == Cardinality(Units(list))
Counts        == CountOf(alerts["asset"]) + CountOf(alerts["agent"])

\* However often an event is delivered, and to however many nodes at once, it
\* is counted in the alerts once, in the transaction that stored it.
CountedOnce == Counts = Cardinality(stored \intersect Hit)

\* What is still somewhere on its way, whether it was accepted or not
Held ==
  UNION ({EventsOf(batch), OnDisk(files), OnDisk(durable), EventsOf(load), Published, stored}
         \union {EventsOf(todo[i]) \union {queued[i][k].event : k \in DOMAIN queued[i]} : i \in Call}
         \union {EventsOf(c.events) : c \in late}
         \union {EventsOf(EventsAt(w)) : w \in Worker})

Log == INSTANCE EventLog WITH lost    <- 1..taken \ Held,
                              counted <- Counts

\* The pipeline implements EventLog: nothing accepted is lost, accepted events
\* are stored in order and each hit is counted once.  The order needs the
\* look-up of the asset not to fail.
LogSpec == Log!LogSpec

\* docs/detection.md:18: within the window, one row for a fingerprint.  Said of
\* events that come in the order of their times: upsertAlert knows the last
\* alert only.
OneRowPerWindow ==
  \A s \in Shard : \A j, k \in DOMAIN alerts[s] :
    j # k /\ alerts[s][j].first <= alerts[s][k].first
      => alerts[s][k].first >= alerts[s][j].first + Window
-----------------------------------------------------------------------------
(* Liveness.                                                                *)

Fairness ==
  /\ WF_vars(Persist) /\ WF_vars(Fetch) /\ WF_vars(TakeAck) /\ WF_vars(Removed)
  /\ WF_vars(UploadStops)
  /\ WF_vars(\E i \in Call : SendChunk(i))
  /\ \A i \in Call : WF_vars(CallProceeds(i)) /\ WF_vars(CallBreaks(i))
  /\ \A w \in Worker : WF_vars(Work(w))

FairSpec == Init /\ [][Next \/ CalmsDown]_vars /\ Fairness

\* Once nothing fails any more, every event that was accepted, or that waits
\* for room in the spool, comes into the database: no row or advisory lock, no
\* leftover call, late publication or redelivery holds it back for ever.
AllStored ==
  \A e \in Event :
    calm /\ e \in accepted \union EventsOf(batch) ~> e \in stored
=============================================================================

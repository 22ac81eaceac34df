----------------------------- MODULE AgentSpool -----------------------------
(***************************************************************************)
(* The agent's event queue on disk (spool::Spool) with the task that fills *)
(* it (delivery::collect, persist) and the loop that empties it            *)
(* (delivery::upload).  A batch is a file; the process's index of the      *)
(* directory is the directory itself, as both change together.             *)
(*                                                                         *)
(* Every access to the spool runs to its end on a blocking thread under    *)
(* one mutex; the upload that asked for it may have been dropped meanwhile.*)
(* A crash may lose any change since the directory was last synced.        *)
(***************************************************************************)
EXTENDS AgentEvents

CONSTANTS BatchEvents,  \* events_max: a batch this long is persisted at once
          Limit,        \* the spool's capacity, here in events
          DiskFails,    \* the disk may fail a write or a sync
          MaxRestarts,  \* bound on restarts of the process
          MaxRepeats    \* bound on appends repeated after a failed sync

ASSUME SpoolAssumption == /\ BatchEvents \in Nat \ {0}
                          /\ Limit \in Nat \ {0}
                          /\ BatchEvents <= Limit
                          /\ DiskFails \in BOOLEAN
                          /\ MaxRestarts \in Nat
                          /\ MaxRepeats \in Nat

VARIABLES taken,        \* events received by the collector so far
          batch,        \* those not on disk yet, in order
          blocked,      \* persist waits for room; nothing is received
          collecting,   \* the collector's task is alive
          files,        \* files[s]: the batch with sequence number s
          durable,      \* the files a crash is sure to leave
          next,         \* the next sequence number
          uploading,    \* the batch upload is busy with, or None
          load,         \* its events
          sent,         \* how many of them the server acknowledged
          acking,       \* its acknowledge() was asked for
          orphans,      \* acknowledge() calls of uploads dropped meanwhile
          restarts,     \* restarts so far
          repeats       \* appends repeated so far

collectVars == <<taken, batch, blocked, collecting>>
diskVars    == <<files, durable, next>>
uploadVars  == <<uploading, load, sent, acking, orphans>>
faultVars   == <<restarts, repeats>>
spoolVars   == <<collectVars, diskVars, uploadVars, faultVars>>

SeqNos == 0..MaxEvents + MaxRepeats
None   == MaxEvents + MaxRepeats + 1

\* The events of a directory
OnDisk(dir) == UNION {EventsOf(dir[s]) : s \in DOMAIN dir}

Without(dir, s) == [t \in DOMAIN dir \ {s} |-> dir[t]]
With(dir, s, b) == [t \in DOMAIN dir \union {s} |-> IF t = s THEN b ELSE dir[t]]

\* Mutant: the newest batch
IsBack(s) == s \in DOMAIN files /\ \A t \in DOMAIN files : t <= s

\* Spool::front: the oldest batch
IsFront(s) == s \in DOMAIN files /\ \A t \in DOMAIN files : s <= t

SpoolTypeOK ==
  /\ taken \in 0..MaxEvents
  /\ batch \in Seq(Event)
  /\ blocked \in BOOLEAN
  /\ collecting \in BOOLEAN
  /\ DOMAIN files \subseteq SeqNos
  /\ \A s \in DOMAIN files : files[s] \in Seq(Event)
  /\ DOMAIN durable \subseteq SeqNos
  /\ \A s \in DOMAIN durable : durable[s] \in Seq(Event)
  /\ next \in SeqNos
  /\ uploading \in SeqNos \union {None}
  /\ load \in Seq(Event)
  /\ sent \in 0..Len(load)
  /\ acking \in BOOLEAN
  /\ orphans \subseteq SeqNos
  /\ restarts \in 0..MaxRestarts
  /\ repeats \in 0..MaxRepeats

SpoolInit ==
  /\ taken = 0
  /\ batch = <<>>
  /\ blocked = FALSE
  /\ collecting = TRUE
  /\ files = << >>
  /\ durable = << >>
  /\ next = 0
  /\ uploading = None
  /\ load = <<>>
  /\ sent = 0
  /\ acking = FALSE
  /\ orphans = {}
  /\ restarts = 0
  /\ repeats = 0
-----------------------------------------------------------------------------
(* delivery::collect.  A full batch is persisted before the next event is   *)
(* received; a shorter one when its time is up.                             *)

Collect ==
  /\ collecting
  /\ ~blocked
  /\ taken < MaxEvents
  /\ Len(batch) < BatchEvents
  /\ taken' = taken + 1
  /\ batch' = Append(batch, taken + 1)
  /\ UNCHANGED <<blocked, collecting, diskVars, uploadVars, faultVars>>

Used == MapThenSumSet(LAMBDA s : Len(files[s]), DOMAIN files)

Room == Used + Len(batch) <= Limit

\* Spool::append
AppendBatch ==
  /\ collecting
  /\ batch # <<>>
  /\ Room
  /\ files' = With(files, next, batch)
  /\ durable' = files'
  /\ next' = next + 1
  /\ batch' = <<>>
  /\ blocked' = FALSE
  /\ UNCHANGED <<taken, collecting, uploadVars, faultVars>>

\* StorageFull: the batch is kept and tried again, nothing old is evicted.
\* The disk itself may be full too, even as late as in syncing the directory:
\* then the batch is in place and will be there twice.
AppendRefused ==
  /\ collecting
  /\ batch # <<>>
  /\ \/ UNCHANGED <<diskVars, repeats>> /\ (Room => DiskFails)
     \/ /\ DiskFails
        /\ Room
        /\ repeats < MaxRepeats
        /\ repeats' = repeats + 1
        /\ files' = With(files, next, batch)
        /\ next' = next + 1
        /\ UNCHANGED durable
  /\ blocked' = TRUE
  /\ UNCHANGED <<taken, batch, collecting, uploadVars, restarts>>

\* Any other error ends the collector, and soon the process.  When only the
\* directory could not be synced the batch is in place and may be uploaded.
AppendFails ==
  /\ DiskFails
  /\ collecting
  /\ batch # <<>>
  /\ Room
  /\ \/ UNCHANGED diskVars
     \/ /\ files' = With(files, next, batch)
        /\ next' = next + 1
        /\ UNCHANGED durable
  /\ collecting' = FALSE
  /\ batch' = <<>>
  /\ blocked' = FALSE
  /\ UNCHANGED <<taken, uploadVars, faultVars>>
-----------------------------------------------------------------------------
(* delivery::upload.                                                        *)

\* Mutant: goes on counting where the last upload stopped
IdleAsSent == /\ uploading' = None
              /\ load' = <<>>
              /\ acking' = FALSE
              /\ UNCHANGED sent

Idle == /\ uploading' = None
        /\ load' = <<>>
        /\ sent' = 0
        /\ acking' = FALSE

TakeFront(s) ==
  /\ uploading = None
  /\ IsFront(s)
  /\ uploading' = s
  /\ load' = files[s]
  /\ UNCHANGED <<sent, acking, orphans, collectVars, diskVars, faultVars>>

\* The server acknowledged the next n events of the batch
ChunkAcknowledged(n) ==
  /\ uploading # None
  /\ ~acking
  /\ sent' = sent + n
  /\ acking' = (sent' = Len(load))
  /\ UNCHANGED <<uploading, load, orphans, collectVars, diskVars, faultVars>>

\* Removes the front; the directory may fail to sync
Remove(s) ==
  /\ files' = Without(files, s)
  /\ \/ durable' = files'
     \/ DiskFails /\ UNCHANGED durable
  /\ UNCHANGED next

\* Spool::acknowledge: only the oldest batch, and only the one that was sent
AcknowledgeFront(s) == IF IsFront(s) THEN Remove(s) ELSE UNCHANGED diskVars

AcknowledgeBatch ==
  /\ acking
  /\ AcknowledgeFront(uploading)
  /\ Idle
  /\ UNCHANGED <<orphans, collectVars, faultVars>>

\* An upload that was dropped had asked for it
AcknowledgeOrphan(s) ==
  /\ s \in orphans
  /\ AcknowledgeFront(s)
  /\ orphans' = orphans \ {s}
  /\ UNCHANGED <<uploading, load, sent, acking, collectVars, faultVars>>

\* The call failed, or the session ended: the batch is sent again from its start
StopUpload ==
  /\ uploading # None
  /\ orphans' = IF acking THEN orphans \union {uploading} ELSE orphans
  /\ Idle
  /\ UNCHANGED <<collectVars, diskVars, faultVars>>
-----------------------------------------------------------------------------
\* Each change since the last sync survives the crash or does not
Survivors ==
  {[s \in S |-> IF s \in DOMAIN files THEN files[s] ELSE durable[s]] :
     S \in {T \in SUBSET (DOMAIN durable \union DOMAIN files) :
              DOMAIN durable \intersect DOMAIN files \subseteq T}}

\* Mutant: numbering starts over
NextAgain(dir) == 0

NextAfter(dir) == IF dir = << >> THEN 0
                  ELSE 1 + CHOOSE s \in DOMAIN dir : \A t \in DOMAIN dir : t <= s

\* The process dies or exits, and Spool::open finds what is left
Reopen ==
  /\ restarts < MaxRestarts
  /\ restarts' = restarts + 1
  /\ files' \in Survivors
  /\ durable' = files'
  /\ next' = NextAfter(files')
  /\ batch' = <<>>
  /\ blocked' = FALSE
  /\ collecting' = TRUE
  /\ Idle
  /\ orphans' = {}
  /\ UNCHANGED <<taken, repeats>>
=============================================================================

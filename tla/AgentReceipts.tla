--------------------------- MODULE AgentReceipts ---------------------------
(***************************************************************************)
(* The agent half of the command channel: the receipt store                *)
(* (receipts::Receipts) and the tasks that run commands (main::run_command *)
(* under main::command_loop).  A record is written before a command runs   *)
(* and rewritten with its result; only a result that is safely on disk is  *)
(* reported, and only an acknowledged one is forgotten.                    *)
(*                                                                         *)
(* Steps on the store run on a blocking thread under the spool mutex, so   *)
(* each is one action; the task that asked for it may have been dropped    *)
(* meanwhile.  A crash may lose a change whose directory was not synced.   *)
(***************************************************************************)
EXTENDS ResponseCommands, Naturals, FiniteSets

CONSTANTS MaxRecords,   \* capacity of the store
          MaxRestarts   \* bound on restarts of the agent process

ASSUME ReceiptsAssumption == /\ MaxRecords \in Nat \ {0}
                             /\ MaxRestarts \in Nat

VARIABLES run,          \* where the run of c stands
          attached,     \* commands whose run_command future is alive
          record,       \* the record in the store and in its directory
          durable,      \* the record a crash is sure to leave
          ready,        \* commands whose result may be reported
          started,      \* how often the action of c was begun on this host
          outcome,      \* how it ended, "none" so far
          forgotten,    \* commands whose record was acknowledged or rejected
          restarts      \* restarts of the agent so far

storeVars    == <<record, durable, ready, forgotten>>
hostVars     == <<started, outcome>>
receiptsVars == <<run, attached, storeVars, hostVars, restarts>>

Records == {"none", "reserved"} \union Results

ReceiptsTypeOK ==
  /\ run \in [Cmd -> {"none", "reserving", "reserved", "running", "saving",
                      "backoff"}]
  /\ attached \subseteq Cmd
  /\ record \in [Cmd -> Records]
  /\ durable \in [Cmd -> Records]
  /\ ready \subseteq Cmd
  /\ started \in [Cmd -> Nat]
  /\ outcome \in [Cmd -> {"none"} \union Results]
  /\ forgotten \subseteq Cmd
  /\ restarts \in Nat

ReceiptsInit ==
  /\ run = [c \in Cmd |-> "none"]
  /\ attached = {}
  /\ record = [c \in Cmd |-> "none"]
  /\ durable = [c \in Cmd |-> "none"]
  /\ ready = {}
  /\ started = [c \in Cmd |-> 0]
  /\ outcome = [c \in Cmd |-> "none"]
  /\ forgotten = {}
  /\ restarts = 0
-----------------------------------------------------------------------------
Stored == {c \in Cmd : record[c] # "none"}

\* The stream loop awaits every command but exec before it reads the next
InlineBusy == attached \subseteq Exec

\* run_command begins: the reservation goes to a blocking thread
Accept(c) ==
  /\ run[c] = "none"
  /\ c \notin Exec => InlineBusy
  /\ run' = [run EXCEPT ![c] = "reserving"]
  /\ attached' = attached \union {c}
  /\ UNCHANGED <<storeVars, hostVars, restarts>>

Stop(c) == /\ run' = [run EXCEPT ![c] = "none"]
           /\ attached' = attached \ {c}

\* Mutant: runs the command before the record is synced
ReserveUnsynced(c) ==
  /\ run[c] = "reserving"
  /\ record[c] = "none"
  /\ Cardinality(Stored) < MaxRecords
  /\ record' = [record EXCEPT ![c] = "reserved"]
  /\ IF c \in attached
     THEN run' = [run EXCEPT ![c] = "reserved"] /\ UNCHANGED attached
     ELSE Stop(c)
  /\ UNCHANGED <<durable, ready, forgotten, hostVars, restarts>>

\* Mutant: overwrites the record of a command that already has one
ReserveAgain(c) ==
  /\ run[c] = "reserving"
  /\ record' = [record EXCEPT ![c] = "reserved"]
  /\ durable' = [durable EXCEPT ![c] = "reserved"]
  /\ IF c \in attached
     THEN run' = [run EXCEPT ![c] = "reserved"] /\ UNCHANGED attached
     ELSE Stop(c)
  /\ UNCHANGED <<ready, forgotten, hostVars, restarts>>

\* Receipts.reserve: the record is on disk; a dropped future never runs it
Reserve(c) ==
  /\ run[c] = "reserving"
  /\ record[c] = "none"
  /\ Cardinality(Stored) < MaxRecords
  /\ record' = [record EXCEPT ![c] = "reserved"]
  /\ durable' = [durable EXCEPT ![c] = "reserved"]
  /\ IF c \in attached
     THEN run' = [run EXCEPT ![c] = "reserved"] /\ UNCHANGED attached
     ELSE Stop(c)
  /\ UNCHANGED <<ready, forgotten, hostVars, restarts>>

\* The command already has a record: not run again
Duplicate(c) ==
  /\ run[c] = "reserving"
  /\ record[c] # "none"
  /\ Stop(c)
  /\ UNCHANGED <<storeVars, hostVars, restarts>>

\* The store is full, or the record could not be written: not run.  When only
\* the directory sync failed the record stays behind, possibly not durable.
ReserveFails(c) ==
  /\ run[c] = "reserving"
  /\ record[c] = "none"
  /\ \/ UNCHANGED record
     \/ /\ Cardinality(Stored) < MaxRecords
        /\ record' = [record EXCEPT ![c] = "reserved"]
  /\ Stop(c)
  /\ UNCHANGED <<durable, ready, forgotten, hostVars, restarts>>

\* respond::execute, which changes the host
Start(c) ==
  /\ run[c] = "reserved"
  /\ run' = [run EXCEPT ![c] = "running"]
  /\ started' = [started EXCEPT ![c] = @ + 1]
  /\ UNCHANGED <<attached, storeVars, outcome, restarts>>

Perform(c, r) ==
  /\ run[c] = "running"
  /\ run' = [run EXCEPT ![c] = "saving"]
  /\ outcome' = [outcome EXCEPT ![c] = r]
  /\ UNCHANGED <<attached, storeVars, started, restarts>>

\* Receipts.finish: the result is on disk and may be reported
Finish(c) ==
  /\ run[c] = "saving"
  /\ record[c] \in {"reserved", outcome[c]}
  /\ record' = [record EXCEPT ![c] = outcome[c]]
  /\ durable' = [durable EXCEPT ![c] = outcome[c]]
  /\ ready' = ready \union {c}
  /\ Stop(c)
  /\ UNCHANGED <<forgotten, hostVars, restarts>>

\* The result could not be written, or its directory not synced.  The future
\* keeps the result and tries again; a dropped one loses it.
FinishFails(c) ==
  /\ run[c] = "saving"
  /\ \/ UNCHANGED record
     \/ record' = [record EXCEPT ![c] = outcome[c]]
  /\ IF c \in attached
     THEN run' = [run EXCEPT ![c] = "backoff"] /\ UNCHANGED attached
     ELSE Stop(c)
  /\ UNCHANGED <<durable, ready, forgotten, hostVars, restarts>>

\* Mutant: what is tried again is the whole command
RunAgain(c) ==
  /\ run[c] = "backoff"
  /\ run' = [run EXCEPT ![c] = "reserved"]
  /\ UNCHANGED <<attached, storeVars, hostVars, restarts>>

FinishAgain(c) ==
  /\ run[c] = "backoff"
  /\ run' = [run EXCEPT ![c] = "saving"]
  /\ UNCHANGED <<attached, storeVars, hostVars, restarts>>

\* commands.abort(): the session ends (the event upload broke, or the server
\* offered a new version or configuration).  A future is dropped at its next
\* await: what a blocking thread or the action itself is doing goes on, what
\* has yet to be asked for is not.  Exec runs in a task of its own.
AbortSession ==
  LET Dropped(c) == c \in attached \ Exec IN
  /\ run' = [c \in Cmd |-> IF Dropped(c) /\ run[c] \in {"reserved", "backoff"}
                           THEN "none" ELSE run[c]]
  /\ attached' = attached \intersect Exec
  /\ UNCHANGED <<storeVars, hostVars, restarts>>

\* The server acknowledged the result: Receipts.acknowledge.  A record whose
\* removal was not synced can come back after a crash.
Acknowledge(c) ==
  /\ c \in ready
  /\ record' = [record EXCEPT ![c] = "none"]
  /\ durable' \in {durable, [durable EXCEPT ![c] = "none"]}
  /\ ready' = ready \ {c}
  /\ forgotten' = forgotten \union {c}
  /\ UNCHANGED <<run, attached, hostVars, restarts>>

\* The server does not know the command: Receipts.reject quarantines it
Reject(c) ==
  /\ c \in ready
  /\ record' = [record EXCEPT ![c] = "none"]
  /\ durable' = [durable EXCEPT ![c] = "none"]
  /\ ready' = ready \ {c}
  /\ forgotten' = forgotten \union {c}
  /\ UNCHANGED <<run, attached, hostVars, restarts>>

\* Mutant: a record without a result is opened as a failure
RestartAsFailed ==
  /\ restarts < MaxRestarts
  /\ restarts' = restarts + 1
  /\ run' = [c \in Cmd |-> "none"]
  /\ attached' = {}
  /\ record' = [c \in Cmd |-> IF record[c] = "reserved" THEN "failed"
                              ELSE record[c]]
  /\ durable' = record'
  /\ ready' = {c \in Cmd : record'[c] # "none"}
  /\ UNCHANGED <<forgotten, hostVars>>

\* Mutant: only records with a result are reported after a restart
RestartSkipsUnfinished ==
  /\ restarts < MaxRestarts
  /\ restarts' = restarts + 1
  /\ run' = [c \in Cmd |-> "none"]
  /\ attached' = {}
  /\ UNCHANGED <<record, forgotten, hostVars>>
  /\ durable' = record
  /\ ready' = {c \in Cmd : record[c] \in Results}

\* The process dies or exits and starts again: Receipts.open.  Every record
\* found is ready; one without a result is reported as "result unknown".
Restart ==
  /\ restarts < MaxRestarts
  /\ restarts' = restarts + 1
  /\ run' = [c \in Cmd |-> "none"]
  /\ attached' = {}
  /\ \E lost \in SUBSET {c \in Cmd : record[c] # durable[c]} :
       record' = [c \in Cmd |-> IF c \in lost THEN durable[c] ELSE record[c]]
  /\ durable' = record'
  /\ ready' = {c \in Cmd : record'[c] # "none"}
  /\ UNCHANGED <<forgotten, hostVars>>
-----------------------------------------------------------------------------
RunStep(c) == \/ Reserve(c) \/ Duplicate(c) \/ ReserveFails(c) \/ Start(c)
              \/ \E r \in Results : Perform(c, r)
              \/ Finish(c) \/ FinishFails(c) \/ FinishAgain(c)

\* The store under a server that may send any command any number of times
ReceiptsNext == \/ \E c \in Cmd : \/ Accept(c) \/ RunStep(c)
                                  \/ Acknowledge(c) \/ Reject(c)
                \/ AbortSession
                \/ Restart

ReceiptsSpec == ReceiptsInit /\ [][ReceiptsNext]_receiptsVars
-----------------------------------------------------------------------------
\* A command is begun again only after its receipt was acknowledged or
\* rejected: until then the record suppresses every further delivery, through
\* crashes and failed writes (receipts.rs reserve, main.rs run_command).
OnceUntilForgotten == \A c \in Cmd : started[c] > 1 => c \in forgotten

\* While the action runs or its result is unsaved, a crash is sure to leave a
\* record that reports it (receipts.rs: reserve before execute, open).
RunsAreRecorded ==
  \A c \in Cmd : run[c] \in {"reserved", "running", "saving", "backoff"} =>
                   durable[c] # "none"

\* The store never claims a result the host did not have: a ready record is
\* the action's own outcome, or says that the result is unknown.
ReadyIsTrue ==
  \A c \in ready : record[c] \in {"reserved", outcome[c]}
=============================================================================

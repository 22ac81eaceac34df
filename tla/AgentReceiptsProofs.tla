------------------------ MODULE AgentReceiptsProofs ------------------------
(***************************************************************************)
(* TLAPS proofs about AgentReceipts on its own, under a server that sends  *)
(* any command any number of times, for every set of commands and every    *)
(* capacity of the store.                                                  *)
(***************************************************************************)
EXTENDS AgentReceipts, TLAPS

USE ReceiptsAssumption, CommandsAssumption DEF Results, Records

\* The action of c may still run, or its result has yet to be saved
Active(c) == run[c] \in {"reserved", "running", "saving", "backoff"}

\* What the store holds, and what a crash leaves, is true of the host
RecordsAreTrue ==
  \A c \in Cmd : /\ record[c] \in {"none", "reserved", outcome[c]}
                 /\ durable[c] \in {"none", "reserved", outcome[c]}

\* A command whose action may still run has a record without a result, and is
\* not reported; one whose result is being saved may have it already
ActiveIsReserved ==
  \A c \in Cmd : Active(c) =>
    /\ c \notin ready
    /\ durable[c] = "reserved"
    /\ record[c] # "none"
    /\ run[c] \in {"reserved", "running"} => record[c] = "reserved"
    /\ run[c] \in {"saving", "backoff"} => outcome[c] # "none"

ReadyIsRecorded == \A c \in ready : record[c] # "none"

\* A command that was begun leaves a record until it is acknowledged or rejected
BegunIsRecorded ==
  \A c \in Cmd : c \notin forgotten =>
    /\ started[c] \in {0, 1}
    /\ started[c] = 1 => /\ record[c] # "none" /\ durable[c] # "none"
                         /\ run[c] # "reserved"

IInv == /\ ReceiptsTypeOK
        /\ RecordsAreTrue
        /\ ActiveIsReserved
        /\ ReadyIsRecorded
        /\ BegunIsRecorded

USE DEF Active

\* The store is empty and nothing was begun
LEMMA InitInv == ReceiptsInit => IInv
BY DEF ReceiptsInit, IInv, ReceiptsTypeOK, RecordsAreTrue, ActiveIsReserved,
       ReadyIsRecorded, BegunIsRecorded

USE DEF storeVars, hostVars, Stop

\* Every step of a run, of the store, of the session and of a crash keeps it
LEMMA NextInv == IInv /\ [ReceiptsNext]_receiptsVars => IInv'
<1> SUFFICES ASSUME IInv, [ReceiptsNext]_receiptsVars PROVE IInv'
  OBVIOUS
<1> USE DEF IInv, ReceiptsTypeOK, RecordsAreTrue, ActiveIsReserved,
            ReadyIsRecorded, BegunIsRecorded
<1>1. ASSUME NEW c \in Cmd, Accept(c) PROVE IInv'
  BY <1>1 DEF Accept
<1>2. ASSUME NEW c \in Cmd, Reserve(c) PROVE IInv'
  BY <1>2 DEF Reserve
<1>3. ASSUME NEW c \in Cmd, Duplicate(c) PROVE IInv'
  BY <1>3 DEF Duplicate
<1>4. ASSUME NEW c \in Cmd, ReserveFails(c) PROVE IInv'
  BY <1>4 DEF ReserveFails
<1>5. ASSUME NEW c \in Cmd, Start(c) PROVE IInv'
  BY <1>5 DEF Start
<1>6. ASSUME NEW c \in Cmd, Finish(c) PROVE IInv'
  BY <1>6 DEF Finish
<1>7. ASSUME NEW c \in Cmd, FinishFails(c) PROVE IInv'
  BY <1>7 DEF FinishFails
<1>8. ASSUME NEW c \in Cmd, FinishAgain(c) PROVE IInv'
  BY <1>8 DEF FinishAgain
<1>9. ASSUME NEW c \in Cmd, Acknowledge(c) PROVE IInv'
  BY <1>9 DEF Acknowledge
<1>10. ASSUME NEW c \in Cmd, Reject(c) PROVE IInv'
  BY <1>10 DEF Reject
<1>11. ASSUME NEW c \in Cmd, NEW r \in Results, Perform(c, r) PROVE IInv'
  BY <1>11 DEF Perform
<1>12. ASSUME AbortSession PROVE IInv'
  BY <1>12 DEF AbortSession
<1>13. ASSUME Restart PROVE IInv'
  BY <1>13 DEF Restart
<1>14. CASE UNCHANGED receiptsVars
  BY <1>14 DEF receiptsVars
<1> QED
  BY <1>1, <1>2, <1>3, <1>4, <1>5, <1>6, <1>7, <1>8, <1>9, <1>10, <1>11,
     <1>12, <1>13, <1>14
  DEF ReceiptsNext, RunStep

\* The inductive invariant holds throughout
LEMMA SpecInv == ReceiptsSpec => []IInv
BY InitInv, NextInv, PTL DEF ReceiptsSpec

\* The store, the tasks and the host's own state keep their types
THEOREM ReceiptsTypeCorrect == ReceiptsSpec => []ReceiptsTypeOK
<1>1. IInv => ReceiptsTypeOK
  BY DEF IInv
<1> QED
  BY SpecInv, <1>1, PTL

\* However often the server sends a command, whatever write or sync fails and
\* wherever the process dies, its action is begun a second time only after
\* the server acknowledged or rejected its receipt (receipts.rs reserve and
\* open, main.rs run_command).
THEOREM BegunOnceUntilForgotten == ReceiptsSpec => []OnceUntilForgotten
<1>1. IInv => OnceUntilForgotten
  BY DEF IInv, BegunIsRecorded, OnceUntilForgotten
<1> QED
  BY SpecInv, <1>1, PTL

\* From the moment a command may act until its result is saved, a crash leaves
\* a record of it for the next process to report (receipts.rs open).
THEOREM EveryRunIsRecorded == ReceiptsSpec => []RunsAreRecorded
<1>1. IInv => RunsAreRecorded
  BY DEF IInv, ActiveIsReserved, RunsAreRecorded
<1> QED
  BY SpecInv, <1>1, PTL

\* What the agent reports of a command is what its action ended with, or that
\* the result is unknown, whatever a crash undid (receipts.rs finish, open).
THEOREM OnlyTrueResultsAreReady == ReceiptsSpec => []ReadyIsTrue
<1>1. IInv => ReadyIsTrue
  BY DEF IInv, RecordsAreTrue, ReadyIsRecorded, ReadyIsTrue, ReceiptsTypeOK
<1> QED
  BY SpecInv, <1>1, PTL
=============================================================================

---------------------------- MODULE Leadership ----------------------------
(***************************************************************************)
(* cluster.RunLeader: one background task of the cluster on one node at a  *)
(* time, by a PostgreSQL advisory lock that belongs to a connection.       *)
(* The database drops the lock with the connection at once; the node       *)
(* learns of it with its next ping, and until then works on.               *)
(***************************************************************************)
EXTENDS FiniteSets, Naturals

CONSTANTS Node, NoNode,
          MaxFaults     \* bound on connections lost and nodes that die

ASSUME LeaderAssumption == NoNode \notin Node /\ MaxFaults \in Nat

VARIABLES holder,       \* whose connection has the lock
          leading,      \* "yes": the task runs; "stopping": its context is cancelled
          torn,         \* nodes that lost the connection while they led (history)
          lost,         \* there ever was one (history)
          faults

leaderVars == <<holder, leading, torn, lost, faults>>

LeaderTypeOK ==
  /\ holder \in Node \union {NoNode}
  /\ leading \in [Node -> {"no", "yes", "stopping"}]
  /\ torn \subseteq Node
  /\ lost \in BOOLEAN
  /\ faults \in 0..MaxFaults

LeaderInit ==
  /\ holder = NoNode
  /\ leading = [n \in Node |-> "no"]
  /\ torn = {}
  /\ lost = FALSE
  /\ faults = 0

Acquire(n) ==
  /\ leading[n] = "no"
  /\ holder = NoNode
  /\ holder' = n
  /\ leading' = [leading EXCEPT ![n] = "yes"]
  /\ UNCHANGED <<torn, lost, faults>>

ConnectionLost ==
  /\ faults < MaxFaults
  /\ faults' = faults + 1
  /\ holder # NoNode
  /\ holder' = NoNode
  /\ torn' = torn \union {holder}
  /\ lost' = TRUE
  /\ UNCHANGED leading

\* Mutant: gives the lock back before the task has returned
CancelAndRelease(n) ==
  /\ leading[n] = "yes"
  /\ leading' = [leading EXCEPT ![n] = "stopping"]
  /\ holder' = IF holder = n THEN NoNode ELSE holder
  /\ UNCHANGED <<torn, lost, faults>>

\* The ping failed, or the process is told to end
CancelTask(n) ==
  /\ leading[n] = "yes"
  /\ leading' = [leading EXCEPT ![n] = "stopping"]
  /\ UNCHANGED <<holder, torn, lost, faults>>

\* The task has returned: <-done, then the lock is given back
StepDown(n) ==
  /\ leading[n] = "stopping"
  /\ leading' = [leading EXCEPT ![n] = "no"]
  /\ holder' = IF holder = n THEN NoNode ELSE holder
  /\ torn' = torn \ {n}
  /\ UNCHANGED <<lost, faults>>

Die(n) ==
  /\ leading' = [leading EXCEPT ![n] = "no"]
  /\ holder' = IF holder = n THEN NoNode ELSE holder
  /\ faults < MaxFaults
  /\ faults' = faults + 1
  /\ torn' = torn \ {n}
  /\ UNCHANGED lost

\* The task runs on one node at a time, its last steps after a cancellation
\* included, but for a node that does not know yet that it lost its connection.
OneLeader == Cardinality({n \in Node : leading[n] # "no" /\ n \notin torn}) <= 1
=============================================================================

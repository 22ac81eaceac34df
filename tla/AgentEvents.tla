---------------------------- MODULE AgentEvents ----------------------------
(* The events of one agent, numbered in the order its collector got them.   *)
EXTENDS Naturals, Sequences, FiniteSetsExt

CONSTANT MaxEvents    \* bound on events collected
ASSUME EventsAssumption == MaxEvents \in Nat

Event == 1..MaxEvents

\* The events of a batch, of a chunk, of a message
EventsOf(b) == {b[i] : i \in DOMAIN b}
=============================================================================

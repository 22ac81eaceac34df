----------------------------- MODULE EventLog -----------------------------
(***************************************************************************)
(* What the event pipeline promises for one agent.  An event that was      *)
(* accepted, by a durable write on the agent, is never lost; accepted      *)
(* events reach the database in the order they were collected, and each    *)
(* one that a rule hits is counted in exactly one alert.                   *)
(***************************************************************************)
EXTENDS AgentEvents

CONSTANT Hit          \* events a rule hits

VARIABLES taken,        \* events collected so far
          accepted,     \* those written durably on the agent
          lost,         \* those no part of the system holds any more
          stored,       \* those in the database
          counted       \* the sum of the alerts' counts

logVars == <<taken, accepted, lost, stored, counted>>

LogInit ==
  /\ taken = 0
  /\ accepted = {}
  /\ lost = {}
  /\ stored = {}
  /\ counted = 0

Take ==
  /\ taken < MaxEvents
  /\ taken' = taken + 1
  /\ UNCHANGED <<accepted, lost, stored, counted>>

Accept(events) ==
  /\ events \subseteq 1..taken \ (accepted \union lost)
  /\ accepted' = accepted \union events
  /\ UNCHANGED <<taken, lost, stored, counted>>

Lose(events) ==
  /\ events \subseteq 1..taken \ (accepted \union stored)
  /\ lost' = lost \union events
  /\ UNCHANGED <<taken, accepted, stored, counted>>

\* An event that was never accepted may come late, an accepted one not
StoreAll(events) ==
  /\ events \subseteq 1..taken \ (lost \union stored)
  /\ \A e \in events, d \in accepted : d < e => d \in stored \union events
  /\ stored' = stored \union events
  /\ counted' = counted + Cardinality(events \intersect Hit)
  /\ UNCHANGED <<taken, accepted, lost>>

LogNext == \/ Take
           \/ \E events \in SUBSET Event :
                Accept(events) \/ Lose(events) \/ StoreAll(events)

LogSpec == LogInit /\ [][LogNext]_logVars
=============================================================================

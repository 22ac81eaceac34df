---------------------------- MODULE CommandGate ----------------------------
(***************************************************************************)
(* commandgate.Gate for the exec commands of task sessions: authorize,     *)
(* policy, approval (by a person, by the AI reviewer, or by the system for *)
(* what only reads), authorize again, issue.  A session is about one       *)
(* command at a time; an approval whose command was given up, because it   *)
(* was rejected or timed out or its node died, is read by nobody and not   *)
(* kept here.                                                              *)
(***************************************************************************)
EXTENDS TaskSessions

VARIABLES approval,     \* approvals.status for the session's command
          stale         \* sessions that were over when their approval was given (history)

gateVars == <<approval, stale>>

GateTypeOK ==
  /\ approval \in [Session -> {"none", "pending", "approved", "consumed"}]
  /\ stale \subseteq Session

GateInit ==
  /\ approval = [s \in Session |-> "none"]
  /\ stale = {}

\* The first authorize, and the policy: a person's approval is waited for; or none is
\* needed, or the reviewer or the system gives it on the spot (a refusal of theirs
\* is a tool that fails).
Ask(s, as) ==
  /\ Live(s)
  /\ approval[s] = "none"
  /\ as \in {"pending", "consumed"}
  /\ approval' = [approval EXCEPT ![s] = as]
  /\ UNCHANGED stale

\* Gate.Decide, by an admin of the group, who approves
Decide(s) ==
  /\ approval[s] = "pending"
  /\ approval' = [approval EXCEPT ![s] = "approved"]
  /\ stale' = IF Live(s) THEN stale ELSE stale \union {s}

\* await sees the approval and consumes it
Consume(s) ==
  /\ approval[s] = "approved"
  /\ approval' = [approval EXCEPT ![s] = "consumed"]
  /\ UNCHANGED stale

\* Issued, refused, rejected, timed out or cancelled
Leave(s) ==
  /\ approval' = [approval EXCEPT ![s] = "none"]
  /\ stale' = stale \ {s}

\* Mutant: what was approved is issued
AuthorizeNot(s) == TRUE

\* The second authorize
AuthorizeAgain(s) == Live(s)

\* On an approval that was given, and consumed, while the session was alive
InTime(s) == approval[s] = "consumed" /\ s \notin stale
=============================================================================

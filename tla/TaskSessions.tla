--------------------------- MODULE TaskSessions ---------------------------
(***************************************************************************)
(* The sessions in which scheduled tasks run (agent_sessions of kind       *)
(* "task"), with their leases: agentchat/task_lease.go, recovery.go and    *)
(* the end of RunTask.  A session has one executor, which claims it once,  *)
(* renews its lease while it works and says before the first effect of a   *)
(* tool that the session may not be replayed.                              *)
(*                                                                         *)
(* Time is relative.  A lease may run out at any time (the executor is     *)
(* slow, cannot reach the database, or died), the deadline as well.        *)
(***************************************************************************)
EXTENDS Naturals

CONSTANTS Task,         \* a task on a group: what taskrun is unique for, in one round
          MaxSessions

NoTask  == "none"
Session == 1..MaxSessions

ASSUME SessionAssumption == MaxSessions \in Nat \ {0} /\ NoTask \notin Task

VARIABLE session

\* owned: run_owner is set; safe: run_replay_safe; cancelled: cancel_requested_at is
\* set; expired: run_expires_at has passed; late: run_deadline_at has
SessionRow == [status    : {"none", "running", "succeeded", "failed"},
               task      : Task \union {NoTask},
               owned     : BOOLEAN, safe : BOOLEAN,
               cancelled : BOOLEAN, expired : BOOLEAN, late : BOOLEAN]

NoSession == [status |-> "none", task |-> NoTask, owned |-> FALSE, safe |-> FALSE,
              cancelled |-> FALSE, expired |-> FALSE, late |-> FALSE]

SessionTypeOK == session \in [Session -> SessionRow]
SessionInit   == session = [s \in Session |-> NoSession]

Running(s) == session[s].status = "running"
Over(s)    == session[s].status \in {"succeeded", "failed"}
Expired(s) == session[s].expired \/ session[s].late     \* leaseEnd: not after the deadline
Live(s)    == Running(s) /\ ~session[s].cancelled /\ ~Expired(s)

\* Mutant: a cancelled session may be replayed
ReplaySafeAnyway(s) == Over(s) /\ session[s].safe /\ ~session[s].late

\* replaySafeSession
ReplaySafe(s) == Over(s) /\ session[s].safe /\ ~session[s].cancelled /\ ~session[s].late

\* newSession
Create(s, t) ==
  /\ session[s].status = "none"
  /\ session' = [session EXCEPT ![s] = [NoSession EXCEPT !.status = "running", !.task = t,
                                                         !.safe = TRUE]]

\* startTaskLease
MayStart(s) == Running(s) /\ ~session[s].owned /\ ~session[s].cancelled /\ ~session[s].late

StartLease(s) ==
  /\ MayStart(s)
  /\ session' = [session EXCEPT ![s].owned = TRUE, ![s].safe = TRUE, ![s].expired = FALSE]

\* Mutant: checks the lease and writes nothing down
GuardCheck(s) == Live(s) /\ session[s].owned /\ UNCHANGED session

\* guardTool, for a tool that may have an effect
GuardTool(s) ==
  /\ Live(s) /\ session[s].owned
  /\ session' = [session EXCEPT ![s].safe = FALSE]

\* The end of RunTask.  Nobody reads run_owner of a session that is over.
Finish(s, status) ==
  /\ Running(s) /\ session[s].owned
  /\ session' = [session EXCEPT ![s].status = status, ![s].owned = FALSE, ![s].expired = FALSE]

\* Mutant: a status no one knows
CloseAsExpired(s) ==
  /\ Running(s) /\ Expired(s)
  /\ session' = [session EXCEPT ![s].status = "expired"]

\* recoverExpired, the session
CloseExpired(s) ==
  /\ Running(s) /\ Expired(s)
  /\ session' = [session EXCEPT ![s].status = "failed", ![s].owned = FALSE,
                                       ![s].expired = FALSE]

\* Service.Cancel, by a person
Cancel(s) ==
  /\ Running(s) /\ ~session[s].cancelled
  /\ session' = [session EXCEPT ![s].cancelled = TRUE]

Expire(s) ==
  /\ Running(s) /\ ~Expired(s)
  /\ session' = [session EXCEPT ![s].expired = TRUE]

\* It tells only where the session could be run again; elsewhere it is a lease that
\* runs out
DeadlinePasses(s) ==
  /\ session[s].status # "none"
  /\ session[s].safe /\ ~session[s].cancelled /\ ~session[s].late
  /\ session' = [session EXCEPT ![s].late = TRUE, ![s].expired = FALSE]
=============================================================================

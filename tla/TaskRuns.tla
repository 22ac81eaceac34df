----------------------------- MODULE TaskRuns -----------------------------
(***************************************************************************)
(* Scheduled tasks on a cluster: schedule.Scheduler under RunLeader, the   *)
(* executor of a task with its lease, Recover on every node, and the       *)
(* command gate.  A node executes one session at a time                    *)
(* (DefaultMaxRunning).  Every task has one round here, one row of         *)
(* task_runs; a round that was interrupted, or failed without an effect,   *)
(* is run again in a new session.                                          *)
(***************************************************************************)
EXTENDS Leadership, CommandGate

CONSTANT Effectful      \* the tasks that use more than the tools of replaySafeTool

ASSUME EffectfulAssumption == Effectful \subseteq Task

VARIABLES run,          \* task_runs
          job,          \* what the scheduler's goroutine on a node is about
          effects       \* sessions whose tools had an effect (history)

vars == <<leaderVars, session, gateVars, run, job, effects>>

Run == [status : {"none", "running", "succeeded", "failed", "interrupted"},
        session : 0..MaxSessions]

\* again: the session is the second one of execute
Job == [at : {"idle", "begin", "rerun", "start", "work", "guarded", "await", "approved",
              "issue", "final"},
        task : Task \union {NoTask}, s : 0..MaxSessions, again : BOOLEAN, ok : BOOLEAN]

IdleJob == [at |-> "idle", task |-> NoTask, s |-> 0, again |-> FALSE, ok |-> FALSE]

TypeOK ==
  /\ LeaderTypeOK /\ SessionTypeOK /\ GateTypeOK
  /\ run \in [Task -> Run]
  /\ job \in [Node -> Job]
  /\ effects \subseteq Session

Init ==
  /\ LeaderInit /\ SessionInit /\ GateInit
  /\ run = [t \in Task |-> [status |-> "none", session |-> 0]]
  /\ job = [n \in Node |-> IdleJob]
  /\ effects = {}

GoTo(n, at) == job' = [job EXCEPT ![n].at = at]
Rest(n)     == job' = [job EXCEPT ![n] = IdleJob]

\* The context of the scheduler, of which every other here is made
Alive(n) == leading[n] = "yes"
-----------------------------------------------------------------------------
(* collect and launch.                                                      *)

\* Mutant: counts what this node runs
FreeHere == TRUE

\* Scheduler.free, of a node that executes nothing
Free == \A s \in Session : ~Running(s)

CollectDue(n, t) ==
  /\ Alive(n) /\ job[n].at = "idle"
  /\ run[t].status = "none"
  /\ Free
  /\ job' = [job EXCEPT ![n] = [IdleJob EXCEPT !.at = "begin", !.task = t]]
  /\ UNCHANGED <<leaderVars, session, gateVars, run, effects>>

CollectInterrupted(n, t) ==
  /\ Alive(n) /\ job[n].at = "idle"
  /\ run[t].status = "interrupted"
  /\ ReplaySafe(run[t].session)
  /\ Free
  /\ job' = [job EXCEPT ![n] = [IdleJob EXCEPT !.at = "rerun", !.task = t,
                                               !.s = run[t].session]]
  /\ UNCHANGED <<leaderVars, session, gateVars, run, effects>>

\* A session no one had; run t runs in it
Launch(n, t, s) ==
  /\ Create(s, t)
  /\ \A r \in 1..s - 1 : session[r].status # "none"
  /\ run' = [run EXCEPT ![t] = [status |-> "running", session |-> s]]
  /\ job' = [job EXCEPT ![n].at = "start", ![n].s = s]

\* Mutant: no unique index
BeginTwice(n) ==
  /\ job[n].at = "begin"
  /\ \/ Alive(n) /\ \E s \in Session : Launch(n, job[n].task, s)
     \/ Rest(n) /\ UNCHANGED <<session, run>>
  /\ UNCHANGED <<leaderVars, gateVars, effects>>

\* begin: the unique index allows a round once
Begin(n) ==
  LET t == job[n].task IN
  /\ job[n].at = "begin"
  /\ \/ /\ Alive(n) /\ run[t].status = "none"
        /\ \E s \in Session : Launch(n, t, s)
     \/ Rest(n) /\ UNCHANGED <<session, run>>
  /\ UNCHANGED <<leaderVars, gateVars, effects>>

\* rerun: in one transaction, which fails when the run has gone on or the session
\* is not safe to replay
Rerun(n) ==
  LET t == job[n].task IN
  /\ job[n].at = "rerun"
  /\ \/ /\ Alive(n)
        /\ ReplaySafe(job[n].s)
        /\ run[t].session = job[n].s
        /\ run[t].status \in {"failed", "interrupted"}
        /\ \E s \in Session : Launch(n, t, s)
     \/ Rest(n) /\ UNCHANGED <<session, run>>
  /\ UNCHANGED <<leaderVars, gateVars, effects>>
-----------------------------------------------------------------------------
(* RunTask and its tools.                                                   *)

Start(n) ==
  /\ job[n].at = "start"
  /\ \/ StartLease(job[n].s) /\ GoTo(n, "work")
     \/ job' = [job EXCEPT ![n].at = "final", ![n].ok = FALSE] /\ UNCHANGED session
  /\ UNCHANGED <<leaderVars, gateVars, run, effects>>

Guard(n) ==
  /\ job[n].at = "work"
  /\ job[n].task \in Effectful
  /\ GuardTool(job[n].s)
  /\ GoTo(n, "guarded")
  /\ UNCHANGED <<leaderVars, gateVars, run, effects>>

\* A tool that writes: report, remember, track, ...
ToolWrites(n) ==
  /\ job[n].at = "guarded"
  /\ effects' = effects \union {job[n].s}
  /\ GoTo(n, "work")
  /\ UNCHANGED <<leaderVars, session, gateVars, run>>

ToolAsks(n) ==
  /\ job[n].at = "guarded"
  /\ \E as \in {"pending", "consumed"} :
       /\ Ask(job[n].s, as)
       /\ GoTo(n, IF as = "pending" THEN "await" ELSE "approved")
  /\ UNCHANGED <<leaderVars, session, run, effects>>

ToolConsumes(n) ==
  /\ job[n].at = "await"
  /\ Consume(job[n].s)
  /\ GoTo(n, "approved")
  /\ UNCHANGED <<leaderVars, session, run, effects>>

ToolGivesUp(n) ==
  /\ job[n].at = "await"
  /\ Leave(job[n].s)
  /\ GoTo(n, "work")
  /\ UNCHANGED <<leaderVars, session, run, effects>>

ToolChecks(n) ==
  /\ job[n].at = "approved"
  /\ AuthorizeAgain(job[n].s)
  /\ GoTo(n, "issue")
  /\ UNCHANGED <<leaderVars, session, gateVars, run, effects>>

ToolCommands(n) ==
  /\ job[n].at = "issue"
  /\ effects' = effects \union {job[n].s}
  /\ Leave(job[n].s)
  /\ GoTo(n, "work")
  /\ UNCHANGED <<leaderVars, session, run>>

\* Refused, or an error: the model goes on
ToolFails(n) ==
  /\ job[n].at \in {"guarded", "approved", "issue"}
  /\ Leave(job[n].s)
  /\ GoTo(n, "work")
  /\ UNCHANGED <<leaderVars, session, run, effects>>

\* RunTask returns: the report is there, or an error, or a context is cancelled.
\* Success needs the session to be its own still, and the database to say so.
End(n) ==
  /\ job[n].at = "work"
  /\ \E ok \in BOOLEAN :
       /\ job' = [job EXCEPT ![n].at = "final", ![n].ok = ok]
       /\ \/ Finish(job[n].s, "succeeded")
          \/ ~ok /\ Finish(job[n].s, "failed")
          \/ ~ok /\ UNCHANGED session
  /\ UNCHANGED <<leaderVars, gateVars, run, effects>>
-----------------------------------------------------------------------------
(* attempt and execute.                                                     *)

\* Mutant: does not look whose run it is
MineAnyway(n) == run[job[n].task].status = "running"

Mine(n) == run[job[n].task].status = "running" /\ run[job[n].task].session = job[n].s

Outcome(n) == IF job[n].ok THEN "succeeded"
              ELSE IF ~Alive(n) /\ ReplaySafe(job[n].s) THEN "interrupted"
              ELSE "failed"

\* A failure is tried again once, unless the scheduler was told to end
Retries(n) ==
  IF Alive(n) /\ ~job[n].again
  THEN job' = [job EXCEPT ![n].at = "rerun", ![n].again = TRUE, ![n].ok = FALSE]
  ELSE Rest(n)

\* The run ends as the session did
Finalise(n) ==
  LET t == job[n].task IN
  /\ job[n].at = "final"
  /\ Mine(n)
  /\ run' = [run EXCEPT ![t].status = Outcome(n)]
  /\ IF job[n].ok THEN Rest(n) ELSE Retries(n)
  /\ UNCHANGED <<leaderVars, session, gateVars, effects>>

\* Superseded, or not saved, which is a failure like others
FinaliseNot(n) ==
  /\ job[n].at = "final"
  /\ \/ ~Mine(n) /\ Rest(n)
     \/ Retries(n)
  /\ UNCHANGED <<leaderVars, session, gateVars, run, effects>>
-----------------------------------------------------------------------------
(* recoverExpired, on any node.                                             *)

RunOf(s) == {t \in Task : run[t] = [status |-> "running", session |-> s]}

RecoverSession(s) ==
  LET end == IF session[s].safe /\ ~session[s].cancelled /\ ~session[s].late
             THEN "interrupted" ELSE "failed"
  IN /\ CloseExpired(s)
     /\ run' = [t \in Task |-> IF t \in RunOf(s) THEN [run[t] EXCEPT !.status = end] ELSE run[t]]
     /\ UNCHANGED <<leaderVars, gateVars, job, effects>>

\* Mutant: thinks only of sessions that failed
RecoverFailed(t) ==
  /\ run[t].status = "running"
  /\ run[t].session # 0
  /\ session[run[t].session].status = "failed"
  /\ run' = [run EXCEPT ![t].status = "failed"]
  /\ UNCHANGED <<leaderVars, session, gateVars, job, effects>>

\* The session ended a minute ago, nobody ended the run
RecoverRun(t) ==
  /\ run[t].status = "running"
  /\ Over(run[t].session)
  /\ run' = [run EXCEPT ![t].status = "failed"]
  /\ UNCHANGED <<leaderVars, session, gateVars, job, effects>>
-----------------------------------------------------------------------------
(* The world around.                                                        *)

Leads(n) ==
  /\ \/ Acquire(n) /\ job[n].at = "idle"
     \/ CancelTask(n)
     \/ StepDown(n) /\ job[n].at = "idle"
  /\ UNCHANGED <<session, gateVars, run, job, effects>>

NodeDies(n) ==
  /\ Die(n)
  /\ Rest(n)
  /\ IF job[n].s = 0 THEN UNCHANGED gateVars ELSE Leave(job[n].s)
  /\ UNCHANGED <<session, run, effects>>

LosesConnection ==
  /\ ConnectionLost
  /\ UNCHANGED <<session, gateVars, run, job, effects>>

Time(s) ==
  /\ Expire(s) \/ DeadlinePasses(s)
  /\ UNCHANGED <<leaderVars, gateVars, run, job, effects>>

People(s) ==
  /\ \/ Cancel(s) /\ UNCHANGED gateVars
     \/ Decide(s) /\ UNCHANGED session
  /\ UNCHANGED <<leaderVars, run, job, effects>>

Executes(n) ==
  \/ Begin(n) \/ Rerun(n) \/ Start(n) \/ End(n) \/ Finalise(n) \/ FinaliseNot(n)
  \/ Guard(n) \/ ToolWrites(n) \/ ToolAsks(n) \/ ToolConsumes(n) \/ ToolGivesUp(n)
  \/ ToolChecks(n) \/ ToolCommands(n) \/ ToolFails(n)

Recovers == \/ \E s \in Session : RecoverSession(s)
            \/ \E t \in Task : RecoverRun(t)

Next ==
  \/ \E n \in Node : \/ Executes(n) \/ Leads(n) \/ NodeDies(n)
                     \/ \E t \in Task : CollectDue(n, t) \/ CollectInterrupted(n, t)
  \/ Recovers \/ LosesConnection
  \/ \E s \in Session : Time(s) \/ People(s)

Spec == Init /\ [][Next]_vars
-----------------------------------------------------------------------------
(* Safety.                                                                  *)

SessionsOf(t) == {s \in Session : session[s].task = t}

\* What a task did is not done again: of all sessions in which a round is run,
\* at most one had an effect, whoever crashed, was recovered, superseded or is
\* still at work without knowing it.
EffectsOnce == \A t \in Task : Cardinality(effects \intersect SessionsOf(t)) <= 1

\* A round runs in one session at a time.
OneAttempt == \A t \in Task : Cardinality({s \in SessionsOf(t) : Running(s)}) <= 1

\* A command is issued when no policy asks for more, or on an approval that was
\* given, and consumed, while the session was alive: an approval that comes after
\* its session was cancelled, expired or recovered runs nothing.
ApprovedInTime == \A n \in Node : job[n].at = "issue" => InTime(job[n].s)

\* A run tells the truth: succeeded is what its session did, and interrupted, which
\* means that it will be run again, is said of a session without effects.
RunIsTrue == \A t \in Task :
  /\ run[t].status = "succeeded" => session[run[t].session].status = "succeeded"
  /\ run[t].status = "interrupted" => run[t].session \notin effects

\* The limit on sessions (one) holds over a change of the leader, and with it the
\* sessions of a dead one count; only a leader that lost its connection exceeds it.
WithinLimit == ~lost => Cardinality({s \in Session : Running(s)}) <= 1

\* Whom a person stopped is not started again.
StopIsFinal == [][\A s \in Session :
  session[s].status = "none" /\ session'[s].status # "none" =>
    \A r \in Session : session[r].task = session'[s].task => ~session[r].cancelled]_vars
-----------------------------------------------------------------------------
(* Liveness.                                                                *)

Fairness ==
  /\ WF_vars(Recovers)
  /\ WF_vars((\E s \in Session : Expire(s)) /\ UNCHANGED <<leaderVars, gateVars, run, job, effects>>)

FairSpec == Spec /\ Fairness

\* A run does not stay "running" for ever, whatever became of its executor: it may be
\* stuck, or dead, or its last statement failed (no fairness is asked of it).
RunEnds == \A t \in Task : []<>(run[t].status # "running")
=============================================================================

-------------------------- MODULE TaskRunsProofs --------------------------
(***************************************************************************)
(* Proofs about TaskRuns for any number of nodes, tasks, sessions and      *)
(* faults.  The invariant IInv says of every session how it stands to the  *)
(* run of its task: a session that the run has left behind is over, and    *)
(* may be replayed; one that had an effect may not; an executor that is    *)
(* past guardTool works in a session that may not.  GateInv adds that      *)
(* nobody else is about such a session, so that its approval is its own;   *)
(* LimitInv that only who leads creates a session, when none runs.         *)
(***************************************************************************)
EXTENDS TaskRuns, FiniteSetTheorems, TLAPS

Rows == \A s \in Session :
  /\ session[s].status = "none" => session[s].task = NoTask
  /\ session[s].status # "none" => session[s].task \in Task
  /\ Running(s) /\ ~session[s].owned => session[s].safe

EffectsMarked == \A s \in effects : session[s].status # "none" /\ ~session[s].safe

LeftBehind == \A s \in Session :
  session[s].status # "none" /\ run[session[s].task].session # s => Over(s) /\ session[s].safe

RunOK(t) ==
  LET s == run[t].session IN
  /\ s # 0 => session[s].task = t
  /\ run[t].status = "none" => s = 0
  /\ run[t].status = "interrupted" => s # 0 /\ Over(s) /\ session[s].safe
  /\ run[t].status = "succeeded" => s # 0 /\ session[s].status = "succeeded"

JobOK(n) ==
  LET s == job[n].s IN
  /\ job[n].at # "idle" => job[n].task \in Task
  /\ job[n].at \notin {"idle", "begin"} => s # 0 /\ session[s].task = job[n].task
  /\ job[n].at \in {"guarded", "await", "approved", "issue"} => ~session[s].safe
  /\ job[n].at = "final" /\ job[n].ok => session[s].status = "succeeded"

RunsOK == \A t \in Task : RunOK(t)
JobsOK == \A n \in Node : JobOK(n)

IInv == TypeOK /\ Rows /\ EffectsMarked /\ LeftBehind /\ RunsOK /\ JobsOK

\* What no operation on sessions undoes
Keeps == \A s \in Session : session[s].status # "none" =>
  /\ session'[s].status # "none"
  /\ session'[s].task = session[s].task
  /\ ~session[s].safe => ~session'[s].safe
  /\ Over(s) => /\ session'[s].status = session[s].status
                /\ session'[s].safe = session[s].safe

NoneBorn == \A s \in Session : session[s].status = "none" => session'[s].status = "none"
-----------------------------------------------------------------------------
(* The operations on sessions.                                              *)

LEMMA UnchangedKeeps ==
  ASSUME SessionTypeOK, Rows, UNCHANGED session
  PROVE  SessionTypeOK' /\ Rows' /\ Keeps /\ NoneBorn
BY DEF SessionTypeOK, Rows, Keeps, NoneBorn, Running, Over

LEMMA CreateKeeps ==
  ASSUME SessionTypeOK, Rows, NEW s \in Session, NEW t \in Task, Create(s, t)
  PROVE  /\ SessionTypeOK' /\ Rows' /\ Keeps
         /\ session[s].status = "none"
         /\ session'[s].status = "running" /\ session'[s].task = t /\ session'[s].safe
         /\ \A r \in Session \ {s} : session'[r] = session[r]
<1>1. /\ session[s].status = "none"
      /\ session'[s] = [NoSession EXCEPT !.status = "running", !.task = t, !.safe = TRUE]
      /\ \A r \in Session \ {s} : session'[r] = session[r]
      /\ session' \in [Session -> SessionRow]
  BY DEF Create, SessionTypeOK, SessionRow, NoSession
<1>2. session'[s].status = "running" /\ session'[s].task = t /\ session'[s].safe
  BY <1>1 DEF NoSession
<1>3. Rows'
  BY <1>1, <1>2 DEF Rows, Running
<1>4. Keeps
  BY <1>1, <1>2 DEF Keeps, Over
<1> QED BY <1>1, <1>2, <1>3, <1>4 DEF SessionTypeOK

\* What an operation that changes row s to new keeps
LEMMA RowKeeps ==
  ASSUME SessionTypeOK, Rows, NEW s \in Session, Running(s),
         NEW new \in SessionRow, session' = [session EXCEPT ![s] = new],
         new.status # "none",
         new.task = session[s].task,
         ~session[s].safe => ~new.safe,
         new.status = "running" /\ ~new.owned => new.safe
  PROVE  SessionTypeOK' /\ Rows' /\ Keeps /\ NoneBorn
<1>1. /\ session'[s] = new
      /\ \A r \in Session \ {s} : session'[r] = session[r]
      /\ session' \in [Session -> SessionRow]
  BY DEF SessionTypeOK
<1>2. Rows'
  BY <1>1 DEF Rows, Running
<1>3. Keeps
  BY <1>1 DEF Keeps, Over, Running
<1>4. NoneBorn
  BY <1>1 DEF NoneBorn, Running
<1> QED BY <1>1, <1>2, <1>3, <1>4 DEF SessionTypeOK

LEMMA StartLeaseKeeps ==
  ASSUME SessionTypeOK, Rows, NEW s \in Session, StartLease(s)
  PROVE  SessionTypeOK' /\ Rows' /\ Keeps /\ NoneBorn
<1> DEFINE new == [session[s] EXCEPT !.owned = TRUE, !.safe = TRUE, !.expired = FALSE]
<1>1. Running(s) /\ session[s].safe /\ session' = [session EXCEPT ![s] = new]
  BY DEF StartLease, MayStart, Rows
<1>2. session[s] \in SessionRow
  BY DEF SessionTypeOK
<1>3. /\ new \in SessionRow /\ new.status = session[s].status
      /\ new.task = session[s].task /\ new.safe /\ new.owned
  BY <1>2 DEF SessionRow
<1> HIDE DEF new
<1> QED BY <1>1, <1>3, RowKeeps DEF Running

LEMMA GuardToolKeeps ==
  ASSUME SessionTypeOK, Rows, NEW s \in Session, GuardTool(s)
  PROVE  SessionTypeOK' /\ Rows' /\ Keeps /\ NoneBorn /\ ~session'[s].safe /\ Running(s)
<1> DEFINE new == [session[s] EXCEPT !.safe = FALSE]
<1>1. Running(s) /\ session[s].owned /\ session' = [session EXCEPT ![s] = new]
  BY DEF GuardTool, Live
<1>2. session[s] \in SessionRow
  BY DEF SessionTypeOK
<1>3. /\ new \in SessionRow /\ new.status = session[s].status
      /\ new.task = session[s].task /\ ~new.safe /\ new.owned
  BY <1>1, <1>2 DEF SessionRow
<1> HIDE DEF new
<1>4. session'[s] = new
  BY <1>1 DEF SessionTypeOK
<1> QED BY <1>1, <1>3, <1>4, RowKeeps DEF Running

LEMMA FinishKeeps ==
  ASSUME SessionTypeOK, Rows, NEW s \in Session,
         NEW status \in {"succeeded", "failed"}, Finish(s, status)
  PROVE  SessionTypeOK' /\ Rows' /\ Keeps /\ NoneBorn /\ session'[s].status = status
<1> DEFINE new == [session[s] EXCEPT !.status = status, !.owned = FALSE, !.expired = FALSE]
<1>1. Running(s) /\ session' = [session EXCEPT ![s] = new]
  BY DEF Finish
<1>2. session[s] \in SessionRow
  BY DEF SessionTypeOK
<1>3. /\ new \in SessionRow /\ new.status = status
      /\ new.task = session[s].task /\ new.safe = session[s].safe
  BY <1>2 DEF SessionRow
<1> HIDE DEF new
<1>4. session'[s] = new
  BY <1>1 DEF SessionTypeOK
<1> QED BY <1>1, <1>3, <1>4, RowKeeps DEF Running

LEMMA CloseExpiredKeeps ==
  ASSUME SessionTypeOK, Rows, NEW s \in Session, CloseExpired(s)
  PROVE  /\ SessionTypeOK' /\ Rows' /\ Keeps /\ NoneBorn
         /\ session'[s].status = "failed" /\ session'[s].safe = session[s].safe
<1> DEFINE new == [session[s] EXCEPT !.status = "failed", !.owned = FALSE, !.expired = FALSE]
<1>1. Running(s) /\ session' = [session EXCEPT ![s] = new]
  BY DEF CloseExpired
<1>2. session[s] \in SessionRow
  BY DEF SessionTypeOK
<1>3. /\ new \in SessionRow /\ new.status = "failed"
      /\ new.task = session[s].task /\ new.safe = session[s].safe
  BY <1>2 DEF SessionRow
<1> HIDE DEF new
<1>4. session'[s] = new
  BY <1>1 DEF SessionTypeOK
<1> QED BY <1>1, <1>3, <1>4, RowKeeps DEF Running

\* Cancel, Expire and DeadlinePasses change what is only read elsewhere.
LEMMA MarksKeep ==
  ASSUME SessionTypeOK, Rows, NEW s \in Session, Cancel(s) \/ Expire(s) \/ DeadlinePasses(s)
  PROVE  SessionTypeOK' /\ Rows' /\ Keeps /\ NoneBorn
<1>1. /\ session'[s] \in SessionRow
      /\ session'[s].status = session[s].status /\ session'[s].task = session[s].task
      /\ session'[s].owned = session[s].owned /\ session'[s].safe = session[s].safe
      /\ \A r \in Session \ {s} : session'[r] = session[r]
      /\ session' \in [Session -> SessionRow]
  <2>1. session[s] \in SessionRow
    BY DEF SessionTypeOK
  <2>2. CASE Cancel(s)
    BY <2>1, <2>2 DEF Cancel, SessionTypeOK, SessionRow
  <2>3. CASE Expire(s)
    BY <2>1, <2>3 DEF Expire, SessionTypeOK, SessionRow
  <2>4. CASE DeadlinePasses(s)
    BY <2>1, <2>4 DEF DeadlinePasses, SessionTypeOK, SessionRow
  <2> QED BY <2>2, <2>3, <2>4
<1>2. Rows'
  BY <1>1 DEF Rows, Running
<1>3. Keeps
  BY <1>1 DEF Keeps, Over
<1>4. NoneBorn
  BY <1>1 DEF NoneBorn, Running
<1> QED BY <1>1, <1>2, <1>3, <1>4 DEF SessionTypeOK
-----------------------------------------------------------------------------
(* What a step leaves alone.                                                *)

LEMMA TaskIsKnown ==
  ASSUME Rows, NEW s \in Session, session[s].task \in Task
  PROVE  session[s].status # "none"
BY SessionAssumption DEF Rows

LEMMA JobKept ==
  ASSUME IInv, Keeps, NEW n \in Node, job'[n] = job[n]
  PROVE  JobOK(n)'
<1> DEFINE s == job[n].s
<1>1. JobOK(n) /\ s \in 0..MaxSessions
  BY DEF IInv, JobsOK, TypeOK, Job
<1>2. ASSUME job[n].at \notin {"idle", "begin"}
      PROVE  /\ s \in Session /\ session[s].status # "none"
             /\ session'[s].task = session[s].task
             /\ ~session[s].safe => ~session'[s].safe
             /\ session[s].status = "succeeded" => session'[s].status = "succeeded"
  <2>1. s \in Session /\ session[s].task \in Task
    BY <1>1, <1>2, SessionAssumption DEF JobOK, Session
  <2>2. session[s].status # "none"
    BY <2>1, TaskIsKnown DEF IInv
  <2> QED BY <2>1, <2>2 DEF Keeps, Over
<1> QED BY <1>1, <1>2 DEF JobOK

LEMMA RunKept ==
  ASSUME IInv, Keeps, NEW t \in Task, run'[t] = run[t]
  PROVE  RunOK(t)'
<1> DEFINE s == run[t].session
<1>1. RunOK(t) /\ s \in 0..MaxSessions
  BY DEF IInv, RunsOK, TypeOK, Run
<1>2. ASSUME s # 0
      PROVE  /\ session'[s].task = t
             /\ Over(s) => /\ session'[s].status = session[s].status
                           /\ session'[s].safe = session[s].safe
  <2>1. s \in Session /\ session[s].task = t
    BY <1>1, <1>2, SessionAssumption DEF RunOK, Session
  <2>2. session[s].status # "none"
    BY <2>1, TaskIsKnown DEF IInv
  <2> QED BY <2>1, <2>2 DEF Keeps
<1> QED BY <1>1, <1>2 DEF RunOK, Over

LEMMA EffectsKept ==
  ASSUME IInv, Keeps, effects' = effects
  PROVE  EffectsMarked'
BY DEF IInv, TypeOK, EffectsMarked, Keeps

\* No run changes its session
LEMMA LeftBehindKept ==
  ASSUME IInv, Rows', Keeps, NoneBorn, \A t \in Task : run'[t].session = run[t].session
  PROVE  LeftBehind'
<1> SUFFICES ASSUME NEW s \in Session, session'[s].status # "none",
                    run'[session'[s].task].session # s
             PROVE  session'[s].status \in {"succeeded", "failed"} /\ session'[s].safe
  BY DEF LeftBehind, Over
<1>1. session[s].status # "none"
  BY DEF NoneBorn
<1>2. session'[s].task = session[s].task /\ session[s].task \in Task
  BY <1>1 DEF Keeps, IInv, Rows
<1>3. Over(s) /\ session[s].safe
  BY <1>1, <1>2 DEF IInv, LeftBehind
<1> QED BY <1>1, <1>3 DEF Keeps, Over

LEMMA Frame ==
  ASSUME IInv, Rows', Keeps, NoneBorn, UNCHANGED <<run, effects>>
  PROVE  EffectsMarked' /\ LeftBehind' /\ RunsOK'
BY EffectsKept, LeftBehindKept, RunKept DEF RunsOK

\* A goroutine goes on to the next place in its session
LEMMA GoesOn ==
  ASSUME IInv, Keeps, NEW n \in Node, job[n].at \notin {"idle", "begin"},
         NEW at \in {"work", "guarded", "await", "approved", "issue"}, GoTo(n, at),
         at # "work" => ~session'[job[n].s].safe
  PROVE  job' \in [Node -> Job] /\ JobsOK'
<1>1. /\ job' \in [Node -> Job]
      /\ \A m \in Node \ {n} : job'[m] = job[m]
      /\ job'[n].at = at /\ job'[n].task = job[n].task /\ job'[n].s = job[n].s
  <2>1. job[n] \in Job
    BY DEF IInv, TypeOK
  <2> QED BY <2>1 DEF GoTo, IInv, TypeOK, Job
<1>2. JobOK(n)'
  <2>1. /\ job[n].task \in Task /\ job[n].s \in Session
        /\ session[job[n].s].task = job[n].task
    BY SessionAssumption DEF IInv, JobsOK, JobOK, TypeOK, Job, Session
  <2>2. session[job[n].s].status # "none"
    BY <2>1, TaskIsKnown DEF IInv
  <2>3. session'[job[n].s].task = job[n].task
    BY <2>1, <2>2 DEF Keeps
  <2> QED BY <1>1, <2>1, <2>3, SessionAssumption DEF JobOK, Session
<1> QED BY <1>1, <1>2, JobKept DEF JobsOK

LEMMA Rests ==
  ASSUME IInv, Keeps, NEW n \in Node, Rest(n)
  PROVE  job' \in [Node -> Job] /\ JobsOK'
<1>1. /\ job' \in [Node -> Job] /\ job'[n] = IdleJob
      /\ \A m \in Node \ {n} : job'[m] = job[m]
  BY SessionAssumption DEF Rest, IInv, TypeOK, Job, IdleJob
<1>2. JobOK(n)'
  BY <1>1 DEF JobOK, IdleJob
<1> QED BY <1>1, <1>2, JobKept DEF JobsOK
-----------------------------------------------------------------------------
(* The steps.                                                               *)

LEMMA LeaderType ==
  ASSUME LeaderTypeOK, NEW n \in Node,
         \/ UNCHANGED leaderVars
         \/ Acquire(n) \/ CancelTask(n) \/ StepDown(n) \/ Die(n) \/ ConnectionLost
  PROVE  LeaderTypeOK'
<1>1. CASE UNCHANGED leaderVars
  BY <1>1 DEF LeaderTypeOK, leaderVars
<1>2. CASE Acquire(n)
  BY <1>2 DEF LeaderTypeOK, Acquire
<1>3. CASE CancelTask(n)
  BY <1>3 DEF LeaderTypeOK, CancelTask
<1>4. CASE StepDown(n)
  BY <1>4 DEF LeaderTypeOK, StepDown
<1>5. CASE Die(n)
  BY <1>5, LeaderAssumption DEF LeaderTypeOK, Die
<1>6. CASE ConnectionLost
  BY <1>6, LeaderAssumption DEF LeaderTypeOK, ConnectionLost
<1> QED BY <1>1, <1>2, <1>3, <1>4, <1>5, <1>6

LEMMA GateType ==
  ASSUME GateTypeOK, NEW s \in Session,
         \/ UNCHANGED gateVars
         \/ \E as \in {"pending", "consumed"} : Ask(s, as)
         \/ Decide(s) \/ Consume(s) \/ Leave(s)
  PROVE  GateTypeOK'
BY DEF GateTypeOK, gateVars, Ask, Decide, Consume, Leave

\* Where a goroutine that has a session is
LEMMA InSession ==
  ASSUME IInv, NEW n \in Node, job[n].at \notin {"idle", "begin"}
  PROVE  /\ job[n].s \in Session /\ job[n].task \in Task
         /\ session[job[n].s].task = job[n].task
         /\ session[job[n].s].status # "none"
<1>1. /\ job[n].s \in Session /\ job[n].task \in Task
      /\ session[job[n].s].task = job[n].task
  BY SessionAssumption DEF IInv, JobsOK, JobOK, TypeOK, Job, Session
<1> QED BY <1>1, TaskIsKnown DEF IInv

LEMMA Retrying ==
  ASSUME IInv, Keeps, NEW n \in Node, job[n].at \notin {"idle", "begin"}, Retries(n)
  PROVE  job' \in [Node -> Job] /\ JobsOK'
<1> DEFINE next == [job[n] EXCEPT !.at = "rerun", !.again = TRUE, !.ok = FALSE]
<1>1. CASE Rest(n)
  BY <1>1, Rests
<1>2. CASE job' = [job EXCEPT ![n] = next]
  <2>1. next \in Job /\ next.at = "rerun" /\ next.task = job[n].task /\ next.s = job[n].s
    BY DEF IInv, TypeOK, Job
  <2>2. /\ job' \in [Node -> Job]
        /\ \A m \in Node \ {n} : job'[m] = job[m]
        /\ job'[n] = next
    BY <1>2, <2>1 DEF IInv, TypeOK
  <2>3. job[n].s # 0 /\ job[n].task \in Task /\ session'[job[n].s].task = job[n].task
    BY InSession, SessionAssumption DEF Session, Keeps
  <2>4. JobOK(n)'
    BY <2>1, <2>2, <2>3 DEF JobOK
  <2> QED BY <2>2, <2>4, JobKept DEF JobsOK
<1> QED BY <1>1, <1>2 DEF Retries

LEMMA CollectSteps ==
  ASSUME IInv, NEW n \in Node, NEW t \in Task, CollectDue(n, t) \/ CollectInterrupted(n, t)
  PROVE  IInv'
<1>1. UNCHANGED <<leaderVars, session, gateVars, run, effects>>
  BY DEF CollectDue, CollectInterrupted
<1>2. SessionTypeOK' /\ Rows' /\ Keeps /\ NoneBorn
  BY <1>1, UnchangedKeeps DEF IInv, TypeOK
<1>3. EffectsMarked' /\ LeftBehind' /\ RunsOK'
  BY <1>1, <1>2, Frame
<1>4. /\ job' \in [Node -> Job]
      /\ \A m \in Node \ {n} : job'[m] = job[m]
      /\ JobOK(n)'
  <2>1. CASE CollectDue(n, t)
    <3>0. [IdleJob EXCEPT !.at = "begin", !.task = t] \in Job
      <4>1. IdleJob \in Job
        BY SessionAssumption DEF Job, IdleJob
      <4> QED BY <4>1 DEF Job
    <3>1. job'[n] = [IdleJob EXCEPT !.at = "begin", !.task = t] /\ job'[n] \in Job
      BY <2>1, <3>0 DEF CollectDue, IInv, TypeOK
    <3>2. JobOK(n)'
      BY <3>1 DEF JobOK, IdleJob
    <3> QED BY <2>1, <3>1, <3>2 DEF CollectDue, IInv, TypeOK
  <2>2. CASE CollectInterrupted(n, t)
    <3>1. run[t].session \in 0..MaxSessions
      BY DEF IInv, TypeOK, Run
    <3>2. /\ job'[n] = [IdleJob EXCEPT !.at = "rerun", !.task = t, !.s = run[t].session]
          /\ job'[n] \in Job
      BY <2>2, <3>1 DEF CollectInterrupted, IInv, TypeOK, Job, IdleJob
    <3>3. run[t].session # 0 /\ session[run[t].session].task = t
      BY <2>2 DEF CollectInterrupted, IInv, RunsOK, RunOK
    <3> QED BY <1>1, <2>2, <3>2, <3>3 DEF CollectInterrupted, IInv, TypeOK, JobOK, IdleJob
  <2> QED BY <2>1, <2>2
<1>5. JobsOK'
  BY <1>2, <1>4, JobKept DEF JobsOK
<1>6. TypeOK'
  BY <1>1, <1>2, <1>4, LeaderType, GateType
     DEF IInv, TypeOK, leaderVars, gateVars, LeaderTypeOK, GateTypeOK
<1> QED BY <1>2, <1>3, <1>5, <1>6 DEF IInv

\* A new session for a run of which every session until now is over and may be
\* replayed
LEMMA LaunchStep ==
  ASSUME IInv, NEW n \in Node, NEW s \in Session, job[n].task \in Task,
         Launch(n, job[n].task, s), UNCHANGED effects,
         \A r \in Session : session[r].task = job[n].task /\ session[r].status # "none"
                             => Over(r) /\ session[r].safe
  PROVE  /\ SessionTypeOK' /\ Rows' /\ EffectsMarked' /\ LeftBehind' /\ RunsOK' /\ JobsOK'
         /\ run' \in [Task -> Run] /\ job' \in [Node -> Job]
<1>0. PICK t \in Task : t = job[n].task
  OBVIOUS
<1>1. /\ SessionTypeOK' /\ Rows' /\ Keeps
      /\ session[s].status = "none"
      /\ session'[s].status = "running" /\ session'[s].task = t /\ session'[s].safe
      /\ \A r \in Session \ {s} : session'[r] = session[r]
  BY <1>0, CreateKeeps DEF IInv, TypeOK, Launch
<1>2. /\ run' \in [Task -> Run]
      /\ run'[t] = [status |-> "running", session |-> s]
      /\ \A u \in Task \ {t} : run'[u] = run[u]
  BY <1>0 DEF Launch, IInv, TypeOK, Run, Session
<1>3. /\ job' \in [Node -> Job]
      /\ job'[n].at = "start" /\ job'[n].s = s /\ job'[n].task = t
      /\ \A m \in Node \ {n} : job'[m] = job[m]
  <2>1. job[n] \in Job
    BY DEF IInv, TypeOK
  <2>2. job' = [job EXCEPT ![n] = [job[n] EXCEPT !.at = "start", !.s = s]]
    BY DEF Launch
  <2>3. [job[n] EXCEPT !.at = "start", !.s = s] \in Job
    <3>1. s \in 0..MaxSessions
      BY SessionAssumption DEF Session
    <3> QED BY <2>1, <3>1 DEF Job
  <2> QED BY <1>0, <2>1, <2>2, <2>3 DEF IInv, TypeOK, Job
<1>4. EffectsMarked'
  BY <1>1, EffectsKept
<1>5. RunsOK'
  <2>1. RunOK(t)'
    BY <1>1, <1>2, SessionAssumption DEF RunOK, Session
  <2>2. \A u \in Task \ {t} : RunOK(u)'
    BY <1>1, <1>2, RunKept
  <2> QED BY <2>1, <2>2 DEF RunsOK
<1>6. JobsOK'
  <2>1. JobOK(n)'
    BY <1>1, <1>3, SessionAssumption DEF JobOK, Session
  <2> QED BY <1>1, <1>3, <2>1, JobKept DEF JobsOK
<1>7. LeftBehind'
  <2> SUFFICES ASSUME NEW r \in Session, session'[r].status # "none",
                      run'[session'[r].task].session # r
               PROVE  session'[r].status \in {"succeeded", "failed"} /\ session'[r].safe
    BY DEF LeftBehind, Over
  <2>1. r # s
    BY <1>1, <1>2
  <2>2. session'[r] = session[r] /\ session[r].task \in Task
    BY <1>1, <2>1 DEF IInv, Rows
  <2>3. CASE session[r].task = t
    BY <1>0, <2>2, <2>3 DEF Over
  <2>4. CASE session[r].task # t
    BY <1>2, <2>2, <2>4 DEF IInv, LeftBehind, Over
  <2> QED BY <2>3, <2>4
<1> QED BY <1>1, <1>2, <1>3, <1>4, <1>5, <1>6, <1>7

LEMMA BeginStep ==
  ASSUME IInv, NEW n \in Node, Begin(n)
  PROVE  IInv'
<1> DEFINE t == job[n].task
<1>1. UNCHANGED <<leaderVars, gateVars, effects>> /\ t \in Task
  BY DEF Begin, IInv, JobsOK, JobOK
<1>2. LeaderTypeOK' /\ GateTypeOK'
  BY <1>1 DEF IInv, TypeOK, leaderVars, gateVars, LeaderTypeOK, GateTypeOK
<1>3. CASE run[t].status = "none" /\ \E s \in Session : Launch(n, t, s)
  <2>1. run[t].session = 0
    BY <1>1, <1>3 DEF IInv, RunsOK, RunOK
  <2>2. \A r \in Session : session[r].task = t /\ session[r].status # "none"
                            => Over(r) /\ session[r].safe
    BY <2>1, SessionAssumption DEF IInv, LeftBehind, Session
  <2> QED BY <1>1, <1>2, <1>3, <2>2, LaunchStep DEF IInv, TypeOK
<1>4. CASE Rest(n) /\ UNCHANGED <<session, run>>
  <2>1. SessionTypeOK' /\ Rows' /\ Keeps /\ NoneBorn
    BY <1>4, UnchangedKeeps DEF IInv, TypeOK
  <2>2. EffectsMarked' /\ LeftBehind' /\ RunsOK'
    BY <1>1, <1>4, <2>1, Frame
  <2>3. job' \in [Node -> Job] /\ JobsOK'
    BY <1>4, <2>1, Rests
  <2> QED BY <1>1, <1>2, <1>4, <2>1, <2>2, <2>3 DEF IInv, TypeOK
<1> QED BY <1>3, <1>4 DEF Begin

LEMMA RerunStep ==
  ASSUME IInv, NEW n \in Node, Rerun(n)
  PROVE  IInv'
<1> DEFINE t == job[n].task
<1>1. UNCHANGED <<leaderVars, gateVars, effects>> /\ t \in Task
  BY DEF Rerun, IInv, JobsOK, JobOK
<1>2. LeaderTypeOK' /\ GateTypeOK'
  BY <1>1 DEF IInv, TypeOK, leaderVars, gateVars, LeaderTypeOK, GateTypeOK
<1>3. CASE /\ ReplaySafe(job[n].s) /\ run[t].session = job[n].s
           /\ \E s \in Session : Launch(n, t, s)
  <2>1. \A r \in Session : session[r].task = t /\ session[r].status # "none"
                            => Over(r) /\ session[r].safe
    BY <1>3 DEF ReplaySafe, IInv, LeftBehind
  <2> QED BY <1>1, <1>2, <1>3, <2>1, LaunchStep DEF IInv, TypeOK
<1>4. CASE Rest(n) /\ UNCHANGED <<session, run>>
  <2>1. SessionTypeOK' /\ Rows' /\ Keeps /\ NoneBorn
    BY <1>4, UnchangedKeeps DEF IInv, TypeOK
  <2>2. EffectsMarked' /\ LeftBehind' /\ RunsOK'
    BY <1>1, <1>4, <2>1, Frame
  <2>3. job' \in [Node -> Job] /\ JobsOK'
    BY <1>4, <2>1, Rests
  <2> QED BY <1>1, <1>2, <1>4, <2>1, <2>2, <2>3 DEF IInv, TypeOK
<1> QED BY <1>3, <1>4 DEF Rerun

\* The steps of a tool that do nothing
LEMMA ToolSteps ==
  ASSUME IInv, NEW n \in Node,
         \/ Guard(n) \/ ToolAsks(n) \/ ToolConsumes(n) \/ ToolGivesUp(n)
         \/ ToolChecks(n) \/ ToolFails(n)
  PROVE  IInv'
<1> DEFINE s == job[n].s
<1>1. /\ UNCHANGED <<leaderVars, run, effects>>
      /\ job[n].at \notin {"idle", "begin"}
  BY DEF Guard, ToolAsks, ToolConsumes, ToolGivesUp, ToolChecks, ToolFails
<1>2. /\ s \in Session /\ job[n].task \in Task
      /\ session[s].task = job[n].task /\ session[s].status # "none"
  BY <1>1, InSession
<1>3. GateTypeOK'
  <2>1. \/ UNCHANGED gateVars
        \/ \E as \in {"pending", "consumed"} : Ask(s, as)
        \/ Consume(s) \/ Leave(s)
    BY DEF Guard, ToolAsks, ToolConsumes, ToolGivesUp, ToolChecks, ToolFails
  <2> QED BY <1>2, <2>1, GateType DEF IInv, TypeOK
<1>4. /\ SessionTypeOK' /\ Rows' /\ Keeps /\ NoneBorn
      /\ job' \in [Node -> Job] /\ JobsOK'
  <2>1. CASE Guard(n)
    <3>1. /\ SessionTypeOK' /\ Rows' /\ Keeps /\ NoneBorn
          /\ ~session'[s].safe
      BY <1>2, <2>1, GuardToolKeeps DEF Guard, IInv, TypeOK
    <3> QED BY <1>1, <2>1, <3>1, GoesOn DEF Guard
  <2>2. CASE \/ ToolAsks(n) \/ ToolConsumes(n) \/ ToolGivesUp(n)
             \/ ToolChecks(n) \/ ToolFails(n)
    <3>1. UNCHANGED session /\ ~session[s].safe
      BY <2>2 DEF ToolAsks, ToolConsumes, ToolGivesUp, ToolChecks, ToolFails, IInv, JobsOK, JobOK
    <3>2. SessionTypeOK' /\ Rows' /\ Keeps /\ NoneBorn
      BY <3>1, UnchangedKeeps DEF IInv, TypeOK
    <3>3. PICK at \in {"work", "await", "approved", "issue"} : GoTo(n, at)
      BY <2>2 DEF ToolAsks, ToolConsumes, ToolGivesUp, ToolChecks, ToolFails
    <3> QED BY <1>1, <3>1, <3>2, <3>3, GoesOn
  <2> QED BY <2>1, <2>2
<1>5. EffectsMarked' /\ LeftBehind' /\ RunsOK'
  BY <1>1, <1>4, Frame
<1> QED BY <1>1, <1>3, <1>4, <1>5 DEF IInv, TypeOK, leaderVars, LeaderTypeOK

\* A tool does something, in a session that is marked
LEMMA EffectSteps ==
  ASSUME IInv, NEW n \in Node, ToolWrites(n) \/ ToolCommands(n)
  PROVE  IInv'
<1> DEFINE s == job[n].s
<1>1. /\ UNCHANGED <<leaderVars, session, run>>
      /\ job[n].at \in {"guarded", "issue"}
      /\ effects' = effects \union {s}
      /\ GoTo(n, "work")
  BY DEF ToolWrites, ToolCommands
<1>2. s \in Session /\ session[s].status # "none"
  BY <1>1, InSession
<1>3. ~session[s].safe
  BY <1>1 DEF IInv, JobsOK, JobOK
<1>4. SessionTypeOK' /\ Rows' /\ Keeps /\ NoneBorn
  BY <1>1, UnchangedKeeps DEF IInv, TypeOK
<1>5. effects' \subseteq Session /\ EffectsMarked'
  BY <1>1, <1>2, <1>3 DEF IInv, TypeOK, EffectsMarked
<1>6. LeftBehind' /\ RunsOK'
  BY <1>1, <1>4, LeftBehindKept, RunKept DEF RunsOK
<1>7. job' \in [Node -> Job] /\ JobsOK'
  BY <1>1, <1>4, GoesOn
<1>8. GateTypeOK'
  <2>1. UNCHANGED gateVars \/ Leave(s)
    BY DEF ToolWrites, ToolCommands
  <2> QED BY <1>2, <2>1, GateType DEF IInv, TypeOK
<1> QED BY <1>1, <1>4, <1>5, <1>6, <1>7, <1>8 DEF IInv, TypeOK, leaderVars, LeaderTypeOK

\* RunTask has returned
LEMMA GoesFinal ==
  ASSUME IInv, Keeps, NEW n \in Node, job[n].at \notin {"idle", "begin"},
         NEW ok \in BOOLEAN, job' = [job EXCEPT ![n].at = "final", ![n].ok = ok],
         ok => session'[job[n].s].status = "succeeded"
  PROVE  job' \in [Node -> Job] /\ JobsOK'
<1>1. /\ job' \in [Node -> Job]
      /\ \A m \in Node \ {n} : job'[m] = job[m]
      /\ job'[n].at = "final" /\ job'[n].task = job[n].task /\ job'[n].s = job[n].s
      /\ job'[n].ok = ok
  <2>1. job[n] \in Job
    BY DEF IInv, TypeOK
  <2>2. job' = [job EXCEPT ![n] = [job[n] EXCEPT !.at = "final", !.ok = ok]]
    OBVIOUS
  <2>3. [job[n] EXCEPT !.at = "final", !.ok = ok] \in Job
    BY <2>1 DEF Job
  <2> QED BY <2>1, <2>2, <2>3 DEF IInv, TypeOK, Job
<1>2. JobOK(n)'
  <2>1. /\ job[n].s \in Session /\ job[n].task \in Task
        /\ session'[job[n].s].task = job[n].task
    BY InSession DEF Keeps
  <2> QED BY <1>1, <2>1, SessionAssumption DEF JobOK, Session
<1> QED BY <1>1, <1>2, JobKept DEF JobsOK

LEMMA StartStep ==
  ASSUME IInv, NEW n \in Node, Start(n)
  PROVE  IInv'
<1> DEFINE s == job[n].s
<1>1. UNCHANGED <<leaderVars, gateVars, run, effects>> /\ job[n].at = "start"
  BY DEF Start
<1>2. s \in Session
  BY <1>1, InSession
<1>3. /\ SessionTypeOK' /\ Rows' /\ Keeps /\ NoneBorn
      /\ job' \in [Node -> Job] /\ JobsOK'
  <2>1. CASE StartLease(s) /\ GoTo(n, "work")
    <3>1. SessionTypeOK' /\ Rows' /\ Keeps /\ NoneBorn
      BY <1>2, <2>1, StartLeaseKeeps DEF IInv, TypeOK
    <3> QED BY <1>1, <2>1, <3>1, GoesOn
  <2>2. CASE /\ job' = [job EXCEPT ![n].at = "final", ![n].ok = FALSE]
             /\ UNCHANGED session
    <3>1. SessionTypeOK' /\ Rows' /\ Keeps /\ NoneBorn
      BY <2>2, UnchangedKeeps DEF IInv, TypeOK
    <3> QED BY <1>1, <2>2, <3>1, GoesFinal
  <2> QED BY <2>1, <2>2 DEF Start
<1>4. EffectsMarked' /\ LeftBehind' /\ RunsOK'
  BY <1>1, <1>3, Frame
<1> QED BY <1>1, <1>3, <1>4
        DEF IInv, TypeOK, leaderVars, gateVars, LeaderTypeOK, GateTypeOK

LEMMA EndStep ==
  ASSUME IInv, NEW n \in Node, End(n)
  PROVE  IInv'
<1> DEFINE s == job[n].s
<1>1. UNCHANGED <<leaderVars, gateVars, run, effects>> /\ job[n].at = "work"
  BY DEF End
<1>2. s \in Session
  BY <1>1, InSession
<1>3. PICK ok \in BOOLEAN :
        /\ job' = [job EXCEPT ![n].at = "final", ![n].ok = ok]
        /\ \/ Finish(s, "succeeded")
           \/ ~ok /\ Finish(s, "failed")
           \/ ~ok /\ UNCHANGED session
  BY DEF End
<1>4. /\ SessionTypeOK' /\ Rows' /\ Keeps /\ NoneBorn
      /\ ok => session'[s].status = "succeeded"
  <2>1. CASE Finish(s, "succeeded")
    BY <1>2, <2>1, FinishKeeps DEF IInv, TypeOK
  <2>2. CASE ~ok /\ Finish(s, "failed")
    BY <1>2, <2>2, FinishKeeps DEF IInv, TypeOK
  <2>3. CASE ~ok /\ UNCHANGED session
    BY <2>3, UnchangedKeeps DEF IInv, TypeOK
  <2> QED BY <1>3, <2>1, <2>2, <2>3
<1>5. job' \in [Node -> Job] /\ JobsOK'
  BY <1>1, <1>3, <1>4, GoesFinal
<1>6. EffectsMarked' /\ LeftBehind' /\ RunsOK'
  BY <1>1, <1>4, Frame
<1> QED BY <1>1, <1>4, <1>5, <1>6
        DEF IInv, TypeOK, leaderVars, gateVars, LeaderTypeOK, GateTypeOK

LEMMA FinaliseStep ==
  ASSUME IInv, NEW n \in Node, Finalise(n)
  PROVE  IInv'
<1>1. UNCHANGED <<leaderVars, session, gateVars, effects>> /\ job[n].at = "final"
  BY DEF Finalise
<1>2. PICK t \in Task, s \in Session : t = job[n].task /\ s = job[n].s
  BY <1>1, InSession
<1>3. SessionTypeOK' /\ Rows' /\ Keeps /\ NoneBorn
  BY <1>1, UnchangedKeeps DEF IInv, TypeOK
<1>4. /\ run[t].session = s
      /\ run' = [run EXCEPT ![t].status = Outcome(n)]
      /\ Outcome(n) \in {"succeeded", "interrupted", "failed"}
      /\ Outcome(n) = "succeeded" => session[s].status = "succeeded"
      /\ Outcome(n) = "interrupted" => Over(s) /\ session[s].safe
  <2>1. run[t].session = s /\ run' = [run EXCEPT ![t].status = Outcome(n)]
    BY <1>2 DEF Finalise, Mine
  <2>2. job[n].ok => session[s].status = "succeeded"
    BY <1>1, <1>2 DEF IInv, JobsOK, JobOK
  <2> QED BY <1>2, <2>1, <2>2 DEF Outcome, ReplaySafe
<1> DEFINE end == Outcome(n)
<1> HIDE DEF end
<1>5. /\ run' \in [Task -> Run]
      /\ run'[t].status = Outcome(n) /\ run'[t].session = s
      /\ \A u \in Task \ {t} : run'[u] = run[u]
  <2>1. run[t] \in Run
    BY DEF IInv, TypeOK
  <2> QED BY <1>4, <2>1 DEF IInv, TypeOK, Run
<1>6. RunsOK'
  <2>1. RunOK(t)'
    <3>1. session[s].task = t /\ s # 0
      BY <1>1, <1>2, InSession, SessionAssumption DEF Session
    <3> QED BY <1>1, <1>4, <1>5, <3>1 DEF RunOK, Over
  <2>2. \A u \in Task \ {t} : RunOK(u)'
    BY <1>3, <1>5, RunKept
  <2> QED BY <2>1, <2>2 DEF RunsOK
<1>7. EffectsMarked' /\ LeftBehind'
  <2>1. \A u \in Task : run'[u].session = run[u].session
    BY <1>4, <1>5
  <2> QED BY <1>1, <1>3, <2>1, EffectsKept, LeftBehindKept
<1>8. job' \in [Node -> Job] /\ JobsOK'
  BY <1>1, <1>3, Rests, Retrying DEF Finalise
<1> QED BY <1>1, <1>3, <1>5, <1>6, <1>7, <1>8
        DEF IInv, TypeOK, leaderVars, gateVars, LeaderTypeOK, GateTypeOK

LEMMA RecoverSessionStep ==
  ASSUME IInv, NEW s \in Session, RecoverSession(s)
  PROVE  IInv'
<1>1. UNCHANGED <<leaderVars, gateVars, job, effects>> /\ CloseExpired(s)
  BY DEF RecoverSession
<1>2. /\ SessionTypeOK' /\ Rows' /\ Keeps /\ NoneBorn
      /\ session'[s].status = "failed" /\ session'[s].safe = session[s].safe
  BY <1>1, CloseExpiredKeeps DEF IInv, TypeOK
<1>3. PICK end \in {"interrupted", "failed"} :
        /\ end = "interrupted" => session[s].safe
        /\ run' = [t \in Task |-> IF t \in RunOf(s) THEN [run[t] EXCEPT !.status = end]
                                 ELSE run[t]]
  BY DEF RecoverSession
<1>4. \A t \in Task : run[t] \in Run
  BY DEF IInv, TypeOK
<1>5. \A t \in RunOf(s) : run[t].session = s
  BY DEF RunOf
<1>6. /\ run' \in [Task -> Run]
      /\ \A t \in Task : run'[t].session = run[t].session
      /\ \A t \in Task \ RunOf(s) : run'[t] = run[t]
      /\ \A t \in Task \intersect RunOf(s) : run'[t].status = end
  BY <1>3, <1>4 DEF Run
<1>7. RunsOK'
  <2>1. ASSUME NEW t \in Task, t \in RunOf(s) PROVE RunOK(t)'
    <3>1. run'[t].session = s /\ run'[t].status = end
      BY <1>5, <1>6, <2>1
    <3>2. s # 0 /\ session[s].task = t
      BY <1>5, <2>1, SessionAssumption DEF IInv, RunsOK, RunOK, Session
    <3>3. session'[s].task = t
      BY <1>2, <3>2, TaskIsKnown DEF Keeps, IInv
    <3> QED BY <1>2, <1>3, <3>1, <3>2, <3>3 DEF RunOK, Over
  <2>2. ASSUME NEW t \in Task, t \notin RunOf(s) PROVE RunOK(t)'
    BY <1>2, <1>6, <2>2, RunKept
  <2> QED BY <2>1, <2>2 DEF RunsOK
<1>8. EffectsMarked' /\ LeftBehind' /\ JobsOK'
  BY <1>1, <1>2, <1>6, EffectsKept, LeftBehindKept, JobKept DEF JobsOK
<1> QED BY <1>1, <1>2, <1>6, <1>7, <1>8
        DEF IInv, TypeOK, leaderVars, gateVars, LeaderTypeOK, GateTypeOK

LEMMA RecoverRunStep ==
  ASSUME IInv, NEW t \in Task, RecoverRun(t)
  PROVE  IInv'
<1>1. /\ UNCHANGED <<leaderVars, session, gateVars, job, effects>>
      /\ run' = [run EXCEPT ![t].status = "failed"]
  BY DEF RecoverRun
<1>2. SessionTypeOK' /\ Rows' /\ Keeps /\ NoneBorn
  BY <1>1, UnchangedKeeps DEF IInv, TypeOK
<1>3. /\ run' \in [Task -> Run]
      /\ run'[t].status = "failed" /\ run'[t].session = run[t].session
      /\ \A u \in Task \ {t} : run'[u] = run[u]
  <2>1. run[t] \in Run
    BY DEF IInv, TypeOK
  <2> QED BY <1>1, <2>1 DEF IInv, TypeOK, Run
<1>4. RunsOK'
  <2>1. RunOK(t)'
    BY <1>1, <1>3 DEF IInv, RunsOK, RunOK
  <2>2. \A u \in Task \ {t} : RunOK(u)'
    BY <1>2, <1>3, RunKept
  <2> QED BY <2>1, <2>2 DEF RunsOK
<1>5. EffectsMarked' /\ LeftBehind' /\ JobsOK'
  BY <1>1, <1>2, <1>3, EffectsKept, LeftBehindKept, JobKept DEF JobsOK
<1> QED BY <1>1, <1>2, <1>3, <1>4, <1>5
        DEF IInv, TypeOK, leaderVars, gateVars, LeaderTypeOK, GateTypeOK

\* Everything else leaves runs and effects alone, and at most ends what a node is at
LEMMA OtherSteps ==
  ASSUME IInv,
         \/ \E n \in Node : FinaliseNot(n) \/ Leads(n) \/ NodeDies(n)
         \/ LosesConnection
         \/ \E s \in Session : Time(s) \/ People(s)
         \/ UNCHANGED vars
  PROVE  IInv'
<1>1. UNCHANGED <<run, effects>>
  BY DEF FinaliseNot, Leads, NodeDies, LosesConnection, Time, People, vars
<1>2. SessionTypeOK' /\ Rows' /\ Keeps /\ NoneBorn
  <2>1. CASE UNCHANGED session
    BY <2>1, UnchangedKeeps DEF IInv, TypeOK
  <2>2. ASSUME NEW s \in Session, Cancel(s) \/ Expire(s) \/ DeadlinePasses(s)
        PROVE  SessionTypeOK' /\ Rows' /\ Keeps /\ NoneBorn
    BY <2>2, MarksKeep DEF IInv, TypeOK
  <2> QED BY <2>1, <2>2
          DEF FinaliseNot, Leads, NodeDies, LosesConnection, Time, People, vars
<1>3. job' \in [Node -> Job] /\ JobsOK'
  <2>1. CASE UNCHANGED job
    BY <1>2, <2>1, JobKept DEF JobsOK, IInv, TypeOK
  <2>2. ASSUME NEW n \in Node, Rest(n) PROVE job' \in [Node -> Job] /\ JobsOK'
    BY <1>2, <2>2, Rests
  <2>3. ASSUME NEW n \in Node, FinaliseNot(n) PROVE job' \in [Node -> Job] /\ JobsOK'
    BY <1>2, <2>3, Rests, Retrying DEF FinaliseNot
  <2> QED BY <2>1, <2>2, <2>3 DEF Leads, NodeDies, LosesConnection, Time, People, vars
<1>4. LeaderTypeOK'
  <2>1. CASE UNCHANGED leaderVars
    BY <2>1 DEF IInv, TypeOK, LeaderTypeOK, leaderVars
  <2>2. ASSUME NEW n \in Node, Leads(n) \/ NodeDies(n) PROVE LeaderTypeOK'
    BY <2>2, LeaderType DEF IInv, TypeOK, Leads, NodeDies
  <2>3. CASE LosesConnection
    BY <2>3, LeaderAssumption DEF IInv, TypeOK, LosesConnection, ConnectionLost, LeaderTypeOK
  <2> QED BY <2>1, <2>2, <2>3 DEF FinaliseNot, Time, People, vars
<1>5. GateTypeOK'
  <2>1. CASE UNCHANGED gateVars
    BY <2>1 DEF IInv, TypeOK, GateTypeOK, gateVars
  <2>2. ASSUME NEW n \in Node, NodeDies(n) PROVE GateTypeOK'
    <3>1. job[n].s # 0 => job[n].s \in Session
      BY SessionAssumption DEF IInv, TypeOK, Job, Session
    <3> QED BY <2>1, <2>2, <3>1, GateType DEF NodeDies, IInv, TypeOK
  <2>3. ASSUME NEW s \in Session, People(s) PROVE GateTypeOK'
    BY <2>1, <2>3, GateType DEF People, IInv, TypeOK
  <2> QED BY <2>1, <2>2, <2>3 DEF FinaliseNot, Leads, LosesConnection, Time, vars
<1>6. EffectsMarked' /\ LeftBehind' /\ RunsOK'
  BY <1>1, <1>2, Frame
<1> QED BY <1>1, <1>2, <1>3, <1>4, <1>5, <1>6 DEF IInv, TypeOK
-----------------------------------------------------------------------------
LEMMA InitInv == Init => IInv
<1> SUFFICES ASSUME Init PROVE IInv
  OBVIOUS
<1>1. TypeOK
  <2>1. NoSession \in SessionRow /\ IdleJob \in Job
    BY SessionAssumption DEF NoSession, SessionRow, IdleJob, Job
  <2>2. [status |-> "none", session |-> 0] \in Run
    BY SessionAssumption DEF Run
  <2>3. LeaderTypeOK
    <3>1. LeaderInit
      BY DEF Init
    <3>2. leading \in [Node -> {"no", "yes", "stopping"}]
      BY <3>1 DEF LeaderInit
    <3>3. faults \in 0..MaxFaults
      BY <3>1, LeaderAssumption DEF LeaderInit
    <3>4. lost \in BOOLEAN /\ torn \subseteq Node
      BY <3>1, Zenon DEF LeaderInit
    <3>5. holder \in Node \union {NoNode}
      BY <3>1, Zenon DEF LeaderInit
    <3> QED BY <3>2, <3>3, <3>4, <3>5, Zenon DEF LeaderTypeOK
  <2>4. SessionTypeOK /\ GateTypeOK
    BY <2>1 DEF Init, SessionInit, SessionTypeOK, GateInit, GateTypeOK
  <2>5. run \in [Task -> Run] /\ job \in [Node -> Job] /\ effects \subseteq Session
    BY <2>1, <2>2 DEF Init
  <2> QED BY <2>3, <2>4, <2>5 DEF TypeOK
<1>2. Rows /\ EffectsMarked /\ LeftBehind
  BY DEF Init, SessionInit, NoSession, Rows, EffectsMarked, LeftBehind, Running
<1>3. RunsOK /\ JobsOK
  BY DEF Init, RunsOK, RunOK, JobsOK, JobOK, IdleJob
<1> QED BY <1>1, <1>2, <1>3 DEF IInv

LEMMA StepInv == IInv /\ [Next]_vars => IInv'
<1> SUFFICES ASSUME IInv, [Next]_vars PROVE IInv'
  OBVIOUS
<1>1. ASSUME NEW n \in Node, Executes(n) PROVE IInv'
  BY <1>1, BeginStep, RerunStep, StartStep, EndStep, FinaliseStep, ToolSteps, EffectSteps,
     OtherSteps DEF Executes
<1>2. ASSUME NEW n \in Node, NEW t \in Task, CollectDue(n, t) \/ CollectInterrupted(n, t)
      PROVE  IInv'
  BY <1>2, CollectSteps
<1>3. CASE Recovers
  BY <1>3, RecoverSessionStep, RecoverRunStep DEF Recovers
<1>4. CASE \/ \E n \in Node : Leads(n) \/ NodeDies(n)
           \/ LosesConnection
           \/ \E s \in Session : Time(s) \/ People(s)
           \/ UNCHANGED vars
  BY <1>4, OtherSteps
<1> QED BY <1>1, <1>2, <1>3, <1>4 DEF Next

LEMMA Invariance == Spec => []IInv
BY InitInv, StepInv, PTL DEF Spec

\* The state of the schedule, the sessions, the gate and the leadership keeps its types.
THEOREM TypeCorrect == Spec => []TypeOK
<1>1. IInv => TypeOK
  BY DEF IInv
<1> QED BY <1>1, Invariance, PTL

LEMMA AtMostOne == ASSUME NEW S, NEW x, S \subseteq {x} PROVE Cardinality(S) <= 1
<1>1. IsFiniteSet({x}) /\ Cardinality({x}) = 1
  BY FS_Singleton
<1>2. IsFiniteSet(S) /\ Cardinality(S) <= Cardinality({x})
  BY <1>1, FS_Subset
<1> QED BY <1>1, <1>2

\* Whatever crashes, is recovered, superseded or works on without knowing it: of all
\* sessions in which the round of a task is run, at most one had an effect
\* (task_lease.go guardTool, scheduler.go rerun, recovery.go recoverExpired).
THEOREM EffectsHappenOnce == Spec => []EffectsOnce
<1>1. IInv => EffectsOnce
  <2> SUFFICES ASSUME IInv, NEW t \in Task
               PROVE  Cardinality(effects \intersect SessionsOf(t)) <= 1
    BY DEF EffectsOnce
  <2>1. effects \intersect SessionsOf(t) \subseteq {run[t].session}
    BY DEF IInv, EffectsMarked, LeftBehind, SessionsOf
  <2> QED BY <2>1, AtMostOne
<1> QED BY <1>1, Invariance, PTL

\* The round of a task is run in one session at a time, with any number of leaders
\* (scheduler.go begin and rerun).
THEOREM AttemptsAreAlone == Spec => []OneAttempt
<1>1. IInv => OneAttempt
  <2> SUFFICES ASSUME IInv, NEW t \in Task
               PROVE  Cardinality({s \in SessionsOf(t) : Running(s)}) <= 1
    BY DEF OneAttempt
  <2>1. {s \in SessionsOf(t) : Running(s)} \subseteq {run[t].session}
    BY DEF IInv, LeftBehind, SessionsOf, Running, Over
  <2> QED BY <2>1, AtMostOne
<1> QED BY <1>1, Invariance, PTL

\* A run says succeeded only of a session that succeeded, and interrupted only of one
\* without effects (scheduler.go attempt, recovery.go recoverExpired).
THEOREM RunsAreTrue == Spec => []RunIsTrue
<1>1. IInv => RunIsTrue
  BY DEF IInv, RunsOK, RunOK, EffectsMarked, RunIsTrue
<1> QED BY <1>1, Invariance, PTL
-----------------------------------------------------------------------------
(* Leadership.                                                              *)

\* Who leads and has not lost its connection has the lock.
LeadersHold == \A n \in Node : leading[n] # "no" /\ n \notin torn => holder = n

LEMMA LeadersHoldKept ==
  ASSUME IInv, LeadersHold, [Next]_vars
  PROVE  LeadersHold'
<1>1. LeaderTypeOK
  BY DEF IInv, TypeOK
<1>2. CASE UNCHANGED leaderVars
  BY <1>2 DEF LeadersHold, leaderVars
<1>3. ASSUME NEW n \in Node, Acquire(n) \/ CancelTask(n) \/ StepDown(n) \/ Die(n)
      PROVE  LeadersHold'
  <2>1. CASE Acquire(n)
    BY <1>1, <2>1, LeaderAssumption DEF Acquire, LeadersHold, LeaderTypeOK
  <2>2. CASE CancelTask(n)
    BY <1>1, <2>2 DEF CancelTask, LeadersHold, LeaderTypeOK
  <2>3. CASE StepDown(n)
    BY <1>1, <2>3 DEF StepDown, LeadersHold, LeaderTypeOK
  <2>4. CASE Die(n)
    BY <1>1, <2>4 DEF Die, LeadersHold, LeaderTypeOK
  <2> QED BY <1>3, <2>1, <2>2, <2>3, <2>4
<1>4. CASE ConnectionLost
  BY <1>1, <1>4 DEF ConnectionLost, LeadersHold, LeaderTypeOK
<1>5. \/ UNCHANGED leaderVars
      \/ \E n \in Node : Acquire(n) \/ CancelTask(n) \/ StepDown(n) \/ Die(n)
      \/ ConnectionLost
  BY DEF Next, vars, leaderVars, Executes, Recovers, Begin, Rerun, Start, End, Finalise,
         FinaliseNot, Guard, ToolWrites, ToolAsks, ToolConsumes, ToolGivesUp, ToolChecks,
         ToolCommands, ToolFails, CollectDue, CollectInterrupted, RecoverSession,
         RecoverRun, Leads, NodeDies, LosesConnection, Time, People
<1> QED BY <1>2, <1>3, <1>4, <1>5

\* At most one node runs the task of a leader, its last steps included, but for
\* those that lost their connection and do not know it (cluster.RunLeader).
THEOREM OneLeads == Spec => []OneLeader
<1>1. Init => LeadersHold
  BY DEF Init, LeaderInit, LeadersHold
<1>2. LeadersHold => OneLeader
  <2> SUFFICES ASSUME LeadersHold PROVE OneLeader
    OBVIOUS
  <2>1. {n \in Node : leading[n] # "no" /\ n \notin torn} \subseteq {holder}
    BY DEF LeadersHold
  <2> QED BY <2>1, AtMostOne DEF OneLeader
<1>3. IInv /\ LeadersHold /\ [Next]_vars => LeadersHold'
  BY LeadersHoldKept
<1> QED BY <1>1, <1>2, <1>3, Invariance, PTL DEF Spec
-----------------------------------------------------------------------------
(* What a person stopped.                                                   *)

\* A session that its run has left behind was not cancelled, and cannot be any more;
\* a round that has not begun has no sessions.
NoneStopped ==
  /\ \A s \in Session : session[s].status # "none" /\ run[session[s].task].session # s
                          => ~session[s].cancelled
  /\ \A t \in Task : run[t].status = "none" => \A s \in Session : session[s].task # t

\* A step in which a round gets a session
Births == \E n \in Node, s \in Session :
  LET t == job[n].task IN
  /\ t \in Task
  /\ run[t].status = "none" \/ ReplaySafe(run[t].session)
  /\ Launch(n, t, s)

\* Only who is at work can be cancelled
CancelsRunning == \A s \in Session : session'[s].cancelled # session[s].cancelled => Running(s)

RunsGoOn == \A t \in Task : /\ run'[t].session = run[t].session
                            /\ run'[t].status = "none" => run[t].status = "none"

LEMMA OperationsCancel ==
  ASSUME SessionTypeOK, NEW s \in Session,
         \/ StartLease(s) \/ GuardTool(s) \/ CloseExpired(s)
         \/ \E status \in {"succeeded", "failed"} : Finish(s, status)
         \/ Cancel(s) \/ Expire(s) \/ DeadlinePasses(s)
  PROVE  CancelsRunning
<1>1. session[s] \in SessionRow
  BY DEF SessionTypeOK
<1>2. CASE Cancel(s)
  BY <1>2 DEF Cancel, CancelsRunning, SessionTypeOK
<1>3. CASE \/ StartLease(s) \/ GuardTool(s) \/ CloseExpired(s)
           \/ \E status \in {"succeeded", "failed"} : Finish(s, status)
  BY <1>1, <1>3 DEF StartLease, MayStart, GuardTool, CloseExpired, Finish, CancelsRunning,
                    Live, SessionTypeOK, SessionRow
<1>4. CASE Expire(s) \/ DeadlinePasses(s)
  BY <1>1, <1>4 DEF Expire, DeadlinePasses, CancelsRunning, SessionTypeOK, SessionRow
<1> QED BY <1>2, <1>3, <1>4

LEMMA OperationsKeep ==
  ASSUME SessionTypeOK, Rows, NEW s \in Session,
         \/ StartLease(s) \/ GuardTool(s) \/ CloseExpired(s)
         \/ \E status \in {"succeeded", "failed"} : Finish(s, status)
         \/ Cancel(s) \/ Expire(s) \/ DeadlinePasses(s)
  PROVE  Rows' /\ Keeps /\ NoneBorn /\ CancelsRunning
BY StartLeaseKeeps, GuardToolKeeps, CloseExpiredKeeps, FinishKeeps, MarksKeep,
   OperationsCancel

LEMMA RunsGoOnOrBirth ==
  ASSUME IInv, [Next]_vars
  PROVE  Births \/ RunsGoOn
<1>1. CASE UNCHANGED run
  BY <1>1 DEF RunsGoOn
<1>2. ASSUME NEW n \in Node, Begin(n), ~UNCHANGED run
      PROVE  Births
  <2>1. job[n].task \in Task
    BY <1>2 DEF Begin, IInv, JobsOK, JobOK
  <2> QED BY <1>2, <2>1 DEF Begin, Births
<1>3. ASSUME NEW n \in Node, Rerun(n), ~UNCHANGED run
      PROVE  Births
  <2>1. job[n].task \in Task
    BY <1>3 DEF Rerun, IInv, JobsOK, JobOK
  <2> QED BY <1>3, <2>1 DEF Rerun, Births
<1>4. ASSUME NEW n \in Node, Finalise(n)
      PROVE  RunsGoOn
  <2>1. PICK t \in Task, s \in Session : t = job[n].task /\ s = job[n].s
    BY <1>4, InSession DEF Finalise
  <2>2. run' = [run EXCEPT ![t].status = Outcome(n)] /\ Outcome(n) # "none"
    BY <1>4, <2>1 DEF Finalise, Outcome
  <2>3. run[t] \in Run
    BY DEF IInv, TypeOK
  <2> QED BY <2>2, <2>3 DEF RunsGoOn, IInv, TypeOK, Run
<1>5. ASSUME NEW s \in Session, RecoverSession(s)
      PROVE  RunsGoOn
  <2>1. PICK end \in {"interrupted", "failed"} :
          run' = [t \in Task |-> IF t \in RunOf(s) THEN [run[t] EXCEPT !.status = end]
                                 ELSE run[t]]
    BY <1>5 DEF RecoverSession
  <2>2. \A t \in Task : run[t] \in Run
    BY DEF IInv, TypeOK
  <2> QED BY <2>1, <2>2 DEF RunsGoOn, Run
<1>6. ASSUME NEW t \in Task, RecoverRun(t)
      PROVE  RunsGoOn
  <2>1. run[t] \in Run
    BY DEF IInv, TypeOK
  <2> QED BY <1>6, <2>1 DEF RecoverRun, RunsGoOn, IInv, TypeOK, Run
<1>7. \/ UNCHANGED run
      \/ \E n \in Node : Begin(n) \/ Rerun(n) \/ Finalise(n)
      \/ \E s \in Session : RecoverSession(s)
      \/ \E t \in Task : RecoverRun(t)
  BY DEF Next, vars, Executes, Recovers, Start, End, FinaliseNot, Guard, ToolWrites,
         ToolAsks, ToolConsumes, ToolGivesUp, ToolChecks, ToolCommands, ToolFails,
         CollectDue, CollectInterrupted, Leads, NodeDies, LosesConnection, Time, People
<1> QED BY <1>1, <1>2, <1>3, <1>4, <1>5, <1>6, <1>7

LEMMA SessionsGoOnOrBirth ==
  ASSUME IInv, [Next]_vars
  PROVE  \/ Births
         \/ Rows' /\ Keeps /\ NoneBorn /\ CancelsRunning
<1>1. SessionTypeOK /\ Rows
  BY DEF IInv, TypeOK
<1>2. CASE UNCHANGED session
  BY <1>1, <1>2, UnchangedKeeps DEF CancelsRunning
<1>3. ASSUME NEW n \in Node, Begin(n) \/ Rerun(n), ~UNCHANGED session
      PROVE  Births
  <2>1. job[n].task \in Task
    BY <1>3 DEF Begin, Rerun, IInv, JobsOK, JobOK
  <2> QED BY <1>3, <2>1 DEF Begin, Rerun, Births
<1>4. ASSUME NEW n \in Node, Start(n) \/ Guard(n) \/ End(n), ~UNCHANGED session
      PROVE  Rows' /\ Keeps /\ NoneBorn /\ CancelsRunning
  <2>1. job[n].s \in Session
    BY <1>4, InSession DEF Start, Guard, End
  <2>2. \/ StartLease(job[n].s) \/ GuardTool(job[n].s)
        \/ \E status \in {"succeeded", "failed"} : Finish(job[n].s, status)
    BY <1>4 DEF Start, Guard, End
  <2> QED BY <1>1, <2>1, <2>2, OperationsKeep
<1>5. ASSUME NEW s \in Session, RecoverSession(s) \/ Time(s) \/ People(s), ~UNCHANGED session
      PROVE  Rows' /\ Keeps /\ NoneBorn /\ CancelsRunning
  <2>1. CloseExpired(s) \/ Cancel(s) \/ Expire(s) \/ DeadlinePasses(s)
    BY <1>5 DEF RecoverSession, Time, People
  <2> QED BY <1>1, <2>1, OperationsKeep
<1>6. \/ UNCHANGED session
      \/ \E n \in Node : Begin(n) \/ Rerun(n) \/ Start(n) \/ Guard(n) \/ End(n)
      \/ \E s \in Session : RecoverSession(s) \/ Time(s) \/ People(s)
  BY DEF Next, vars, Executes, Recovers, Finalise, FinaliseNot, ToolWrites, ToolAsks,
         ToolConsumes, ToolGivesUp, ToolChecks, ToolCommands, ToolFails, CollectDue,
         CollectInterrupted, RecoverRun, Leads, NodeDies, LosesConnection
<1> QED BY <1>2, <1>3, <1>4, <1>5, <1>6

\* Of a round that gets a session no other session was cancelled
LEMMA BirthIsFree ==
  ASSUME IInv, NoneStopped, NEW t \in Task, run[t].status = "none" \/ ReplaySafe(run[t].session)
  PROVE  \A r \in Session : session[r].task = t => ~session[r].cancelled
<1> SUFFICES ASSUME NEW r \in Session, session[r].task = t PROVE ~session[r].cancelled
  OBVIOUS
<1>1. session[r].status # "none"
  BY TaskIsKnown DEF IInv
<1>2. CASE run[t].session = r
  BY <1>2 DEF NoneStopped, ReplaySafe
<1>3. CASE run[t].session # r
  BY <1>1, <1>3 DEF NoneStopped
<1> QED BY <1>2, <1>3

LEMMA BirthStep ==
  ASSUME IInv, NoneStopped, Births
  PROVE  /\ NoneStopped'
         /\ \A s, r \in Session : /\ session[s].status = "none"
                                  /\ session'[s].status # "none"
                                  /\ session[r].task = session'[s].task
                                 => ~session[r].cancelled
<1>1. PICK t \in Task, s \in Session :
        /\ run[t].status = "none" \/ ReplaySafe(run[t].session)
        /\ Create(s, t)
        /\ run' = [run EXCEPT ![t] = [status |-> "running", session |-> s]]
  BY DEF Births, Launch
<1>2. /\ session'[s].status = "running" /\ session'[s].task = t
      /\ \A r \in Session \ {s} : session'[r] = session[r]
  BY <1>1, CreateKeeps DEF IInv, TypeOK
<1>3. /\ run'[t].session = s /\ run'[t].status = "running"
      /\ \A u \in Task \ {t} : run'[u] = run[u]
  BY <1>1 DEF IInv, TypeOK
<1>4. \A r \in Session : session[r].task = t => ~session[r].cancelled
  BY <1>1, BirthIsFree
<1>5. ASSUME NEW r \in Session, session'[r].status # "none", run'[session'[r].task].session # r
      PROVE  ~session'[r].cancelled
  <2>1. r # s
    BY <1>2, <1>3, <1>5
  <2>2. session'[r] = session[r] /\ session[r].task \in Task
    BY <1>2, <1>5, <2>1 DEF IInv, Rows
  <2>3. CASE session[r].task = t
    BY <1>4, <2>2, <2>3
  <2>4. CASE session[r].task # t
    BY <1>3, <1>5, <2>2, <2>4 DEF NoneStopped
  <2> QED BY <2>3, <2>4
<1>6. ASSUME NEW u \in Task, run'[u].status = "none", NEW r \in Session
      PROVE  session'[r].task # u
  <2>1. u # t /\ run[u].status = "none"
    BY <1>3, <1>6
  <2> QED BY <1>2, <2>1 DEF NoneStopped
<1> QED BY <1>2, <1>4, <1>5, <1>6 DEF NoneStopped

LEMMA NoneStoppedKept ==
  ASSUME IInv, NoneStopped, Rows', Keeps, NoneBorn, CancelsRunning, RunsGoOn
  PROVE  NoneStopped'
<1>1. ASSUME NEW s \in Session, session'[s].status # "none", run'[session'[s].task].session # s
      PROVE  ~session'[s].cancelled
  <2>1. session[s].status # "none" /\ session'[s].task = session[s].task
    BY <1>1 DEF NoneBorn, Keeps
  <2>2. session[s].task \in Task
    BY <2>1 DEF IInv, Rows
  <2>3. run[session[s].task].session # s
    BY <1>1, <2>1, <2>2 DEF RunsGoOn
  <2>4. ~session[s].cancelled /\ ~Running(s)
    BY <2>1, <2>3 DEF NoneStopped, IInv, LeftBehind, Over, Running
  <2> QED BY <2>4 DEF CancelsRunning
<1>2. ASSUME NEW t \in Task, run'[t].status = "none", NEW s \in Session
      PROVE  session'[s].task # t
  <2>1. session[s].task # t
    BY <1>2 DEF RunsGoOn, NoneStopped
  <2>2. CASE session[s].status = "none"
    BY <2>2, SessionAssumption DEF NoneBorn, Rows
  <2>3. CASE session[s].status # "none"
    BY <2>1, <2>3 DEF Keeps
  <2> QED BY <2>2, <2>3
<1> QED BY <1>1, <1>2 DEF NoneStopped

\* No session is created for a round of which a person stopped one (scheduler.go
\* replaySafeSession, begin, rerun).
THEOREM StopsAreFinal == Spec => StopIsFinal
<1> DEFINE Final ==
      \A s \in Session : session[s].status = "none" /\ session'[s].status # "none" =>
        \A r \in Session : session[r].task = session'[s].task => ~session[r].cancelled
<1>1. Init => NoneStopped
  BY SessionAssumption DEF Init, SessionInit, NoSession, NoneStopped
<1>2. IInv /\ NoneStopped /\ [Next]_vars => NoneStopped' /\ Final
  <2> SUFFICES ASSUME IInv, NoneStopped, [Next]_vars PROVE NoneStopped' /\ Final
    OBVIOUS
  <2>1. CASE Births
    BY <2>1, BirthStep
  <2>2. CASE ~Births
    <3>1. Rows' /\ Keeps /\ NoneBorn /\ CancelsRunning /\ RunsGoOn
      BY <2>2, RunsGoOnOrBirth, SessionsGoOnOrBirth
    <3>2. NoneStopped'
      BY <3>1, NoneStoppedKept
    <3> QED BY <3>1, <3>2 DEF NoneBorn
  <2> QED BY <2>1, <2>2
<1> HIDE DEF Final
<1>3. IInv /\ NoneStopped /\ [Next]_vars => [Final]_vars
  BY <1>2
<1>4. Spec => [][Final]_vars
  BY <1>1, <1>2, <1>3, Invariance, PTL DEF Spec
<1> QED BY <1>4 DEF StopIsFinal, Final
-----------------------------------------------------------------------------
(* Approvals.                                                               *)

\* Two goroutines are about one session only when it is over and may be replayed
Alone ==
  /\ \A n \in Node : job[n].at \in {"idle", "begin"} => job[n].s = 0
  /\ \A n, m \in Node : n # m /\ job[n].s = job[m].s /\ job[n].s # 0
                          => Over(job[n].s) /\ session[job[n].s].safe

\* An approval is of a session that may have had an effect; one that came too late
\* is of a session that will not be alive again
ApprovalsOK == \A s \in Session :
  /\ approval[s] # "none" => session[s].status # "none" /\ ~session[s].safe
  /\ s \in stale => approval[s] # "none" /\ ~Live(s)

ApprovedOK(n) ==
  /\ job[n].at \in {"approved", "issue"} => approval[job[n].s] = "consumed"
  /\ job[n].at = "issue" => job[n].s \notin stale

GateInv == Alone /\ ApprovalsOK /\ \A n \in Node : ApprovedOK(n)

SessionStep(s) ==
  \/ StartLease(s) \/ GuardTool(s) \/ CloseExpired(s)
  \/ \E status \in {"succeeded", "failed"} : Finish(s, status)
  \/ Cancel(s) \/ Expire(s) \/ DeadlinePasses(s)

LEMMA SessionSteps ==
  ASSUME IInv, [Next]_vars
  PROVE  \/ UNCHANGED session
         \/ \E n \in Node : (Begin(n) \/ Rerun(n)) /\ ~UNCHANGED session
         \/ \E s \in Session : SessionStep(s)
<1>1. ASSUME NEW n \in Node, Start(n) \/ Guard(n) \/ End(n), ~UNCHANGED session
      PROVE  \E s \in Session : SessionStep(s)
  <2>1. job[n].s \in Session
    BY <1>1, InSession DEF Start, Guard, End
  <2>2. SessionStep(job[n].s)
    BY <1>1 DEF Start, Guard, End, SessionStep
  <2> QED BY <2>1, <2>2
<1>2. ASSUME NEW s \in Session, RecoverSession(s) \/ Time(s) \/ People(s), ~UNCHANGED session
      PROVE  SessionStep(s)
  BY <1>2 DEF RecoverSession, Time, People, SessionStep
<1>3. \/ UNCHANGED session
      \/ \E n \in Node : Begin(n) \/ Rerun(n) \/ Start(n) \/ Guard(n) \/ End(n)
      \/ \E s \in Session : RecoverSession(s) \/ Time(s) \/ People(s)
  BY DEF Next, vars, Executes, Recovers, Finalise, FinaliseNot, ToolWrites, ToolAsks,
         ToolConsumes, ToolGivesUp, ToolChecks, ToolCommands, ToolFails, CollectDue,
         CollectInterrupted, RecoverRun, Leads, NodeDies, LosesConnection
<1> QED BY <1>1, <1>2, <1>3

\* A session that had an effect and is not alive any more will not be again
DeadStay == \A s \in Session :
  session[s].status # "none" /\ ~session[s].safe /\ ~Live(s) => ~Live(s)'

LEMMA SessionsKeep ==
  ASSUME IInv, [Next]_vars
  PROVE  Keeps /\ DeadStay
<1>0. SessionTypeOK /\ Rows
  BY DEF IInv, TypeOK
<1>1. CASE UNCHANGED session
  BY <1>0, <1>1, UnchangedKeeps DEF DeadStay, Live, Running, Expired
<1>2. ASSUME NEW n \in Node, Begin(n) \/ Rerun(n), ~UNCHANGED session
      PROVE  Keeps /\ DeadStay
  <2>1. PICK s \in Session, t \in Task : Create(s, t)
    BY <1>2 DEF Begin, Rerun, Launch, IInv, JobsOK, JobOK
  <2> QED BY <1>0, <2>1, CreateKeeps DEF DeadStay, Live, Running, Expired
<1>3. ASSUME NEW r \in Session, SessionStep(r) PROVE Keeps /\ DeadStay
  <2>1. Keeps
    BY <1>0, <1>3, OperationsKeep DEF SessionStep
  <2>2. \A s \in Session \ {r} : session'[s] = session[s]
    BY <1>0, <1>3 DEF SessionStep, StartLease, GuardTool, CloseExpired, Finish, Cancel, Expire,
                      DeadlinePasses, SessionTypeOK
  <2>3. session[r] \in SessionRow
    BY <1>0 DEF SessionTypeOK
  <2>4. ASSUME ~session[r].safe, ~Live(r) PROVE ~Live(r)'
    <3>1. ~StartLease(r) /\ ~DeadlinePasses(r) /\ ~GuardTool(r)
      BY <1>0, <2>4 DEF StartLease, MayStart, DeadlinePasses, GuardTool, Rows
    <3>2. CASE \E status \in {"succeeded", "failed"} : Finish(r, status)
      BY <1>0, <2>3, <3>2 DEF Finish, Live, Running, SessionTypeOK, SessionRow
    <3>3. CASE CloseExpired(r)
      BY <1>0, <2>3, <3>3 DEF CloseExpired, Live, Running, SessionTypeOK, SessionRow
    <3>4. CASE Cancel(r) \/ Expire(r)
      BY <1>0, <2>3, <2>4, <3>4 DEF Cancel, Expire, Live, Running, Expired, SessionTypeOK, SessionRow
    <3> QED BY <1>3, <3>1, <3>2, <3>3, <3>4 DEF SessionStep
  <2> QED BY <2>1, <2>2, <2>4 DEF DeadStay, Live, Running, Expired
<1> QED BY <1>1, <1>2, <1>3, SessionSteps

\* What becomes of a goroutine
Moves(n) ==
  \/ job'[n] = job[n]
  \/ job'[n] = IdleJob
  \/ job'[n].at = "begin" /\ job'[n].s = 0
  \/ /\ job[n].at \notin {"idle", "begin"} /\ job'[n].s = job[n].s
     /\ job'[n].at \notin {"idle", "begin"}
  \/ /\ job'[n].at = "rerun" /\ job'[n].s \in Session
     /\ Over(job'[n].s) /\ session[job'[n].s].safe
  \/ /\ job'[n].at = "start" /\ job'[n].s \in Session
     /\ session[job'[n].s].status = "none"

LEMMA JobsMove ==
  ASSUME IInv, [Next]_vars
  PROVE  \/ UNCHANGED job
         \/ \E n \in Node : Moves(n) /\ \A m \in Node \ {n} : job'[m] = job[m]
<1>0. job \in [Node -> Job]
  BY DEF IInv, TypeOK
<1>1. ASSUME NEW n \in Node, NEW new, job' = [job EXCEPT ![n] = new]
      PROVE  job'[n] = new /\ \A m \in Node \ {n} : job'[m] = job[m]
  BY <1>0, <1>1
<1>2. ASSUME NEW n \in Node, NEW t \in Task, CollectDue(n, t)
      PROVE  Moves(n) /\ \A m \in Node \ {n} : job'[m] = job[m]
  BY <1>1, <1>2 DEF CollectDue, IdleJob, Moves
<1>3. ASSUME NEW n \in Node, NEW t \in Task, CollectInterrupted(n, t)
      PROVE  Moves(n) /\ \A m \in Node \ {n} : job'[m] = job[m]
  <2>1. run[t].session \in Session
    BY <1>3, SessionAssumption DEF CollectInterrupted, IInv, RunsOK, RunOK, TypeOK, Run, Session
  <2> QED BY <1>1, <1>3, <2>1 DEF CollectInterrupted, ReplaySafe, IdleJob, Moves
<1>4. ASSUME NEW n \in Node, NEW t, NEW s \in Session, Launch(n, t, s)
      PROVE  Moves(n) /\ \A m \in Node \ {n} : job'[m] = job[m]
  <2>1. job[n] \in Job
    BY <1>0
  <2>2. /\ job'[n].at = "start" /\ job'[n].s = s
        /\ \A m \in Node \ {n} : job'[m] = job[m]
    BY <1>0, <1>4, <2>1 DEF Launch, Job
  <2> QED BY <1>4, <2>2 DEF Launch, Create, Moves
<1>5. ASSUME NEW n \in Node, Rest(n)
      PROVE  Moves(n) /\ \A m \in Node \ {n} : job'[m] = job[m]
  BY <1>0, <1>5 DEF Rest, Moves
<1>6. ASSUME NEW n \in Node, NEW at \in {"work", "guarded", "await", "approved", "issue"},
             job[n].at \notin {"idle", "begin"}, GoTo(n, at)
      PROVE  Moves(n) /\ \A m \in Node \ {n} : job'[m] = job[m]
  <2>1. job[n] \in Job
    BY <1>0
  <2> QED BY <1>0, <1>6, <2>1 DEF GoTo, Job, Moves
<1>7. ASSUME NEW n \in Node, job[n].at \notin {"idle", "begin"},
             \/ \E ok \in BOOLEAN : job' = [job EXCEPT ![n].at = "final", ![n].ok = ok]
             \/ Retries(n)
      PROVE  Moves(n) /\ \A m \in Node \ {n} : job'[m] = job[m]
  <2>1. job[n] \in Job
    BY <1>0
  <2>2. CASE \E ok \in BOOLEAN : job' = [job EXCEPT ![n].at = "final", ![n].ok = ok]
    <3>1. /\ job'[n].at = "final" /\ job'[n].s = job[n].s
          /\ \A m \in Node \ {n} : job'[m] = job[m]
      BY <1>0, <2>1, <2>2 DEF Job
    <3> QED BY <1>7, <3>1 DEF Moves
  <2>3. CASE job' = [job EXCEPT ![n].at = "rerun", ![n].again = TRUE, ![n].ok = FALSE]
    <3>1. /\ job'[n].at = "rerun" /\ job'[n].s = job[n].s
          /\ \A m \in Node \ {n} : job'[m] = job[m]
      BY <1>0, <2>1, <2>3 DEF Job
    <3> QED BY <1>7, <3>1 DEF Moves
  <2> QED BY <1>5, <1>7, <2>2, <2>3 DEF Retries
<1>8. ASSUME NEW n \in Node, Executes(n)
      PROVE  Moves(n) /\ \A m \in Node \ {n} : job'[m] = job[m]
  <2>1. CASE Begin(n) \/ Rerun(n)
    BY <1>4, <1>5, <2>1 DEF Begin, Rerun
  <2>2. CASE Start(n) \/ End(n) \/ Finalise(n) \/ FinaliseNot(n)
    BY <1>5, <1>6, <1>7, <2>2 DEF Start, End, Finalise, FinaliseNot
  <2>3. CASE \/ Guard(n) \/ ToolWrites(n) \/ ToolAsks(n) \/ ToolConsumes(n) \/ ToolGivesUp(n)
             \/ ToolChecks(n) \/ ToolCommands(n) \/ ToolFails(n)
    BY <1>6, <2>3 DEF Guard, ToolWrites, ToolAsks, ToolConsumes, ToolGivesUp, ToolChecks,
                      ToolCommands, ToolFails
  <2> QED BY <1>8, <2>1, <2>2, <2>3 DEF Executes
<1> QED BY <1>2, <1>3, <1>5, <1>8
        DEF Next, vars, Recovers, RecoverSession, RecoverRun, Leads, NodeDies, LosesConnection,
            Time, People

LEMMA AloneKept ==
  ASSUME IInv, Alone, [Next]_vars
  PROVE  Alone'
<1> DEFINE Harmless(x) == session'[x].status \in {"succeeded", "failed"} /\ session'[x].safe
<1>0. Keeps
  BY SessionsKeep
<1>1. ASSUME NEW n \in Node, job[n].s # 0
      PROVE  job[n].s \in Session /\ session[job[n].s].status # "none"
  <2>1. job[n].at \notin {"idle", "begin"}
    BY <1>1 DEF Alone
  <2> QED BY <2>1, InSession
<1>2. ASSUME NEW n \in Node, NEW m \in Node, n # m, job'[m] = job[m], Moves(n),
             job'[n].s = job[m].s, job[m].s # 0
      PROVE  Harmless(job[m].s)
  <2> DEFINE s == job[m].s
  <2>1. s \in Session /\ session[s].status # "none" /\ s # 0 /\ job'[n].s = s
    BY <1>1, <1>2
  <2>2. job[n].s = s => Over(s) /\ session[s].safe
    BY <1>2 DEF Alone
  <2> HIDE DEF s
  <2>3. Over(s) /\ session[s].safe
    BY <1>2, <2>1, <2>2 DEF Moves, IdleJob
  <2>4. session'[s].status = session[s].status /\ session'[s].safe = session[s].safe
    BY <1>0, <2>1, <2>3 DEF Keeps
  <2> QED BY <2>3, <2>4 DEF Over, s
<1>3. ASSUME NEW n \in Node, job[n].at \in {"idle", "begin"} => job[n].s = 0, Moves(n)
      PROVE  job'[n].at \in {"idle", "begin"} => job'[n].s = 0
  BY <1>3 DEF Moves, IdleJob
<1>4. ASSUME NEW n \in Node, NEW m \in Node, n # m, job'[n] = job[n], job'[m] = job[m],
             job[n].s = job[m].s, job[m].s # 0
      PROVE  Harmless(job[m].s)
  BY <1>2, <1>4 DEF Moves
<1>5. CASE UNCHANGED job
  BY <1>4, <1>5 DEF Alone, Over
<1>6. ASSUME NEW k \in Node, Moves(k), \A m \in Node \ {k} : job'[m] = job[m]
      PROVE  Alone'
  <2>1. ASSUME NEW n \in Node PROVE job'[n].at \in {"idle", "begin"} => job'[n].s = 0
    <3>1. CASE n = k
      BY <1>3, <1>6, <3>1 DEF Alone
    <3>2. CASE n # k
      BY <1>6, <3>2 DEF Alone
    <3> QED BY <3>1, <3>2
  <2>2. ASSUME NEW n \in Node, NEW m \in Node, n # m, job'[n].s = job'[m].s, job'[n].s # 0
        PROVE  Harmless(job'[n].s)
    <3>1. CASE n = k
      <4>1. job'[m] = job[m]
        BY <1>6, <2>2, <3>1
      <4>2. Harmless(job[m].s)
        BY <1>2, <1>6, <2>2, <3>1, <4>1
      <4> QED BY <2>2, <4>1, <4>2
    <3>2. CASE m = k
      <4>1. job'[n] = job[n]
        BY <1>6, <2>2, <3>2
      <4>2. Harmless(job[n].s)
        BY <1>2, <1>6, <2>2, <3>2, <4>1
      <4> QED BY <2>2, <4>1, <4>2
    <3>3. CASE n # k /\ m # k
      <4>1. job'[n] = job[n] /\ job'[m] = job[m]
        BY <1>6, <3>3
      <4>2. Harmless(job[m].s)
        BY <1>4, <2>2, <4>1
      <4> QED BY <2>2, <4>1, <4>2
    <3> QED BY <3>1, <3>2, <3>3
  <2> QED BY <2>1, <2>2 DEF Alone, Over
<1> QED BY <1>5, <1>6, JobsMove

\* The steps that leave the approvals alone
LEMMA ApprovalsStay ==
  ASSUME IInv, ApprovalsOK, [Next]_vars, UNCHANGED gateVars
  PROVE  ApprovalsOK'
<1> SUFFICES ASSUME NEW s \in Session
             PROVE  /\ approval[s] # "none" => session'[s].status # "none" /\ ~session'[s].safe
                    /\ s \in stale => approval[s] # "none" /\ ~Live(s)'
  BY DEF ApprovalsOK, gateVars
<1>1. Keeps /\ DeadStay
  BY SessionsKeep
<1> QED BY <1>1 DEF ApprovalsOK, Keeps, DeadStay

\* Who waits for an approval, or has one, is alone in its session
LEMMA OthersApproved ==
  ASSUME IInv, GateInv, NEW n \in Node,
         \A r \in Session : r # job[n].s => approval'[r] = approval[r] /\ (r \in stale' => r \in stale),
         NEW m \in Node, m # n, job'[m] = job[m]
  PROVE  ApprovedOK(m)'
<1> SUFFICES ASSUME job[m].at \in {"approved", "issue"}
             PROVE  /\ approval'[job[m].s] = "consumed"
                    /\ job[m].at = "issue" => job[m].s \notin stale'
  BY DEF ApprovedOK
<1>1. job[m].s \in Session /\ ~session[job[m].s].safe
  BY InSession DEF IInv, JobsOK, JobOK
<1>2. job[m].s # job[n].s
  <2>1. job[m].s # 0
    BY <1>1, SessionAssumption DEF Session
  <2> QED BY <1>1, <2>1 DEF GateInv, Alone
<1> QED BY <1>1, <1>2 DEF GateInv, ApprovedOK

LEMMA GateStep ==
  ASSUME IInv, GateInv, NEW n \in Node,
         ToolAsks(n) \/ ToolConsumes(n) \/ ToolChecks(n) \/ ToolGivesUp(n) \/ ToolCommands(n)
         \/ ToolFails(n) \/ NodeDies(n)
  PROVE  ApprovalsOK' /\ \A m \in Node : ApprovedOK(m)'
<1> DEFINE s == job[n].s
<1>0. UNCHANGED session /\ job \in [Node -> Job] /\ job[n] \in Job
  BY DEF ToolAsks, ToolConsumes, ToolChecks, ToolGivesUp, ToolCommands, ToolFails, NodeDies,
         IInv, TypeOK
<1>1. /\ approval \in [Session -> {"none", "pending", "approved", "consumed"}]
      /\ ApprovalsOK /\ \A m \in Node : ApprovedOK(m)
  BY DEF IInv, TypeOK, GateTypeOK, GateInv
<1>2. \A m \in Node \ {n} : job'[m] = job[m]
  BY <1>0 DEF ToolAsks, ToolConsumes, ToolChecks, ToolGivesUp, ToolCommands, ToolFails, NodeDies,
              GoTo, Rest
<1>3. ASSUME \A r \in Session : r # s => approval'[r] = approval[r] /\ (r \in stale' => r \in stale),
             ApprovedOK(n)',
             s \in Session => /\ approval'[s] # "none" => session[s].status # "none" /\ ~session[s].safe
                              /\ s \in stale' => approval'[s] # "none" /\ ~Live(s)
      PROVE  ApprovalsOK' /\ \A m \in Node : ApprovedOK(m)'
  <2>1. \A m \in Node : ApprovedOK(m)'
    BY <1>2, <1>3, OthersApproved
  <2>2. \A r \in Session : Live(r)' = Live(r)
    BY <1>0 DEF Live, Running, Expired
  <2>3. ApprovalsOK'
    BY <1>0, <1>1, <1>3, <2>2 DEF ApprovalsOK
  <2> QED BY <2>1, <2>3
<1>4. ASSUME job[n].at \notin {"idle", "begin"}
      PROVE  s \in Session /\ session[s].status # "none"
  BY <1>4, InSession
<1>5. CASE ToolAsks(n)
  <2>1. PICK as \in {"pending", "consumed"} :
          Ask(s, as) /\ GoTo(n, IF as = "pending" THEN "await" ELSE "approved") /\ job[n].at = "guarded"
    BY <1>5 DEF ToolAsks
  <2>2. s \in Session /\ session[s].status # "none" /\ ~session[s].safe
    BY <1>4, <2>1 DEF IInv, JobsOK, JobOK
  <2>3. /\ approval'[s] = as /\ stale' = stale /\ approval[s] = "none"
        /\ \A r \in Session : r # s => approval'[r] = approval[r]
    BY <1>1, <2>1, <2>2 DEF Ask
  <2>4. s \notin stale
    BY <1>1, <2>2, <2>3 DEF ApprovalsOK
  <2>5. job'[n].at = (IF as = "pending" THEN "await" ELSE "approved") /\ job'[n].s = s
    BY <1>0, <2>1 DEF GoTo, Job
  <2>6. ApprovedOK(n)'
    BY <2>3, <2>5 DEF ApprovedOK
  <2> HIDE DEF s
  <2> QED BY <1>3, <2>2, <2>3, <2>4, <2>6
<1>6. CASE ToolConsumes(n)
  <2>1. Consume(s) /\ GoTo(n, "approved") /\ job[n].at = "await"
    BY <1>6 DEF ToolConsumes
  <2>2. s \in Session
    BY <1>4, <2>1
  <2>3. /\ approval'[s] = "consumed" /\ stale' = stale /\ approval[s] = "approved"
        /\ \A r \in Session : r # s => approval'[r] = approval[r]
    BY <1>1, <2>1, <2>2 DEF Consume
  <2>4. ApprovedOK(n)'
    <3>1. job'[n].at = "approved" /\ job'[n].s = s
      BY <1>0, <2>1 DEF GoTo, Job
    <3> QED BY <2>3, <3>1 DEF ApprovedOK
  <2>5. session[s].status # "none" /\ ~session[s].safe /\ (s \in stale => ~Live(s))
    BY <1>1, <2>2, <2>3 DEF ApprovalsOK
  <2> HIDE DEF s
  <2> QED BY <1>3, <2>3, <2>4, <2>5
<1>7. CASE ToolChecks(n)
  <2>1. Live(s) /\ GoTo(n, "issue") /\ job[n].at = "approved" /\ UNCHANGED <<approval, stale>>
    BY <1>7 DEF ToolChecks, AuthorizeAgain, gateVars
  <2>2. s \in Session
    BY <1>4, <2>1
  <2>3. s \notin stale /\ approval[s] = "consumed"
    BY <1>1, <2>1, <2>2 DEF ApprovalsOK, ApprovedOK
  <2>4. ApprovedOK(n)'
    <3>1. job'[n].at = "issue" /\ job'[n].s = s
      BY <1>0, <2>1 DEF GoTo, Job
    <3> QED BY <2>1, <2>3, <3>1 DEF ApprovedOK
  <2>5. session[s].status # "none" /\ ~session[s].safe
    BY <1>1, <2>2, <2>3 DEF ApprovalsOK
  <2> HIDE DEF s
  <2> QED BY <1>3, <2>1, <2>3, <2>4, <2>5
<1>8. ASSUME job'[n].at \notin {"approved", "issue"}, Leave(s) \/ (s = 0 /\ UNCHANGED gateVars)
      PROVE  ApprovalsOK' /\ \A m \in Node : ApprovedOK(m)'
  <2>1. ApprovedOK(n)'
    BY <1>8 DEF ApprovedOK
  <2>2. CASE Leave(s)
    <3>1. /\ \A r \in Session : r # s => approval'[r] = approval[r] /\ (r \in stale' => r \in stale)
          /\ s \in Session => approval'[s] = "none" /\ s \notin stale'
      BY <1>1, <2>2 DEF Leave
    <3> HIDE DEF s
    <3> QED BY <1>3, <2>1, <3>1
  <2>3. CASE s = 0 /\ UNCHANGED gateVars
    <3>1. s \notin Session /\ UNCHANGED <<approval, stale>>
      BY <2>3, SessionAssumption DEF Session, gateVars
    <3> HIDE DEF s
    <3> QED BY <1>3, <2>1, <3>1
  <2> QED BY <1>8, <2>2, <2>3
<1>9. CASE ToolGivesUp(n) \/ ToolCommands(n) \/ ToolFails(n)
  <2>1. Leave(s) /\ GoTo(n, "work")
    BY <1>9 DEF ToolGivesUp, ToolCommands, ToolFails
  <2>2. job'[n].at = "work"
    BY <1>0, <2>1 DEF GoTo, Job
  <2> QED BY <1>8, <2>1, <2>2
<1>10. CASE NodeDies(n)
  <2>1. job'[n].at = "idle"
    BY <1>0, <1>10 DEF NodeDies, Rest, IdleJob
  <2> QED BY <1>8, <1>10, <2>1 DEF NodeDies
<1> QED BY <1>5, <1>6, <1>7, <1>9, <1>10

LEMMA DecideStep ==
  ASSUME IInv, GateInv, NEW s \in Session, Decide(s), UNCHANGED <<session, job>>
  PROVE  ApprovalsOK' /\ \A n \in Node : ApprovedOK(n)'
<1>1. approval \in [Session -> {"none", "pending", "approved", "consumed"}]
  BY DEF IInv, TypeOK, GateTypeOK
<1>2. /\ approval[s] = "pending" /\ approval'[s] = "approved"
      /\ \A r \in Session : r # s => approval'[r] = approval[r] /\ (r \in stale' => r \in stale)
      /\ s \in stale' => s \in stale \/ ~Live(s)
  BY <1>1 DEF Decide
<1>3. \A r \in Session : Live(r)' = Live(r)
  BY DEF Live, Running, Expired
<1>4. ApprovalsOK'
  BY <1>2, <1>3 DEF GateInv, ApprovalsOK
<1>5. ASSUME NEW n \in Node PROVE ApprovedOK(n)'
  <2> SUFFICES ASSUME job[n].at \in {"approved", "issue"}
               PROVE  /\ approval'[job[n].s] = "consumed"
                      /\ job[n].at = "issue" => job[n].s \notin stale'
    BY DEF ApprovedOK
  <2>1. job[n].s \in Session
    BY InSession
  <2> QED BY <1>2, <2>1 DEF GateInv, ApprovedOK
<1> QED BY <1>4, <1>5

LEMMA GateInvKept ==
  ASSUME IInv, GateInv, [Next]_vars
  PROVE  GateInv'
<1>0. Alone'
  BY AloneKept DEF GateInv
<1>1. ASSUME NEW n \in Node,
             ToolAsks(n) \/ ToolConsumes(n) \/ ToolChecks(n) \/ ToolGivesUp(n) \/ ToolCommands(n)
             \/ ToolFails(n) \/ NodeDies(n)
      PROVE  GateInv'
  BY <1>0, <1>1, GateStep DEF GateInv
<1>2. ASSUME NEW s \in Session, Decide(s), UNCHANGED <<session, job>>
      PROVE  GateInv'
  BY <1>0, <1>2, DecideStep DEF GateInv
<1>3. ASSUME UNCHANGED gateVars,
             \A n \in Node : job'[n].at \in {"approved", "issue"} => job'[n] = job[n]
      PROVE  GateInv'
  <2>1. UNCHANGED <<approval, stale>>
    BY <1>3 DEF gateVars
  <2>2. \A n \in Node : ApprovedOK(n)'
    BY <1>3, <2>1 DEF GateInv, ApprovedOK
  <2> QED BY <1>0, <1>3, <2>2, ApprovalsStay DEF GateInv
<1>4. job \in [Node -> Job]
  BY DEF IInv, TypeOK
<1>5. ASSUME NEW n \in Node,
             \/ Begin(n) \/ Rerun(n) \/ Start(n) \/ End(n) \/ Finalise(n) \/ FinaliseNot(n)
             \/ Guard(n) \/ ToolWrites(n)
             \/ \E t \in Task : CollectDue(n, t) \/ CollectInterrupted(n, t)
      PROVE  GateInv'
  <2>1. UNCHANGED gateVars /\ job[n] \in Job
    BY <1>4, <1>5 DEF Begin, Rerun, Start, End, Finalise, FinaliseNot, Guard, ToolWrites,
                      CollectDue, CollectInterrupted
  <2>2. /\ \A m \in Node \ {n} : job'[m] = job[m]
        /\ job'[n].at \notin {"approved", "issue"}
    <3>1. CASE Begin(n) \/ Rerun(n) \/ Guard(n) \/ ToolWrites(n)
      BY <1>4, <2>1, <3>1 DEF Begin, Rerun, Guard, ToolWrites, Launch, GoTo, Rest, IdleJob, Job
    <3>2. CASE Start(n) \/ End(n)
      BY <1>4, <2>1, <3>2 DEF Start, End, GoTo, Job
    <3>3. CASE Finalise(n) \/ FinaliseNot(n)
      BY <1>4, <2>1, <3>3 DEF Finalise, FinaliseNot, Retries, Rest, IdleJob, Job
    <3>4. CASE \E t \in Task : CollectDue(n, t) \/ CollectInterrupted(n, t)
      BY <1>4, <2>1, <3>4 DEF CollectDue, CollectInterrupted, IdleJob
    <3> QED BY <1>5, <3>1, <3>2, <3>3, <3>4
  <2> QED BY <1>3, <2>1, <2>2
<1>6. CASE \/ Recovers \/ LosesConnection \/ \E n \in Node : Leads(n)
           \/ \E s \in Session : Time(s) \/ (People(s) /\ Cancel(s) /\ UNCHANGED gateVars)
           \/ UNCHANGED vars
  BY <1>3, <1>6 DEF Recovers, RecoverSession, RecoverRun, LosesConnection, Leads, Time, People, vars
<1> QED BY <1>1, <1>2, <1>5, <1>6 DEF Next, Executes, People

LEMMA GateInvariant == Spec => []GateInv
<1>1. Init => GateInv
  <2> SUFFICES ASSUME Init PROVE GateInv
    OBVIOUS
  <2>1. /\ job = [n \in Node |-> IdleJob] /\ stale = {}
        /\ approval = [s \in Session |-> "none"]
    BY DEF Init, GateInit
  <2> QED BY <2>1 DEF GateInv, Alone, ApprovalsOK, ApprovedOK, IdleJob
<1>2. IInv /\ GateInv /\ [Next]_vars => GateInv'
  BY GateInvKept
<1> QED BY <1>1, <1>2, Invariance, PTL DEF Spec

\* A command is issued when no policy asks for more, or on an approval that was
\* given and consumed while the session was alive (gate.go authorize, await, and
\* authorize again): the second look is not fooled, because a session that had an
\* effect and is not alive will not be again, and no other goroutine is about it.
THEOREM ApprovalsAreInTime == Spec => []ApprovedInTime
<1>1. GateInv => ApprovedInTime
  BY DEF GateInv, ApprovedOK, ApprovedInTime, InTime
<1> QED BY <1>1, GateInvariant, PTL
-----------------------------------------------------------------------------
(* The limit on sessions.                                                   *)

RunningSessions == {s \in Session : Running(s)}

\* Who is at work for the schedule leads
LeaderWorks == \A n \in Node : job[n].at # "idle" => leading[n] # "no"

\* A session that runs is the one that the goroutine at work is about, if any is
OneRuns ==
  /\ \A n \in Node : job[n].at # "idle" => RunningSessions \subseteq {job[n].s}
  /\ \E s \in Nat : RunningSessions \subseteq {s}

LimitInv == LeaderWorks /\ (~lost => torn = {} /\ OneRuns)

\* A goroutine goes on with its session, comes to rest, or begins when nothing runs
StaysOneRuns(n) ==
  \/ job'[n].at = "idle"
  \/ job[n].at # "idle" /\ job'[n].s = job[n].s
  \/ RunningSessions = {}

LEMMA NothingBorn == ASSUME IInv, Keeps, NoneBorn PROVE RunningSessions' \subseteq RunningSessions
<1> SUFFICES ASSUME NEW s \in Session, session'[s].status = "running"
             PROVE  session[s].status = "running"
  BY DEF RunningSessions, Running
<1>1. session[s].status \in {"none", "running", "succeeded", "failed"}
  BY DEF IInv, TypeOK, SessionTypeOK, SessionRow
<1> QED BY <1>1 DEF Keeps, NoneBorn, Over

LEMMA OneRunsStays ==
  ASSUME IInv, Keeps, NoneBorn, OneRuns, \A n \in Node : StaysOneRuns(n)
  PROVE  OneRuns'
BY NothingBorn DEF OneRuns, StaysOneRuns

\* Only the leader creates a session, when none runs
LEMMA OneRunsBorn ==
  ASSUME IInv, Alone, LeadersHold, LeaderWorks, torn = {}, OneRuns,
         NEW n \in Node, Alive(n), NEW t \in Task, NEW s \in Session, Launch(n, t, s),
         job[n].at = "begin" \/ (job[n].at = "rerun" /\ ReplaySafe(job[n].s))
  PROVE  OneRuns'
<1>1. RunningSessions = {}
  <2>1. RunningSessions \subseteq {job[n].s}
    BY DEF OneRuns
  <2>2. job[n].s \notin RunningSessions
    BY SessionAssumption DEF RunningSessions, Running, Alone, ReplaySafe, Over, Session
  <2> QED BY <2>1, <2>2
<1>2. \A r \in Session \ {s} : session'[r] = session[r]
  BY CreateKeeps DEF Launch, IInv, TypeOK
<1>3. RunningSessions' \subseteq {s}
  BY <1>1, <1>2 DEF RunningSessions, Running
<1>4. job'[n].s = s /\ \A m \in Node \ {n} : job'[m] = job[m]
  BY DEF Launch, IInv, TypeOK, Job
<1>5. \A m \in Node \ {n} : job[m].at = "idle"
  BY DEF LeadersHold, LeaderWorks, Alive
<1>6. s \in Nat
  BY DEF Session
<1> QED BY <1>3, <1>4, <1>5, <1>6 DEF OneRuns

LEMMA LeaderWorksKept ==
  ASSUME IInv, LeaderWorks, [Next]_vars
  PROVE  LeaderWorks'
<1>0. job \in [Node -> Job] /\ leading \in [Node -> {"no", "yes", "stopping"}]
  BY DEF IInv, TypeOK, LeaderTypeOK
<1>1. ASSUME NEW n \in Node, leading' = leading, \A m \in Node \ {n} : job'[m] = job[m],
             leading[n] # "no" \/ job'[n] = job[n]
      PROVE  LeaderWorks'
  BY <1>1 DEF LeaderWorks
<1>2. ASSUME NEW n \in Node, \/ Executes(n)
                             \/ \E t \in Task : CollectDue(n, t) \/ CollectInterrupted(n, t)
      PROVE  LeaderWorks'
  <2>1. leading' = leading
    BY <1>2 DEF leaderVars, Executes, Begin, Rerun, Start, End, Finalise, FinaliseNot, Guard,
                ToolWrites, ToolAsks, ToolConsumes, ToolGivesUp, ToolChecks, ToolCommands,
                ToolFails, CollectDue, CollectInterrupted
  <2>2. leading[n] # "no"
    <3>1. CASE Executes(n)
      <4>1. job[n].at # "idle"
        BY <3>1 DEF Executes, Begin, Rerun, Start, End, Finalise, FinaliseNot, Guard, ToolWrites,
                    ToolAsks, ToolConsumes, ToolGivesUp, ToolChecks, ToolCommands, ToolFails
      <4> QED BY <4>1 DEF LeaderWorks
    <3>2. CASE \E t \in Task : CollectDue(n, t) \/ CollectInterrupted(n, t)
      BY <3>2 DEF CollectDue, CollectInterrupted, Alive
    <3> QED BY <1>2, <3>1, <3>2
  <2>3. \A m \in Node \ {n} : job'[m] = job[m]
    <3>1. CASE Begin(n) \/ Rerun(n) \/ Guard(n) \/ ToolWrites(n)
      BY <1>0, <3>1 DEF Begin, Rerun, Guard, ToolWrites, Launch, GoTo, Rest
    <3>2. CASE Start(n) \/ End(n) \/ Finalise(n) \/ FinaliseNot(n)
      BY <1>0, <3>2 DEF Start, End, GoTo, Finalise, FinaliseNot, Retries, Rest
    <3>3. CASE \/ ToolAsks(n) \/ ToolConsumes(n) \/ ToolGivesUp(n) \/ ToolChecks(n)
               \/ ToolCommands(n) \/ ToolFails(n)
      BY <1>0, <3>3 DEF ToolAsks, ToolConsumes, ToolGivesUp, ToolChecks, ToolCommands, ToolFails, GoTo
    <3>4. CASE \E t \in Task : CollectDue(n, t) \/ CollectInterrupted(n, t)
      BY <1>0, <3>4 DEF CollectDue, CollectInterrupted
    <3> QED BY <1>2, <3>1, <3>2, <3>3, <3>4 DEF Executes
  <2> QED BY <1>1, <2>1, <2>2, <2>3
<1>3. ASSUME NEW n \in Node, Leads(n) PROVE LeaderWorks'
  BY <1>0, <1>3 DEF Leads, Acquire, CancelTask, StepDown, LeaderWorks
<1>4. ASSUME NEW n \in Node, NodeDies(n) PROVE LeaderWorks'
  BY <1>0, <1>4 DEF NodeDies, Die, Rest, IdleJob, LeaderWorks
<1>5. CASE Recovers \/ LosesConnection \/ (\E s \in Session : Time(s) \/ People(s)) \/ UNCHANGED vars
  <2>1. leading' = leading /\ job' = job
    BY <1>5 DEF Recovers, RecoverSession, RecoverRun, LosesConnection, ConnectionLost, Time, People,
                vars, leaderVars
  <2> QED BY <2>1 DEF LeaderWorks
<1> QED BY <1>2, <1>3, <1>4, <1>5 DEF Next

LEMMA OneRunsKept ==
  ASSUME IInv, Alone, LeadersHold, LeaderWorks, torn = {}, OneRuns, [Next]_vars
  PROVE  OneRuns'
<1>0. job \in [Node -> Job] /\ SessionTypeOK /\ Rows
  BY DEF IInv, TypeOK
<1>1. ASSUME NEW n \in Node, Begin(n) \/ Rerun(n), ~UNCHANGED session
      PROVE  OneRuns'
  <2>1. job[n].task \in Task
    BY <1>1 DEF Begin, Rerun, IInv, JobsOK, JobOK
  <2> QED BY <1>1, <2>1, OneRunsBorn DEF Begin, Rerun
<1>2. ASSUME ~\E n \in Node : (Begin(n) \/ Rerun(n)) /\ ~UNCHANGED session
      PROVE  Keeps /\ NoneBorn
  <2>1. UNCHANGED session \/ \E s \in Session : SessionStep(s)
    BY <1>2, SessionSteps
  <2> QED BY <1>0, <2>1, UnchangedKeeps, OperationsKeep DEF SessionStep
<1>3. ASSUME ~\E n \in Node : (Begin(n) \/ Rerun(n)) /\ ~UNCHANGED session
      PROVE  \A n \in Node : StaysOneRuns(n)
  <2>1. ASSUME NEW n \in Node, \/ Executes(n) \/ Leads(n) \/ NodeDies(n)
                               \/ \E t \in Task : CollectDue(n, t) \/ CollectInterrupted(n, t)
        PROVE  StaysOneRuns(n) /\ \A m \in Node \ {n} : job'[m] = job[m]
    <3>0. job[n] \in Job
      BY <1>0
    <3>1. CASE Begin(n) \/ Rerun(n)
      <4>1. Rest(n)
        <5>1. ASSUME NEW t, NEW s \in Session, Launch(n, t, s) PROVE ~UNCHANGED session
          BY <1>0, <5>1, CreateKeeps DEF Launch, Create, NoSession, SessionTypeOK
        <5> QED BY <1>3, <3>1, <5>1 DEF Begin, Rerun
      <4> QED BY <1>0, <4>1 DEF Rest, IdleJob, StaysOneRuns
    <3>2. CASE Start(n) \/ End(n) \/ Finalise(n) \/ FinaliseNot(n)
      BY <1>0, <3>0, <3>2 DEF Start, End, GoTo, Finalise, FinaliseNot, Retries, Rest, IdleJob, Job,
                              StaysOneRuns
    <3>3. CASE \/ Guard(n) \/ ToolWrites(n) \/ ToolAsks(n) \/ ToolConsumes(n) \/ ToolGivesUp(n)
               \/ ToolChecks(n) \/ ToolCommands(n) \/ ToolFails(n)
      <4>1. job[n].at # "idle" /\ \E at : GoTo(n, at)
        BY <3>3 DEF Guard, ToolWrites, ToolAsks, ToolConsumes, ToolGivesUp, ToolChecks, ToolCommands,
                    ToolFails
      <4> QED BY <1>0, <3>0, <4>1 DEF GoTo, Job, StaysOneRuns
    <3>4. CASE \E t \in Task : CollectDue(n, t) \/ CollectInterrupted(n, t)
      BY <1>0, <3>4 DEF CollectDue, CollectInterrupted, Free, RunningSessions, StaysOneRuns
    <3>5. CASE Leads(n)
      BY <3>5 DEF Leads, StaysOneRuns
    <3>6. CASE NodeDies(n)
      BY <1>0, <3>6 DEF NodeDies, Rest, IdleJob, StaysOneRuns
    <3> QED BY <2>1, <3>1, <3>2, <3>3, <3>4, <3>5, <3>6 DEF Executes
  <2>2. CASE Recovers \/ LosesConnection \/ (\E s \in Session : Time(s) \/ People(s)) \/ UNCHANGED vars
    BY <2>2 DEF Recovers, RecoverSession, RecoverRun, LosesConnection, Time, People, vars, StaysOneRuns
  <2>3. \A m \in Node : job'[m] = job[m] => StaysOneRuns(m)
    BY DEF StaysOneRuns
  <2> QED BY <2>1, <2>2, <2>3 DEF Next
<1> QED BY <1>1, <1>2, <1>3, OneRunsStays

LEMMA LimitInvKept ==
  ASSUME IInv, GateInv, LeadersHold, LimitInv, [Next]_vars
  PROVE  LimitInv'
<1>1. LeaderWorks'
  BY LeaderWorksKept DEF LimitInv
<1>2. \/ UNCHANGED leaderVars
      \/ \E n \in Node : Acquire(n) \/ CancelTask(n) \/ StepDown(n) \/ Die(n)
      \/ ConnectionLost
  BY DEF Next, vars, leaderVars, Executes, Recovers, Begin, Rerun, Start, End, Finalise,
         FinaliseNot, Guard, ToolWrites, ToolAsks, ToolConsumes, ToolGivesUp, ToolChecks,
         ToolCommands, ToolFails, CollectDue, CollectInterrupted, RecoverSession,
         RecoverRun, Leads, NodeDies, LosesConnection, Time, People
<1>3. lost' \/ (lost' = lost /\ torn' \subseteq torn)
  BY <1>2 DEF leaderVars, Acquire, CancelTask, StepDown, Die, ConnectionLost
<1>4. ASSUME ~lost' PROVE torn' = {} /\ OneRuns'
  <2>1. ~lost /\ torn' \subseteq torn
    BY <1>3, <1>4
  <2>2. torn = {} /\ LeaderWorks /\ OneRuns /\ Alone
    BY <2>1 DEF LimitInv, GateInv
  <2> QED BY <2>1, <2>2, OneRunsKept
<1> QED BY <1>1, <1>4 DEF LimitInv

\* As long as no leader lost its connection, at most one session runs (the limit
\* here), over any number of leaders that step down or die, sessions they leave
\* behind, retries and recoveries (scheduler.go free, RunLeader): only who leads
\* creates a session, and none runs when it does.
THEOREM LimitHolds == Spec => []WithinLimit
<1>1. Init => LeadersHold
  BY DEF Init, LeaderInit, LeadersHold
<1>2. Init => LimitInv
  <2> SUFFICES ASSUME Init PROVE LimitInv
    OBVIOUS
  <2>1. /\ job = [n \in Node |-> IdleJob] /\ session = [s \in Session |-> NoSession] /\ torn = {}
    BY DEF Init, SessionInit, LeaderInit
  <2>2. RunningSessions = {} /\ LeaderWorks /\ OneRuns
    BY <2>1 DEF RunningSessions, Running, NoSession, LeaderWorks, OneRuns, IdleJob
  <2> QED BY <2>1, <2>2 DEF LimitInv
<1>3. LimitInv => WithinLimit
  <2> SUFFICES ASSUME LimitInv, ~lost PROVE Cardinality(RunningSessions) <= 1
    BY DEF WithinLimit, RunningSessions
  <2>1. PICK s \in Nat : RunningSessions \subseteq {s}
    BY DEF LimitInv, OneRuns
  <2> QED BY <2>1, AtMostOne
<1>4. IInv /\ LeadersHold /\ [Next]_vars => LeadersHold'
  BY LeadersHoldKept
<1>5. IInv /\ GateInv /\ LeadersHold /\ LimitInv /\ [Next]_vars => LimitInv'
  BY LimitInvKept
<1> QED BY <1>1, <1>2, <1>3, <1>4, <1>5, GateInvariant, Invariance, PTL DEF Spec
=============================================================================

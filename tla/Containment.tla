---------------------------- MODULE Containment ----------------------------
(***************************************************************************)
(* The autonomous response of one host: leases that isolate it, taken on   *)
(* the evidence of alerts and ended when they expire or when a person      *)
(* lifts them (containment.go, lift.go).  Engines run Tick, one after the  *)
(* other in the code's order within a row or an alert, in any order among  *)
(* these; persons call Lift on any node at any time.  Between two          *)
(* statements of a caller anything else may happen, and a caller may stop  *)
(* there for good: a node dies, a request is cancelled.                    *)
(*                                                                         *)
(* Commands go through the response channel, of which CommandLedger says   *)
(* all that a caller may rely on.  Time is relative: a lease is due or     *)
(* not.  Any alert may have new evidence at any time.                      *)
(***************************************************************************)
EXTENDS Naturals, FiniteSetsExt

CONSTANTS Alert,        \* alerts that call for the isolation of the host
          Engine,       \* nodes that run the engine: one, unless leaders overlap
          Person,       \* callers of Lift
          MaxLifts,     \* bounds on the lift commands of a lease; the last does not fail
          MaxStops      \* bound on callers that stop half-way

ASSUME ContainmentAssumption == /\ Engine \intersect Person = {}
                                /\ MaxLifts \in [Alert -> Nat \ {0}]
                                /\ MaxStops \in Nat

VARIABLES status, started, outcome,     \* the ledger of commands
          lost,         \* commands no node will deliver any more
          isolated,     \* what the host does
          row,          \* the rows of containments, one for an alert
          job,          \* what each caller is about
          stops

ledgerVars == <<status, started, outcome, lost, isolated>>
vars       == <<ledgerVars, row, job, stops>>

Caller == Engine \union Person

\* Deterministic ids: initialCommandID, and liftCommandID derived from the lift
\* before it, which failed
Isolate(a)  == <<a, 0>>
LiftOf(a, n) == <<a, n>>
Command     == UNION {{a} \X (0..MaxLifts[a]) : a \in Alert}

Ledger == INSTANCE CommandLedger WITH Cmd <- Command, Exec <- {}

InEffect == {"pending", "active"}
Ended    == {"expired", "lifted"}

Row == [state : {"none", "held", "skipped", "failed"} \union InEffect \union Ended,
        lift  : Nat,      \* lift_command_id, 0 for none
        by    : BOOLEAN,          \* lifted_by is set
        due   : BOOLEAN]          \* expires_at has passed

NoRow == [state |-> "none", lift |-> 0, by |-> FALSE, due |-> FALSE]

\* A caller's place, and what it read: the row, the lift command it settled on,
\* what Issue returned.  "again": Lift lost the race for the reservation.
Job == [at   : {"idle", "create", "issue", "wait", "settle", "reconcile",
                "resolve", "reserve", "again"},
        of   : Alert \union {"none"}, n : Nat, seen : Row,
        says : {"held", "skipped", "error"} \union Ledger!Statuses]

IdleJob == [at |-> "idle", of |-> "none", n |-> 0,
            seen |-> NoRow, says |-> "none"]

TypeOK == /\ Ledger!TypeOK
          /\ lost \subseteq Command
          /\ isolated \in BOOLEAN
          /\ row \in [Alert -> Row]
          /\ job \in [Caller -> Job]
          /\ stops \in 0..MaxStops

Init == /\ Ledger!Init
        /\ lost = {}
        /\ isolated = FALSE
        /\ row = [a \in Alert |-> NoRow]
        /\ job = [c \in Caller |-> IdleJob]
        /\ stops = 0

Begin(c, at, a, n, seen, says) ==
  /\ job[c].at = "idle"
  /\ job' = [job EXCEPT ![c] = [at |-> at, of |-> a, n |-> n, seen |-> seen, says |-> says]]

GoOn(c, at) == job' = [job EXCEPT ![c].at = at]
Rest(c)     == job' = [job EXCEPT ![c] = IdleJob]

\* UPDATE containments ... WHERE: new is written to row a if it matches
Write(a, matches, new) == row' = IF matches THEN [row EXCEPT ![a] = new] ELSE row
-----------------------------------------------------------------------------
(* react: what the evidence of an alert calls for.                          *)

Leases == {b \in Alert : row[b].state \in InEffect}

\* The one lease in effect holds on, unless its lift was reserved
Renew(e) ==
  /\ job[e].at = "idle"
  /\ \E b \in Alert : /\ Leases = {b}
                      /\ row[b].lift = 0
                      /\ row' = [row EXCEPT ![b].due = FALSE]
  /\ UNCHANGED <<ledgerVars, job, stops>>

\* Mutant: counts on the alert alone
DecideAnyway(e, a) ==
  /\ row[a].state = "none"
  /\ \E state \in {"skipped", "held", "pending"} : Begin(e, "create", a, 0, NoRow, state)
  /\ UNCHANGED <<ledgerVars, row, stops>>

\* Nothing in effect, nothing decided before on this alert, and evidence later than
\* every lift by a person: a new decision.  Out of scope or a bad target: skipped.
\* The fuse may have tripped: held.
Decide(e, a) ==
  /\ Leases = {}
  /\ row[a].state = "none"
  /\ \E state \in {"skipped", "held", "pending"} : Begin(e, "create", a, 0, NoRow, state)
  /\ UNCHANGED <<ledgerVars, row, stops>>

\* The row is there before the command is; its id allows it once
Create(e) ==
  LET a == job[e].of IN
  /\ job[e].at = "create"
  /\ Write(a, row[a].state = "none", [NoRow EXCEPT !.state = job[e].says])
  /\ IF row[a].state = "none" /\ job[e].says = "pending" THEN GoOn(e, "issue") ELSE Rest(e)
  /\ UNCHANGED <<ledgerVars, stops>>
-----------------------------------------------------------------------------
(* Hub.Issue, for Engine and Person alike.                                  *)

The(c) == <<job[c].of, job[c].n>>

Issue(c) ==
  /\ job[c].at = "issue"
  /\ \/ Ledger!Issue(The(c)) /\ GoOn(c, "wait")
     \/ \* refused before the row is written, or written already
        /\ \E says \in {"error"} \union ({status[The(c)]} \ {"none"}) :
             job' = [job EXCEPT ![c].at = "settle", ![c].says = says]
        /\ UNCHANGED <<status, started, outcome>>
  /\ UNCHANGED <<lost, isolated, row, stops>>

\* Mutant: what was sent is done
ReturnsWhenSent(c) ==
  /\ job[c].at = "wait"
  /\ job' = [job EXCEPT ![c].at = "settle",
                         ![c].says = IF status[The(c)] = "pending" THEN "succeeded"
                                     ELSE status[The(c)]]
  /\ UNCHANGED <<ledgerVars, row, stops>>

\* Issue returns what the row says by now.  It returns an error when it could not
\* deliver the command and then not write that down.
IssueReturns(c) ==
  /\ job[c].at = "wait"
  /\ \/ job' = [job EXCEPT ![c].at = "settle", ![c].says = status[The(c)]] /\ UNCHANGED lost
     \/ /\ status[The(c)] = "pending" /\ started[The(c)] = 0
        /\ lost' = lost \union {The(c)}
        /\ job' = [job EXCEPT ![c].at = "settle", ![c].says = "error"]
  /\ UNCHANGED <<status, started, outcome, isolated, row, stops>>

\* Mutant: the row takes over what the command says
SettleAsCommand(e) ==
  LET a == job[e].of IN
  /\ job[e].at = "settle"
  /\ job[e].n = 0
  /\ Write(a, row[a].state = "pending", [row[a] EXCEPT !.state = job[e].says])
  /\ Rest(e)
  /\ UNCHANGED <<ledgerVars, stops>>

\* Mutant: whatever did not succeed failed
SettleDoubtAsFailed(e) ==
  LET a == job[e].of
      end == IF job[e].says = "succeeded" THEN "active" ELSE "failed"
  IN /\ job[e].at = "settle"
     /\ job[e].n = 0
     /\ Write(a, row[a].state = "pending", [row[a] EXCEPT !.state = end])
     /\ Rest(e)
     /\ UNCHANGED <<ledgerVars, stops>>

\* The end of decide
SettleIsolation(e) ==
  LET a == job[e].of
      says == job[e].says
  IN /\ job[e].at = "settle"
     /\ job[e].n = 0
     /\ \/ /\ says \in {"error", "failed", "unsupported"}
           /\ Write(a, row[a].state = "pending", [row[a] EXCEPT !.state = "failed", !.due = FALSE])
        \/ /\ says = "succeeded"
           /\ Write(a, row[a].state = "pending", [row[a] EXCEPT !.state = "active"])
        \/ /\ says \in Ledger!Open
           /\ UNCHANGED row
     /\ Rest(e)
     /\ UNCHANGED <<ledgerVars, stops>>
-----------------------------------------------------------------------------
(* Reconcile: rows follow the results of their commands.                    *)

StartReconcile(e, a) ==
  /\ \E n \in {0, row[a].lift} :
       /\ n = 0 => row[a].state \in InEffect
       /\ n # 0 => row[a].state \in {"active"} \union Ended
       /\ Begin(e, "reconcile", a, n, row[a], "none")
  /\ UNCHANGED <<ledgerVars, row, stops>>

ReconcileIsolation(e) ==
  LET a == job[e].of
      same == row[a].state = job[e].seen.state
  IN /\ job[e].at = "reconcile"
     /\ job[e].n = 0
     /\ CASE status[Isolate(a)] = "succeeded" ->
               Write(a, same /\ row[a].state = "pending", [row[a] EXCEPT !.state = "active"])
          [] status[Isolate(a)] \in {"failed", "unsupported"} ->
               Write(a, same, [row[a] EXCEPT !.state = "failed", !.due = FALSE])
          [] OTHER -> UNCHANGED row
     /\ Rest(e)
     /\ UNCHANGED <<ledgerVars, stops>>

\* Mutant: does not look for a person's lift when it writes
ReconcileBlindly(e) ==
  LET a == job[e].of
      seen == job[e].seen
      same == row[a].state = seen.state /\ row[a].lift = seen.lift
      over == status[The(e)] = "succeeded" /\ seen.state = "active" /\ same
  IN /\ job[e].at = "reconcile"
     /\ job[e].n # 0
     /\ Write(a, over, [row[a] EXCEPT !.state = IF seen.by THEN "lifted" ELSE "expired"])
     /\ Rest(e)
     /\ UNCHANGED <<ledgerVars, stops>>

\* A lift that succeeded ends the lease, as a person's if it is one by now; one
\* that failed leaves it in effect, and due a little later.
ReconcileLift(e) ==
  LET a == job[e].of
      seen == job[e].seen
      same == row[a].state = seen.state /\ row[a].lift = seen.lift
      over == status[The(e)] = "succeeded" /\ seen.state = "active" /\ same
      end == IF seen.by \/ row[a].by THEN "lifted" ELSE "expired"
  IN /\ job[e].at = "reconcile"
     /\ job[e].n # 0
     /\ \/ /\ status[The(e)] = "succeeded"
           /\ Write(a, over, [row[a] EXCEPT !.state = end])
        \/ /\ status[The(e)] = "failed"
           /\ Write(a, same, [row[a] EXCEPT !.state = "active", !.by = FALSE,
                                            !.due = @ /\ ~seen.due])
        \/ /\ status[The(e)] = "failed"     \* written already
           /\ ~seen.by /\ ~seen.due /\ seen.state = "active"
           /\ UNCHANGED row
        \/ /\ status[The(e)] \in Ledger!Open \union {"unsupported"}
           /\ Write(a, same, [row[a] EXCEPT !.state = "active"])
        \/ /\ status[The(e)] = "none"
           /\ UNCHANGED row
     /\ Rest(e)
     /\ UNCHANGED <<ledgerVars, stops>>
-----------------------------------------------------------------------------
(* expire and Lift: both resolve, reserve, issue.                           *)

StartExpire(e, a) ==
  /\ row[a].state = "active"
  /\ row[a].due
  /\ Begin(e, "resolve", a, 0, [row[a] EXCEPT !.due = FALSE], "none")
  /\ UNCHANGED <<ledgerVars, row, stops>>

StartLift(p, a) ==
  /\ row[a].state = "active"
  /\ Begin(p, "resolve", a, 0, [row[a] EXCEPT !.due = FALSE, !.by = FALSE], "none")
  /\ UNCHANGED <<ledgerVars, row, stops>>

\* Mutant: always a new one
CandidateAfter(a, lift) == IF lift < MaxLifts[a] THEN lift + 1 ELSE lift

\* Mutant: does not look beyond the lift of the row
CandidateOfRow(a, lift) == IF lift = 0 THEN 1 ELSE lift

\* resolveLiftCommand: the lift of the row, or the first of its chain that has not
\* failed.  It is issued already, or reserved by a caller, or free.
Candidate(a, lift) == Min({n \in 1..MaxLifts[a] : n >= lift /\ status[LiftOf(a, n)] # "failed"})
Issued(a, n)       == status[LiftOf(a, n)] # "none"
\* the failed lift before it that the row must still name, or none
Before(n) == n - 1

SameLift(a, seen) == row[a].state = "active" /\ row[a].lift = seen.lift

\* expire, with a lift under way or done
AdoptByEngine(e) ==
  LET a == job[e].of
      seen == job[e].seen
      n == Candidate(a, seen.lift)
      lift == IF SameLift(a, seen) THEN n ELSE row[a].lift
      over == status[LiftOf(a, n)] = "succeeded" /\ lift = n /\ (seen.by \/ ~row[a].by)
      end == IF seen.by THEN "lifted" ELSE "expired"
  IN /\ job[e].at = "resolve" /\ e \in Engine
     /\ Issued(a, n)
     /\ Write(a, row[a].state = "active",
              [row[a] EXCEPT !.lift = lift, !.state = IF over THEN end ELSE @])
     /\ Rest(e)
     /\ UNCHANGED <<ledgerVars, stops>>

\* Mutant: a lift that is under way is a lift
AdoptAsLifted(p) ==
  LET a == job[p].of
      n == Candidate(a, job[p].seen.lift)
  IN /\ job[p].at \in {"resolve", "again"} /\ p \in Person
     /\ Issued(a, n)
     /\ Write(a, SameLift(a, job[p].seen), [row[a] EXCEPT !.lift = n, !.by = TRUE,
                                                           !.state = "lifted"])
     /\ Rest(p)
     /\ UNCHANGED <<ledgerVars, stops>>

\* settleExistingLift
AdoptByPerson(p) ==
  LET a == job[p].of
      n == Candidate(a, job[p].seen.lift)
      over == SameLift(a, job[p].seen) /\ status[LiftOf(a, n)] = "succeeded"
  IN /\ job[p].at \in {"resolve", "again"} /\ p \in Person
     /\ Issued(a, n)
     /\ Write(a, SameLift(a, job[p].seen) /\ status[LiftOf(a, n)] # "unsupported",
              [row[a] EXCEPT !.lift = n, !.by = TRUE, !.state = IF over THEN "lifted" ELSE @])
     /\ Rest(p)
     /\ UNCHANGED <<ledgerVars, stops>>

\* Another caller reserved it and is about to issue it: a person joins in
LeaveToOther(c) ==
  LET a == job[c].of
      n == Candidate(a, job[c].seen.lift)
  IN /\ \/ job[c].at = "resolve" /\ n = job[c].seen.lift
        \/ job[c].at = "again"
     /\ ~Issued(a, n)
     /\ Write(a, c \in Person /\ job[c].at = "resolve" /\ row[a].lift = n,
              [row[a] EXCEPT !.by = TRUE])
     /\ Rest(c)
     /\ UNCHANGED <<ledgerVars, stops>>

Resolve(c) ==
  LET n == Candidate(job[c].of, job[c].seen.lift) IN
  /\ job[c].at = "resolve"
  /\ n # job[c].seen.lift
  /\ ~Issued(job[c].of, n)
  /\ job' = [job EXCEPT ![c].at = "reserve", ![c].n = n, ![c].seen = NoRow]
  /\ UNCHANGED <<ledgerVars, row, stops>>

\* Before the first lift the model may prefer to extend the lease
Extend(e) ==
  LET a == job[e].of IN
  /\ job[e].at = "reserve" /\ e \in Engine
  /\ job[e].n = 1
  /\ Write(a, row[a].state = "active" /\ row[a].lift = 0, [row[a] EXCEPT !.due = FALSE])
  /\ Rest(e)
  /\ UNCHANGED <<ledgerVars, stops>>

Reserve(c) ==
  LET a == job[c].of
      free == row[a].state = "active" /\ row[a].lift = Before(job[c].n)
  IN /\ job[c].at = "reserve"
     /\ Write(a, free, [row[a] EXCEPT !.lift = job[c].n, !.by = @ \/ c \in Person])
     /\ IF free THEN GoOn(c, "issue")
        ELSE IF c \in Person /\ row[a].state = "active"
        THEN job' = [job EXCEPT ![c].at = "again", ![c].seen = row[a]]
        ELSE Rest(c)
     /\ UNCHANGED <<ledgerVars, stops>>

\* What a lift that was never written down gives back
Unreserved(a, n) == [row[a] EXCEPT !.lift = IF Issued(a, n) THEN @ ELSE Before(n)]

\* The end of expire
SettleExpiry(e) ==
  LET a == job[e].of
      n == job[e].n
      says == job[e].says
      same == row[a].state = "active" /\ row[a].lift = n
  IN /\ job[e].at = "settle" /\ e \in Engine
     /\ n # 0
     /\ \/ /\ says = "error"
           /\ Write(a, same, [Unreserved(a, n) EXCEPT !.due = FALSE])
        \/ /\ says = "failed"
           /\ Write(a, same, [row[a] EXCEPT !.due = FALSE])
        \/ /\ says = "succeeded"
           /\ Write(a, same /\ ~row[a].by, [row[a] EXCEPT !.state = "expired"])
        \/ /\ says \in Ledger!Open \union {"unsupported"}
           /\ UNCHANGED row
     /\ Rest(e)
     /\ UNCHANGED <<ledgerVars, stops>>

\* The end of Lift
SettleLift(p) ==
  LET a == job[p].of
      n == job[p].n
      says == job[p].says
      same == row[a].lift = n
  IN /\ job[p].at = "settle" /\ p \in Person
     /\ CASE says = "error" ->
               Write(a, same /\ ~Issued(a, n), [Unreserved(a, n) EXCEPT !.by = FALSE])
          [] says = "failed" -> Write(a, same, [row[a] EXCEPT !.by = FALSE])
          [] says = "succeeded" -> Write(a, same, [row[a] EXCEPT !.state = "lifted", !.by = TRUE])
          [] says = "unknown" -> Write(a, same, [row[a] EXCEPT !.by = TRUE])
          [] OTHER -> UNCHANGED row
     /\ Rest(p)
     /\ UNCHANGED <<ledgerVars, stops>>

\* The node dies, the lease of the engine is lost, the request is cancelled
Stop(c) ==
  /\ job[c].at # "idle"
  /\ stops < MaxStops
  /\ stops' = stops + 1
  /\ Rest(c)
  /\ UNCHANGED <<ledgerVars, row>>
-----------------------------------------------------------------------------
(* The world around.                                                        *)

Expiry(a) ==
  /\ row[a].state \in InEffect
  /\ row' = [row EXCEPT ![a].due = TRUE]
  /\ UNCHANGED <<ledgerVars, job, stops>>

\* The channel and the host.  Nobody here tells "sent" from "pending".
Channel(k) ==
  /\ \/ Ledger!Doubt(k)
     \/ Ledger!Refuse(k) /\ k[2] # MaxLifts[k[1]]
     \/ Ledger!Start(k) /\ k \notin lost
  /\ UNCHANGED <<lost, isolated, row, job, stops>>

Host(k, r) ==
  /\ Ledger!Perform(k, r)
  /\ r = "failed" => k[2] # MaxLifts[k[1]]
  /\ isolated' = IF r = "succeeded" THEN k[2] = 0 ELSE isolated
  /\ UNCHANGED <<lost, row, job, stops>>

Result(k) ==
  /\ Ledger!Record(k)
  /\ UNCHANGED <<lost, isolated, row, job, stops>>
-----------------------------------------------------------------------------
EngineStarts(e, a) ==
  Decide(e, a) \/ StartReconcile(e, a) \/ StartExpire(e, a)

EngineStep(e) ==
  Create(e) \/ SettleIsolation(e) \/ ReconcileIsolation(e) \/ ReconcileLift(e)
  \/ AdoptByEngine(e) \/ Extend(e) \/ SettleExpiry(e)

PersonStep(p) == AdoptByPerson(p) \/ SettleLift(p)

CallerStep(c) ==
  \/ c \in Engine /\ EngineStep(c)
  \/ c \in Person /\ PersonStep(c)
  \/ LeaveToOther(c) \/ Resolve(c) \/ Reserve(c) \/ Issue(c) \/ IssueReturns(c)

Next ==
  \/ \E a \in Alert : \/ Expiry(a)
                      \/ \E e \in Engine : EngineStarts(e, a)
                      \/ \E p \in Person : StartLift(p, a)
  \/ \E e \in Engine : Renew(e)
  \/ \E c \in Caller : CallerStep(c) \/ Stop(c)
  \/ \E k \in Command : \/ Channel(k) \/ Result(k)
                        \/ \E r \in Ledger!Results : Host(k, r)

Spec == Init /\ [][Next]_vars
-----------------------------------------------------------------------------
(* Safety.                                                                  *)

\* The key of a lease: one row of it in effect at a time.
OneInEffect == Cardinality(Leases) <= 1

\* A lease that says it ended did end: the host undid it.  No answer that was
\* late, doubtful or another command's is taken for that.
EndedIsReleased == \A a \in Alert : row[a].state \in Ended =>
                     row[a].lift # 0 /\ outcome[LiftOf(a, row[a].lift)] = "succeeded"

\* As long as no lift of it was begun, the host of an active lease is isolated: no
\* older command undoes it.
ActiveHolds == \A a \in Alert :
  /\ row[a].state = "active"
  /\ \A n \in 1..MaxLifts[a] : started[LiftOf(a, n)] = 1 =>
       outcome[LiftOf(a, n)] \in {"failed", "unsupported"}
  => isolated

\* A decision that says nothing was done is right: the host was not isolated by it.
NothingDone == \A a \in Alert : row[a].state \in {"held", "skipped", "failed"} =>
                 started[Isolate(a)] = 0 \/ outcome[Isolate(a)] \in {"failed", "unsupported"}

\* A lease has one lift that did not fail, however many persons and engines ask.
OneLift == \A a \in Alert :
  Cardinality({n \in 1..MaxLifts[a] : status[LiftOf(a, n)] \notin {"none", "failed"}}) <= 1

\* A lease that a person lifted is not taken for one that merely expired: decide
\* would take the old evidence for new.
PersonsLift == [][\A a \in Alert : row[a].by /\ row[a].state = "active" =>
                     row'[a].state # "expired"]_vars
-----------------------------------------------------------------------------
(* Liveness.                                                                *)

Fairness ==
  /\ \A c \in Caller : WF_vars(CallerStep(c))
  /\ \A e \in Engine, a \in Alert : SF_vars(StartExpire(e, a))

FairSpec == Spec /\ Fairness

\* Its lift is on its way, in doubt, or not supported: nothing is sent again
Waits(a) == row[a].lift # 0 /\ status[LiftOf(a, row[a].lift)] \in
                                 {"pending", "unknown", "unsupported"}

\* Its lift is reserved and not issued yet, by a caller who is about to or is not any more
Reserved(a) == row[a].lift # 0 /\ status[LiftOf(a, row[a].lift)] = "none"
InHand(a)   == \E c \in Caller : job[c].of = a /\ job[c].at \in {"issue", "settle"}

Overdue(a) == row[a].state = "active" /\ row[a].due /\ ~Waits(a)

\* A lease that is due does not stay so: it ends, is extended, or its lift is reserved.
\* The lift is tried again after a failure, and never on an answer that was not one.
LeaseEnds == []<>(\A a \in Alert : Overdue(a) => Reserved(a))

\* The package promises of every lease that it ends by itself when it expires
\* (containment.go:6): no reservation outlives the caller who made it.
NoneLeftBehind == []<>(\A a \in Alert : Overdue(a) => Reserved(a) /\ InHand(a))
=============================================================================

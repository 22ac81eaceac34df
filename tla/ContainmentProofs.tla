------------------------- MODULE ContainmentProofs -------------------------
(***************************************************************************)
(* Proofs about Containment, for any set of alerts, engines and persons:   *)
(* rows never contradict what was done to the host.  With one engine also: *)
(* one lease is in effect at a time, and an active one holds.              *)
(*                                                                         *)
(* The argument: the lift commands of a lease form a chain, of which each  *)
(* may be issued only when all before it failed; every row and every       *)
(* caller, however old what it read, names a place that the chain has      *)
(* reached.  A decision has one caller who may issue its isolation.        *)
(***************************************************************************)
EXTENDS Containment, FiniteSetTheorems, WellFoundedInduction, TLAPS

Acted == {"active"} \union Ended

\* Every lift of a before n failed
ChainTo(a, n) == /\ n \in 0..MaxLifts[a]
                 /\ \A m \in 1..MaxLifts[a] : m < n => status[LiftOf(a, m)] = "failed"

\* A caller that was the first to decide on its alert
First(c) == job[c].n = 0 /\ job[c].at \in {"issue", "wait", "settle"}

\* The isolation of a does nothing any more
Dead(a) ==
  \/ status[Isolate(a)] \in {"failed", "unsupported"}
  \/ Isolate(a) \in lost /\ started[Isolate(a)] = 0
  \/ /\ status[Isolate(a)] = "none"
     /\ \A c \in Caller : job[c].at = "issue" /\ job[c].n = 0 => job[c].of # a

LedgerInv ==
  /\ Ledger!RowIsTrue
  /\ \A k \in Command :
       /\ started[k] \in {0, 1}
       /\ status[k] = "none" => started[k] = 0
       /\ outcome[k] # "none" => started[k] = 1
       /\ k[2] = MaxLifts[k[1]] => status[k] # "failed" /\ outcome[k] # "failed"

\* What row a may be
GoodRow(a, r) ==
  /\ ChainTo(a, r.lift)
  /\ r.state \in Acted => status[Isolate(a)] = "succeeded"
  /\ r.state \notin Acted => r.lift = 0
  /\ r.state \in Ended => r.lift # 0 /\ status[LiftOf(a, r.lift)] = "succeeded"
  /\ r.state = "none" => status[Isolate(a)] = "none"
  /\ r.state \in {"held", "skipped", "failed"} => Dead(a)

RowInv == \A a \in Alert : GoodRow(a, row[a])

ChainInv == \A a \in Alert : \A n \in 1..MaxLifts[a] :
  status[LiftOf(a, n)] # "none" => ChainTo(a, n) /\ row[a].state \in Acted

\* What a caller may be about
GoodJob(c, j) ==
  j.at # "idle" =>
    /\ j.of \in Alert
    /\ ChainTo(j.of, j.n) /\ ChainTo(j.of, j.seen.lift)
    /\ j.at = "create" => c \in Engine /\ j.n = 0 /\ j.says \in {"held", "skipped", "pending"}
    /\ j.n = 0 /\ j.at \in {"issue", "wait", "settle", "reconcile"} => c \in Engine
    /\ j.at = "reserve" => j.n # 0
    /\ \/ j.at \in {"resolve", "reserve", "again"}
       \/ j.at \in {"issue", "wait", "settle"} /\ j.n # 0
       => row[j.of].state \in Acted
    /\ j.at \in {"issue", "wait", "settle"} => row[j.of].state # "none"
    /\ j.at = "issue" /\ j.n = 0 => status[Isolate(j.of)] = "none"
    /\ j.at = "settle" /\ j.says \in Ledger!Results => status[<<j.of, j.n>>] = j.says
    /\ j.at = "settle" /\ j.says = "error" /\ j.n = 0 => Dead(j.of)
    /\ j.at = "reconcile" =>
         \/ j.n = 0 /\ j.seen.state \in InEffect
         \/ j.n # 0 /\ j.n = j.seen.lift /\ j.seen.state \in Acted

JobInv == \A c \in Caller : GoodJob(c, job[c])

FirstInv == \A c, d \in Caller : First(c) /\ First(d) /\ job[c].of = job[d].of => c = d

IInv == TypeOK /\ LedgerInv /\ RowInv /\ ChainInv /\ JobInv /\ FirstInv

OneEngine == \A e, f \in Engine : e = f

\* The host is isolated, from the isolation of a lease in effect to its lift
Holds(a) == row[a].state \in InEffect /\ outcome[Isolate(a)] = "succeeded"
            /\ (\A n \in 1..MaxLifts[a] : outcome[LiftOf(a, n)] # "succeeded")
            => isolated

LeaseInv == /\ \A a, b \in Leases : a = b
            /\ \A e \in Engine : job[e].at = "create" => Leases = {}
            /\ \A a \in Alert : Holds(a)

\* What a write does not take back
Follows(old, new) == /\ old.state \in Acted => new.state \in Acted
                     /\ old.state # "none" => new.state # "none"
-----------------------------------------------------------------------------
(* The chain of lifts.                                                      *)

LEMMA MinIsLeast ==
  ASSUME NEW S, S \subseteq Nat, S # {}
  PROVE  Min(S) \in S /\ \A y \in S : Min(S) <= y
<1>. DEFINE Less == {ss \in Nat \X Nat : ss[1] < ss[2]}
<1>1. IsWellFoundedOn(Less, Nat)
  BY NatLessThanWellFounded, Zenon DEF OpToRel
<1>2. PICK x \in S : \A y \in S : ~(<<y, x>> \in Less)
  <2>. HIDE DEF Less
  <2>. QED BY <1>1, WFMin, Zenon
<1>3. \A y \in S : x <= y
  <2>. SUFFICES ASSUME NEW y \in S PROVE x <= y
    OBVIOUS
  <2>1. x \in Nat /\ y \in Nat
    OBVIOUS
  <2>2. ~(y < x)
    BY <1>2, <2>1
  <2>. QED BY <2>1, <2>2
<1>. QED
  BY <1>3 DEF Min

LEMMA ChainStarts ==
  ASSUME NEW a \in Alert
  PROVE  ChainTo(a, 0)
BY ContainmentAssumption DEF ChainTo

LEMMA CandidateIsNext ==
  ASSUME TypeOK, LedgerInv, NEW a \in Alert, NEW l, ChainTo(a, l)
  PROVE  /\ Candidate(a, l) \in 1..MaxLifts[a]
         /\ ChainTo(a, Candidate(a, l))
         /\ status[LiftOf(a, Candidate(a, l))] # "failed"
<1>. DEFINE S == {n \in 1..MaxLifts[a] : n >= l /\ status[LiftOf(a, n)] # "failed"}
<1>1. MaxLifts[a] \in Nat \ {0}
  BY ContainmentAssumption
<1>2. MaxLifts[a] \in S
  <2>1. LiftOf(a, MaxLifts[a]) \in Command
    BY <1>1 DEF LiftOf, Command
  <2>. QED BY <1>1, <2>1 DEF LedgerInv, LiftOf, ChainTo
<1>3. Min(S) \in S /\ \A n \in S : Min(S) <= n
  BY <1>1, <1>2, MinIsLeast
<1>4. Candidate(a, l) = Min(S)
  BY DEF Candidate
<1>5. \A m \in 1..MaxLifts[a] : m < Min(S) => status[LiftOf(a, m)] = "failed"
  <2>. SUFFICES ASSUME NEW m \in 1..MaxLifts[a], m < Min(S)
               PROVE  status[LiftOf(a, m)] = "failed"
    OBVIOUS
  <2>1. m \notin S
    BY <1>1, <1>3
  <2>2. CASE m < l
    BY <2>2 DEF ChainTo
  <2>3. CASE m >= l
    BY <2>1, <2>3
  <2>. QED BY <2>2, <2>3, <1>1 DEF ChainTo
<1>. QED
  BY <1>1, <1>3, <1>4, <1>5 DEF ChainTo

LEMMA AtMostOneElement ==
  ASSUME NEW S, \A x, y \in S : x = y
  PROVE  Cardinality(S) <= 1
<1>1. CASE S = {}
  BY <1>1, FS_EmptySet
<1>2. CASE S # {}
  <2>1. PICK x \in S : S = {x}
    BY <1>2
  <2>. QED BY <2>1, FS_Singleton
<1>. QED BY <1>1, <1>2
-----------------------------------------------------------------------------
(* Steps of callers, which change one row and one job.                      *)

\* Commands may be lost meanwhile
Calm == /\ UNCHANGED <<status, started, outcome, isolated>>
        /\ lost \subseteq lost'
        /\ lost' \subseteq Command

\* r may be written to row a
MayWrite(a, r) == r \in Row /\ GoodRow(a, r) /\ Follows(row[a], r)

\* Only the caller that writes the row goes on to the isolation
FirstStays(c, j, a, r) ==
  j.at # "idle" /\ j.n = 0 /\ j.at \in {"issue", "wait", "settle"} =>
    \/ First(c) /\ j.of = job[c].of /\ j.at # "issue"
    \/ j.of = a /\ row[a].state = "none" /\ r.state = "pending"

LEMMA CalmChain ==
  ASSUME Calm, NEW a, NEW n
  PROVE  ChainTo(a, n) <=> ChainTo(a, n)'
BY DEF ChainTo, Calm, LiftOf

LEMMA StepInv ==
  ASSUME IInv, Calm, NEW c \in Caller, NEW a \in Alert, NEW r, NEW j \in Job,
         MayWrite(a, r), row' = [row EXCEPT ![a] = r],
         job' = [job EXCEPT ![c] = j], GoodJob(c, j)', FirstStays(c, j, a, r),
         stops' \in 0..MaxStops
  PROVE  IInv'
<1>. USE DEF IInv
<1>1. TypeOK'
  BY DEF TypeOK, Calm, MayWrite, Ledger!TypeOK
<1>2. LedgerInv'
  BY DEF LedgerInv, Calm, Ledger!RowIsTrue
<1>3. /\ \A b \in Alert : row'[b] = IF b = a THEN r ELSE row[b]
      /\ \A d \in Caller : job'[d] = IF d = c THEN j ELSE job[d]
  BY DEF TypeOK
<1>4. \A b \in Alert : Follows(row[b], row'[b])
  BY <1>3 DEF MayWrite, Follows
<1>5. \A b, n : ChainTo(b, n) <=> ChainTo(b, n)'
  BY DEF ChainTo, Calm, LiftOf
<1>6. \A b \in Alert : Dead(b) /\ (row[b].state # "none" \/ row'[b].state # "pending")
                        => Dead(b)'
  <2>. SUFFICES ASSUME NEW b \in Alert, Dead(b),
                       row[b].state # "none" \/ row'[b].state # "pending"
                PROVE  Dead(b)'
    OBVIOUS
  <2>1. \A d \in Caller : job'[d].at = "issue" /\ job'[d].n = 0 /\ job'[d].of = b
          => job[d].at = "issue" /\ job[d].n = 0 /\ job[d].of = b
    BY <1>3 DEF FirstStays
  <2>. QED BY <2>1 DEF Dead, Calm, Isolate
<1>7. RowInv'
  <2>. SUFFICES ASSUME NEW b \in Alert PROVE GoodRow(b, row[b])'
    BY DEF RowInv
  <2>1. GoodRow(b, row'[b])
    BY <1>3 DEF MayWrite, RowInv
  <2>2. row'[b].state \in {"held", "skipped", "failed"} => Dead(b)'
    BY <1>6, <2>1 DEF GoodRow
  <2>. QED BY <2>1, <2>2, <1>5 DEF GoodRow, Calm, Isolate, LiftOf
<1>8. ChainInv'
  BY <1>4, <1>5 DEF ChainInv, Calm, LiftOf, Follows
<1>9. JobInv'
  <2>. SUFFICES ASSUME NEW d \in Caller PROVE GoodJob(d, job[d])'
    BY DEF JobInv
  <2>1. CASE d = c
    BY <1>3, <2>1
  <2>2. CASE d # c
    <3>1. job'[d] = job[d] /\ GoodJob(d, job[d])
      BY <1>3, <2>2 DEF JobInv
    <3>. QED BY <3>1, <1>4, <1>5, <1>6 DEF GoodJob, Follows, Calm, Isolate
  <2>. QED BY <2>1, <2>2
<1>10. FirstInv'
  <2>. SUFFICES ASSUME NEW d \in Caller, NEW e \in Caller,
                       First(d)', First(e)', job'[d].of = job'[e].of
                PROVE  d = e
    BY DEF FirstInv
  <2>1. \A x \in Caller : x # c /\ First(x)' =>
          First(x) /\ job'[x].of = job[x].of /\ row[job[x].of].state # "none"
    <3>. SUFFICES ASSUME NEW x \in Caller, x # c, First(x)'
                 PROVE  First(x) /\ job'[x].of = job[x].of /\ row[job[x].of].state # "none"
      OBVIOUS
    <3>1. job'[x] = job[x]
      BY <1>3
    <3>2. First(x)
      BY <3>1 DEF First
    <3>. QED BY <3>1, <3>2 DEF First, JobInv, GoodJob
  <2>2. First(c)' => \/ First(c) /\ job'[c].of = job[c].of
                     \/ job'[c].of = a /\ row[a].state = "none"
    BY <1>3 DEF First, FirstStays
  <2>. QED BY <2>1, <2>2 DEF FirstInv
<1>. QED BY <1>1, <1>2, <1>7, <1>8, <1>9, <1>10

\* Nothing is written
LEMMA RowStays ==
  ASSUME IInv, NEW a \in Alert
  PROVE  MayWrite(a, row[a]) /\ row = [row EXCEPT ![a] = row[a]]
BY DEF IInv, TypeOK, RowInv, MayWrite, Follows

LEMMA IdleIsJob == IdleJob \in Job /\ NoRow \in Row
BY DEF IdleJob, Job, NoRow, Row, InEffect, Ended, Ledger!Statuses

\* A caller goes on or begins
LEMMA JobStep ==
  ASSUME IInv, Calm, NEW c \in Caller, NEW j \in Job, UNCHANGED <<row, stops>>,
         job' = [job EXCEPT ![c] = j], j.of \in Alert, GoodJob(c, j)',
         \/ First(c) /\ j.of = job[c].of /\ j.at # "issue"
         \/ ~(j.n = 0 /\ j.at \in {"issue", "wait", "settle"})
  PROVE  IInv'
<1>1. stops' \in 0..MaxStops
  BY DEF IInv, TypeOK
<1>2. FirstStays(c, j, j.of, row[j.of])
  BY DEF FirstStays
<1>. QED
  BY <1>1, <1>2, RowStays, StepInv

\* A caller is done
LEMMA RestStep ==
  ASSUME IInv, Calm, NEW c \in Caller, NEW a \in Alert, NEW r,
         MayWrite(a, r), row' = [row EXCEPT ![a] = r], Rest(c), stops' \in 0..MaxStops
  PROVE  IInv'
<1>1. GoodJob(c, IdleJob)' /\ FirstStays(c, IdleJob, a, r)
  BY DEF GoodJob, FirstStays, IdleJob
<1>. QED
  BY <1>1, IdleIsJob, StepInv DEF Rest

LEMMA WriteStep ==
  ASSUME IInv, NEW c \in Caller, NEW a \in Alert, NEW matches, NEW r,
         Write(a, matches, r), matches => MayWrite(a, r),
         Rest(c), UNCHANGED <<ledgerVars, stops>>
  PROVE  IInv'
<1>1. Calm /\ stops' \in 0..MaxStops
  BY DEF Calm, ledgerVars, IInv, TypeOK
<1>2. CASE matches
  BY <1>1, <1>2, RestStep DEF Write
<1>3. CASE ~matches
  BY <1>1, <1>3, RestStep, RowStays DEF Write
<1>. QED BY <1>2, <1>3

\* What of job c is known where it names an alert
LEMMA JobFacts ==
  ASSUME IInv, NEW c \in Caller, job[c].at # "idle"
  PROVE  /\ job[c] \in Job /\ job[c].of \in Alert /\ GoodJob(c, job[c])
         /\ row[job[c].of] \in Row /\ GoodRow(job[c].of, row[job[c].of])
BY DEF IInv, TypeOK, JobInv, RowInv, GoodJob
-----------------------------------------------------------------------------
(* Deciding, and the isolation.                                             *)

LEMMA DecideInv ==
  ASSUME IInv, NEW e \in Engine, NEW a \in Alert, Decide(e, a)
  PROVE  IInv'
<1>1. PICK says \in {"skipped", "held", "pending"} : Begin(e, "create", a, 0, NoRow, says)
  BY DEF Decide
<1>. DEFINE j == [at |-> "create", of |-> a, n |-> 0, seen |-> NoRow, says |-> says]
<1>2. job' = [job EXCEPT ![e] = j]
  BY <1>1 DEF Begin
<1>3. j \in Job
  BY IdleIsJob DEF Job, Ledger!Statuses, Ledger!Open
<1>4. e \in Caller /\ Calm /\ UNCHANGED <<row, stops>>
  BY DEF Caller, Decide, Calm, ledgerVars, IInv, TypeOK
<1>5. GoodJob(e, j)'
  BY ContainmentAssumption DEF GoodJob, ChainTo, NoRow
<1>. QED BY <1>2, <1>3, <1>4, <1>5, JobStep

LEMMA CreateInv ==
  ASSUME IInv, NEW e \in Engine, Create(e)
  PROVE  IInv'
<1>. DEFINE a == job[e].of
           says == job[e].says
           r == [NoRow EXCEPT !.state = says]
<1>1. e \in Caller /\ Calm /\ UNCHANGED <<ledgerVars, stops>> /\ job[e].at = "create"
  BY DEF Caller, Create, Calm, ledgerVars, IInv, TypeOK
<1>2. /\ a \in Alert /\ job[e] \in Job /\ job[e].n = 0
      /\ says \in {"held", "skipped", "pending"} /\ ChainTo(a, 0)
      /\ GoodRow(a, row[a]) /\ GoodJob(e, job[e])
  BY <1>1, JobFacts DEF GoodJob
<1>3. CASE row[a].state = "none"
  <2>1. status[Isolate(a)] = "none" /\ Dead(a)
    BY <1>2, <1>3 DEF GoodRow, Dead, IInv, JobInv, GoodJob
  <2>2. MayWrite(a, r)
    BY <1>2, <1>3, <2>1 DEF MayWrite, GoodRow, Follows, NoRow, Row, InEffect, Ended, Acted
  <2>3. row' = [row EXCEPT ![a] = r]
    BY <1>3 DEF Create, Write
  <2>4. CASE says = "pending"
    <3>1. PICK j \in Job : j = [job[e] EXCEPT !.at = "issue"]
      BY <1>2 DEF Job
    <3>2. job' = [job EXCEPT ![e] = j]
      BY <1>3, <2>4, <3>1 DEF Create, GoOn, IInv, TypeOK
    <3>3. row'[a] = r
      BY <1>2, <2>3 DEF IInv, TypeOK
    <3>4. GoodJob(e, j)'
      <4>1. /\ j.at = "issue" /\ j.n = 0 /\ j.of = a /\ j.seen = job[e].seen
            /\ row'[j.of].state = "pending"
        BY <1>2, <2>4, <3>1, <3>3 DEF Job, NoRow
      <4>2. ChainTo(j.of, j.n)' /\ ChainTo(j.of, j.seen.lift)'
        BY <1>1, <1>2, <4>1, CalmChain DEF GoodJob
      <4>3. status'[Isolate(j.of)] = "none"
        BY <1>1, <2>1, <4>1 DEF Calm, Isolate
      <4>. QED BY <1>2, <4>1, <4>2, <4>3 DEF GoodJob
    <3>5. FirstStays(e, j, a, r)
      BY <1>2, <1>3, <2>4, <3>1 DEF FirstStays, NoRow, Job
    <3>. QED BY <1>1, <1>2, <2>2, <2>3, <3>1, <3>2, <3>4, <3>5, StepInv DEF IInv, TypeOK
  <2>5. CASE says # "pending"
    BY <1>1, <1>2, <1>3, <2>2, <2>5, WriteStep DEF Create
  <2>. QED BY <2>4, <2>5
<1>4. CASE row[a].state # "none"
  BY <1>1, <1>2, <1>4, WriteStep DEF Create
<1>. QED BY <1>3, <1>4

LEMMA QuietStep ==
  ASSUME IInv, NEW c \in Caller, job[c].at # "idle", Rest(c),
         UNCHANGED <<ledgerVars, row>>, stops' \in 0..MaxStops
  PROVE  IInv'
<1>1. Calm /\ job[c].of \in Alert
  BY JobFacts DEF Calm, ledgerVars, IInv, TypeOK
<1>. QED BY <1>1, RowStays, RestStep

LEMMA SettleIsolationInv ==
  ASSUME IInv, NEW e \in Engine, SettleIsolation(e)
  PROVE  IInv'
<1>. DEFINE a == job[e].of
           says == job[e].says
           Failed == [row[a] EXCEPT !.state = "failed", !.due = FALSE]
           Active == [row[a] EXCEPT !.state = "active"]
<1>1. /\ e \in Caller /\ job[e].at = "settle" /\ job[e].n = 0
      /\ UNCHANGED <<ledgerVars, stops>> /\ Rest(e) /\ stops' \in 0..MaxStops
  BY DEF Caller, SettleIsolation, IInv, TypeOK
<1>2. /\ a \in Alert /\ row[a] \in Row /\ GoodRow(a, row[a])
      /\ says \in Ledger!Results => status[Isolate(a)] = says
      /\ says = "error" => Dead(a)
  BY <1>1, JobFacts DEF GoodJob, Isolate
<1>3. CASE says \in {"error", "failed", "unsupported"}
  <2>1. Dead(a)
    BY <1>2, <1>3 DEF Dead, Ledger!Results
  <2>2. row[a].state = "pending" => MayWrite(a, Failed)
    BY <1>2, <2>1 DEF MayWrite, GoodRow, Follows, Row, InEffect, Ended, Acted
  <2>3. Write(a, row[a].state = "pending", Failed)
    BY <1>3 DEF SettleIsolation, Ledger!Open
  <2>. QED BY <1>1, <1>2, <2>2, <2>3, WriteStep
<1>4. CASE says = "succeeded"
  <2>1. status[Isolate(a)] = "succeeded"
    BY <1>2, <1>4 DEF Ledger!Results
  <2>2. row[a].state = "pending" => MayWrite(a, Active)
    BY <1>2, <2>1 DEF MayWrite, GoodRow, Follows, Row, InEffect, Ended, Acted
  <2>3. Write(a, row[a].state = "pending", Active)
    BY <1>4 DEF SettleIsolation, Ledger!Open
  <2>. QED BY <1>1, <1>2, <2>2, <2>3, WriteStep
<1>5. CASE UNCHANGED row
  BY <1>1, <1>5, QuietStep
<1>. QED BY <1>3, <1>4, <1>5 DEF SettleIsolation
-----------------------------------------------------------------------------
(* Reconcile.                                                               *)

LEMMA StartReconcileInv ==
  ASSUME IInv, NEW e \in Engine, NEW a \in Alert, StartReconcile(e, a)
  PROVE  IInv'
<1>1. PICK n \in {0, row[a].lift} :
        /\ n = 0 => row[a].state \in InEffect
        /\ n # 0 => row[a].state \in {"active"} \union Ended
        /\ Begin(e, "reconcile", a, n, row[a], "none")
  BY DEF StartReconcile
<1>2. e \in Caller /\ Calm /\ UNCHANGED <<row, stops>> /\ row[a] \in Row /\ GoodRow(a, row[a])
  BY DEF Caller, StartReconcile, Calm, ledgerVars, IInv, TypeOK, RowInv
<1>3. ChainTo(a, n) /\ ChainTo(a, row[a].lift) /\ n \in Nat
  BY <1>1, <1>2, ContainmentAssumption DEF GoodRow, ChainTo, Row
<1>4. PICK j \in Job : j = [at |-> "reconcile", of |-> a, n |-> n, seen |-> row[a],
                            says |-> "none"]
  BY <1>2, <1>3 DEF Job, Ledger!Statuses
<1>5. GoodJob(e, j)'
  <2>1. ChainTo(j.of, j.n)' /\ ChainTo(j.of, j.seen.lift)'
    BY <1>2, <1>3, <1>4, CalmChain
  <2>. QED BY <1>1, <1>4, <2>1 DEF GoodJob, Acted
<1>. QED BY <1>1, <1>2, <1>4, <1>5, JobStep DEF Begin

LEMMA ReconcileIsolationInv ==
  ASSUME IInv, NEW e \in Engine, ReconcileIsolation(e)
  PROVE  IInv'
<1>. DEFINE a == job[e].of
           same == row[a].state = job[e].seen.state
           Failed == [row[a] EXCEPT !.state = "failed", !.due = FALSE]
           Active == [row[a] EXCEPT !.state = "active"]
<1>1. /\ e \in Caller /\ job[e].at = "reconcile" /\ job[e].n = 0
      /\ UNCHANGED <<ledgerVars, stops>> /\ Rest(e) /\ stops' \in 0..MaxStops
  BY DEF Caller, ReconcileIsolation, IInv, TypeOK
<1>2. a \in Alert /\ row[a] \in Row /\ GoodRow(a, row[a]) /\ job[e].seen.state \in InEffect
  BY <1>1, JobFacts DEF GoodJob
<1>3. CASE status[Isolate(a)] = "succeeded"
  <2>1. row[a].state = "pending" => MayWrite(a, Active)
    BY <1>2, <1>3 DEF MayWrite, GoodRow, Follows, Row, InEffect, Ended, Acted
  <2>2. Write(a, same /\ row[a].state = "pending", Active)
    BY <1>3 DEF ReconcileIsolation
  <2>. QED BY <1>1, <1>2, <2>1, <2>2, WriteStep
<1>4. CASE status[Isolate(a)] \in {"failed", "unsupported"}
  <2>1. Dead(a)
    BY <1>4 DEF Dead
  <2>2. same => MayWrite(a, Failed)
    BY <1>2, <1>4, <2>1 DEF MayWrite, GoodRow, Follows, Row, InEffect, Ended, Acted
  <2>3. Write(a, same, Failed)
    BY <1>4 DEF ReconcileIsolation
  <2>. QED BY <1>1, <1>2, <2>2, <2>3, WriteStep
<1>5. CASE status[Isolate(a)] \notin {"succeeded", "failed", "unsupported"}
  BY <1>1, <1>5, QuietStep DEF ReconcileIsolation
<1>. QED BY <1>3, <1>4, <1>5

LEMMA ReconcileLiftInv ==
  ASSUME IInv, NEW e \in Engine, ReconcileLift(e)
  PROVE  IInv'
<1>. DEFINE a == job[e].of
           n == job[e].n
           seen == job[e].seen
           same == row[a].state = seen.state /\ row[a].lift = seen.lift
           over == status[The(e)] = "succeeded" /\ seen.state = "active" /\ same
           end == IF seen.by \/ row[a].by THEN "lifted" ELSE "expired"
           Over == [row[a] EXCEPT !.state = end]
           Again == [row[a] EXCEPT !.state = "active", !.by = FALSE, !.due = @ /\ ~seen.due]
           Active == [row[a] EXCEPT !.state = "active"]
<1>1. /\ e \in Caller /\ job[e].at = "reconcile" /\ job[e].n # 0
      /\ UNCHANGED <<ledgerVars, stops>> /\ Rest(e) /\ stops' \in 0..MaxStops
  BY DEF Caller, ReconcileLift, IInv, TypeOK
<1>2. /\ a \in Alert /\ row[a] \in Row /\ GoodRow(a, row[a]) /\ seen \in Row
      /\ n = seen.lift /\ seen.state \in Acted /\ The(e) = LiftOf(a, n)
  BY <1>1, JobFacts DEF GoodJob, Job, The, LiftOf
<1>3. CASE status[The(e)] = "succeeded" /\ Write(a, over, Over)
  <2>1. over => MayWrite(a, Over)
    BY <1>1, <1>2, <1>3 DEF MayWrite, GoodRow, Follows, Row, InEffect, Ended, Acted
  <2>. QED BY <1>1, <1>2, <1>3, <2>1, WriteStep
<1>4. CASE status[The(e)] = "failed" /\ Write(a, same, Again)
  <2>1. same => MayWrite(a, Again)
    BY <1>1, <1>2, <1>4 DEF MayWrite, GoodRow, Follows, Row, InEffect, Ended, Acted
  <2>. QED BY <1>1, <1>2, <1>4, <2>1, WriteStep
<1>5. CASE status[The(e)] \in Ledger!Open \union {"unsupported"} /\ Write(a, same, Active)
  <2>1. same => MayWrite(a, Active)
    BY <1>1, <1>2, <1>5 DEF MayWrite, GoodRow, Follows, Row, InEffect, Ended, Acted
  <2>. QED BY <1>1, <1>2, <1>5, <2>1, WriteStep
<1>6. CASE UNCHANGED row
  BY <1>1, <1>6, QuietStep
<1>. QED BY <1>3, <1>4, <1>5, <1>6 DEF ReconcileLift
-----------------------------------------------------------------------------
(* expire and Lift.                                                         *)

LEMMA BeginResolve ==
  ASSUME IInv, NEW c \in Caller, NEW a \in Alert, NEW seen,
         row[a].state = "active", seen \in Row, seen.lift = row[a].lift,
         Begin(c, "resolve", a, 0, seen, "none"), UNCHANGED <<ledgerVars, row, stops>>
  PROVE  IInv'
<1>1. Calm /\ GoodRow(a, row[a])
  BY DEF Calm, ledgerVars, IInv, TypeOK, RowInv
<1>2. ChainTo(a, 0) /\ ChainTo(a, seen.lift)
  BY <1>1, ContainmentAssumption DEF GoodRow, ChainTo
<1>3. PICK j \in Job : j = [at |-> "resolve", of |-> a, n |-> 0, seen |-> seen, says |-> "none"]
  BY DEF Job, Ledger!Statuses
<1>4. GoodJob(c, j)'
  <2>1. ChainTo(j.of, j.n)' /\ ChainTo(j.of, j.seen.lift)'
    BY <1>1, <1>2, <1>3, CalmChain
  <2>. QED BY <1>3, <2>1 DEF GoodJob, Acted
<1>. QED BY <1>1, <1>3, <1>4, JobStep DEF Begin

LEMMA StartInv ==
  ASSUME IInv, NEW a \in Alert,
         \/ \E e \in Engine : StartExpire(e, a)
         \/ \E p \in Person : StartLift(p, a)
  PROVE  IInv'
<1>1. row[a] \in Row
  BY DEF IInv, TypeOK
<1>2. ASSUME NEW e \in Engine, StartExpire(e, a) PROVE IInv'
  <2>1. [row[a] EXCEPT !.due = FALSE] \in Row
    BY <1>1 DEF Row
  <2>. QED BY <1>1, <1>2, <2>1, BeginResolve DEF StartExpire, Caller, Row
<1>3. ASSUME NEW p \in Person, StartLift(p, a) PROVE IInv'
  <2>1. [row[a] EXCEPT !.due = FALSE, !.by = FALSE] \in Row
    BY <1>1 DEF Row
  <2>. QED BY <1>1, <1>3, <2>1, BeginResolve DEF StartLift, Caller, Row
<1>. QED BY <1>2, <1>3

\* What is known of a caller that looks for a candidate
LEMMA ResolveFacts ==
  ASSUME IInv, NEW c \in Caller, job[c].at \in {"resolve", "again"}
  PROVE  LET a == job[c].of
             n == Candidate(a, job[c].seen.lift)
         IN /\ a \in Alert /\ row[a] \in Row /\ GoodRow(a, row[a])
            /\ n \in 1..MaxLifts[a] /\ n \in Nat /\ n # 0
            /\ ChainTo(a, n) /\ status[LiftOf(a, n)] # "failed"
            /\ row[a].state \in Acted
<1>. DEFINE a == job[c].of
<1>1. /\ a \in Alert /\ row[a] \in Row /\ GoodRow(a, row[a])
      /\ ChainTo(a, job[c].seen.lift) /\ row[a].state \in Acted
  BY JobFacts DEF GoodJob
<1>2. MaxLifts[a] \in Nat
  BY <1>1, ContainmentAssumption
<1>. QED BY <1>1, <1>2, CandidateIsNext DEF IInv

LEMMA AdoptByEngineInv ==
  ASSUME IInv, NEW e \in Engine, AdoptByEngine(e)
  PROVE  IInv'
<1>. DEFINE a == job[e].of
           seen == job[e].seen
           n == Candidate(a, seen.lift)
           lift == IF SameLift(a, seen) THEN n ELSE row[a].lift
           over == status[LiftOf(a, n)] = "succeeded" /\ lift = n /\ (seen.by \/ ~row[a].by)
           end == IF seen.by THEN "lifted" ELSE "expired"
           new == [row[a] EXCEPT !.lift = lift, !.state = IF over THEN end ELSE @]
<1>1. /\ e \in Caller /\ job[e].at = "resolve" /\ UNCHANGED <<ledgerVars, stops>>
      /\ Write(a, row[a].state = "active", new) /\ Rest(e)
  BY DEF AdoptByEngine, Caller
<1>2. /\ a \in Alert /\ row[a] \in Row /\ GoodRow(a, row[a])
      /\ n \in Nat /\ n # 0 /\ ChainTo(a, n)
  BY <1>1, ResolveFacts
<1>. HIDE DEF n, a
<1>3. row[a].state = "active" => MayWrite(a, new)
  BY <1>2 DEF MayWrite, GoodRow, Follows, Row, InEffect, Ended, Acted
<1>. QED BY <1>1, <1>2, <1>3, WriteStep

LEMMA AdoptByPersonInv ==
  ASSUME IInv, NEW p \in Person, AdoptByPerson(p)
  PROVE  IInv'
<1>. DEFINE a == job[p].of
           n == Candidate(a, job[p].seen.lift)
           over == SameLift(a, job[p].seen) /\ status[LiftOf(a, n)] = "succeeded"
           new == [row[a] EXCEPT !.lift = n, !.by = TRUE, !.state = IF over THEN "lifted" ELSE @]
           may == SameLift(a, job[p].seen) /\ status[LiftOf(a, n)] # "unsupported"
<1>1. /\ p \in Caller /\ job[p].at \in {"resolve", "again"} /\ UNCHANGED <<ledgerVars, stops>>
      /\ Write(a, may, new) /\ Rest(p)
  BY DEF AdoptByPerson, Caller
<1>2. /\ a \in Alert /\ row[a] \in Row /\ GoodRow(a, row[a])
      /\ n \in Nat /\ n # 0 /\ ChainTo(a, n)
  BY <1>1, ResolveFacts
<1>. HIDE DEF n, a
<1>3. may => MayWrite(a, new)
  BY <1>2 DEF MayWrite, GoodRow, Follows, Row, InEffect, Ended, Acted, SameLift
<1>. QED BY <1>1, <1>2, <1>3, WriteStep

LEMMA LeaveToOtherInv ==
  ASSUME IInv, NEW c \in Caller, LeaveToOther(c)
  PROVE  IInv'
<1>. DEFINE a == job[c].of
           new == [row[a] EXCEPT !.by = TRUE]
<1>1. job[c].at \in {"resolve", "again"} /\ UNCHANGED <<ledgerVars, stops>> /\ Rest(c)
  BY DEF LeaveToOther
<1>2. PICK may \in BOOLEAN : Write(a, may, new)
  BY DEF LeaveToOther
<1>3. a \in Alert /\ row[a] \in Row /\ GoodRow(a, row[a])
  BY <1>1, ResolveFacts
<1>4. MayWrite(a, new)
  BY <1>3 DEF MayWrite, GoodRow, Follows, Row
<1>. QED BY <1>1, <1>2, <1>3, <1>4, WriteStep

LEMMA ResolveInv ==
  ASSUME IInv, NEW c \in Caller, Resolve(c)
  PROVE  IInv'
<1>. DEFINE a == job[c].of
           n == Candidate(a, job[c].seen.lift)
<1>1. /\ job[c].at = "resolve" /\ UNCHANGED <<row, stops>> /\ Calm
      /\ job' = [job EXCEPT ![c].at = "reserve", ![c].n = n, ![c].seen = NoRow]
  BY DEF Resolve, Calm, ledgerVars, IInv, TypeOK
<1>2. /\ a \in Alert /\ n \in Nat /\ n # 0 /\ ChainTo(a, n) /\ row[a].state \in Acted
      /\ ChainTo(a, 0)
  BY <1>1, ResolveFacts, ChainStarts
<1>. HIDE DEF n
<1>3. PICK j \in Job : j = [job[c] EXCEPT !.at = "reserve", !.n = n, !.seen = NoRow]
  BY <1>1, <1>2, IdleIsJob, JobFacts DEF Job
<1>4. j.at = "reserve" /\ j.of = a /\ j.n = n /\ j.seen.lift = 0
  BY <1>1, <1>3, JobFacts DEF Job, NoRow
<1>5. GoodJob(c, j)'
  <2>1. ChainTo(j.of, j.n)' /\ ChainTo(j.of, j.seen.lift)'
    BY <1>1, <1>2, <1>4, CalmChain
  <2>. QED BY <1>1, <1>2, <1>4, <2>1 DEF GoodJob
<1>6. job' = [job EXCEPT ![c] = j]
  BY <1>1, <1>3
<1>. QED BY <1>1, <1>2, <1>3, <1>4, <1>5, <1>6, JobStep

LEMMA ExtendInv ==
  ASSUME IInv, NEW e \in Engine, Extend(e)
  PROVE  IInv'
<1>. DEFINE a == job[e].of
           new == [row[a] EXCEPT !.due = FALSE]
<1>1. /\ e \in Caller /\ job[e].at = "reserve" /\ UNCHANGED <<ledgerVars, stops>> /\ Rest(e)
      /\ Write(a, row[a].state = "active" /\ row[a].lift = 0, new)
  BY DEF Extend, Caller
<1>2. a \in Alert /\ row[a] \in Row /\ GoodRow(a, row[a])
  BY <1>1, JobFacts
<1>3. MayWrite(a, new)
  BY <1>2 DEF MayWrite, GoodRow, Follows, Row
<1>. QED BY <1>1, <1>2, <1>3, WriteStep

LEMMA ReserveInv ==
  ASSUME IInv, NEW c \in Caller, Reserve(c)
  PROVE  IInv'
<1>. DEFINE a == job[c].of
           n == job[c].n
           free == row[a].state = "active" /\ row[a].lift = Before(n)
           new == [row[a] EXCEPT !.lift = n, !.by = @ \/ c \in Person]
<1>1. job[c].at = "reserve" /\ UNCHANGED <<ledgerVars, stops>> /\ Write(a, free, new)
      /\ Calm /\ stops' \in 0..MaxStops
  BY DEF Reserve, Calm, ledgerVars, IInv, TypeOK
<1>2. /\ a \in Alert /\ job[c] \in Job /\ row[a] \in Row /\ GoodRow(a, row[a])
      /\ n # 0 /\ ChainTo(a, n) /\ row[a].state \in Acted /\ ChainTo(a, job[c].seen.lift)
  BY <1>1, JobFacts DEF GoodJob
<1>3. n \in Nat
  BY <1>2 DEF Job
<1>4. CASE free
  <2>1. MayWrite(a, new)
    BY <1>2, <1>3, <1>4 DEF MayWrite, GoodRow, Follows, Row, InEffect, Ended, Acted
  <2>2. row' = [row EXCEPT ![a] = new] /\ row'[a].state = "active"
    BY <1>1, <1>2, <1>4 DEF Write, Row, IInv, TypeOK
  <2>3. PICK j \in Job : j = [job[c] EXCEPT !.at = "issue"]
    BY <1>2 DEF Job
  <2>4. j.at = "issue" /\ j.of = a /\ j.n = n /\ j.seen = job[c].seen
    BY <1>2, <2>3 DEF Job
  <2>5. job' = [job EXCEPT ![c] = j]
    BY <1>4, <2>3 DEF Reserve, GoOn
  <2>6. GoodJob(c, j)'
    <3>1. ChainTo(j.of, j.n)' /\ ChainTo(j.of, j.seen.lift)'
      BY <1>1, <1>2, <2>4, CalmChain
    <3>. QED BY <1>2, <2>2, <2>4, <3>1 DEF GoodJob, Acted
  <2>7. FirstStays(c, j, a, new)
    BY <1>2, <2>4 DEF FirstStays
  <2>. QED BY <1>1, <1>2, <2>1, <2>2, <2>5, <2>6, <2>7, StepInv
<1>5. CASE ~free /\ c \in Person /\ row[a].state = "active"
  <2>1. UNCHANGED row
    BY <1>1, <1>5 DEF Write
  <2>2. PICK j \in Job : j = [job[c] EXCEPT !.at = "again", !.seen = row[a]]
    BY <1>2 DEF Job
  <2>3. j.at = "again" /\ j.of = a /\ j.n = n /\ j.seen = row[a]
    BY <1>2, <2>2 DEF Job
  <2>4. job' = [job EXCEPT ![c] = j]
    BY <1>5, <2>2 DEF Reserve
  <2>5. GoodJob(c, j)'
    <3>1. ChainTo(j.of, j.n)' /\ ChainTo(j.of, j.seen.lift)'
      BY <1>1, <1>2, <2>3, CalmChain DEF GoodRow
    <3>. QED BY <1>2, <2>1, <2>3, <3>1 DEF GoodJob
  <2>. QED BY <1>1, <1>2, <2>1, <2>3, <2>4, <2>5, JobStep
<1>6. CASE ~free /\ ~(c \in Person /\ row[a].state = "active")
  <2>1. UNCHANGED row /\ Rest(c)
    BY <1>1, <1>6 DEF Write, Reserve
  <2>. QED BY <1>1, <2>1, QuietStep
<1>. QED BY <1>4, <1>5, <1>6

\* A reservation that is given back leaves the failed lift before it
LEMMA UnreservedIsGood ==
  ASSUME IInv, NEW a \in Alert, NEW n \in Nat \ {0}, ChainTo(a, n),
         row[a].lift = n, row[a].state \in Ended => Issued(a, n)
  PROVE  MayWrite(a, Unreserved(a, n))
<1>1. row[a] \in Row /\ GoodRow(a, row[a])
  BY DEF IInv, TypeOK, RowInv
<1>2. ChainTo(a, Before(n)) /\ Before(n) \in Nat
  BY ContainmentAssumption DEF ChainTo, Before
<1>3. CASE Issued(a, n)
  <2>1. Unreserved(a, n) = row[a]
    BY <1>1, <1>3 DEF Unreserved, Row
  <2>. QED BY <1>1, <2>1 DEF MayWrite, Follows
<1>4. CASE ~Issued(a, n)
  <2>1. Unreserved(a, n) = [row[a] EXCEPT !.lift = Before(n)]
    BY <1>4 DEF Unreserved
  <2>2. row[a].state = "active"
    BY <1>1, <1>4 DEF GoodRow, Acted
  <2>. QED BY <1>1, <1>2, <2>1, <2>2 DEF MayWrite, GoodRow, Follows, Row, Ended, Acted
<1>. QED BY <1>3, <1>4

LEMMA SettleExpiryInv ==
  ASSUME IInv, NEW e \in Engine, SettleExpiry(e)
  PROVE  IInv'
<1>. DEFINE a == job[e].of
           n == job[e].n
           says == job[e].says
           same == row[a].state = "active" /\ row[a].lift = n
           Back == [Unreserved(a, n) EXCEPT !.due = FALSE]
           Later == [row[a] EXCEPT !.due = FALSE]
           Over == [row[a] EXCEPT !.state = "expired"]
<1>1. /\ e \in Caller /\ job[e].at = "settle" /\ n # 0
      /\ UNCHANGED <<ledgerVars, stops>> /\ Rest(e) /\ stops' \in 0..MaxStops
  BY DEF SettleExpiry, Caller, IInv, TypeOK
<1>2. /\ a \in Alert /\ row[a] \in Row /\ GoodRow(a, row[a]) /\ n \in Nat \ {0} /\ ChainTo(a, n)
      /\ says \in Ledger!Results => status[LiftOf(a, n)] = says
  BY <1>1, JobFacts DEF GoodJob, Job, LiftOf
<1>3. CASE says = "error" /\ Write(a, same, Back)
  <2>1. same => MayWrite(a, Unreserved(a, n))
    BY <1>2, UnreservedIsGood DEF Ended
  <2>2. same => MayWrite(a, Back)
    BY <2>1 DEF MayWrite, GoodRow, Follows, Row
  <2>. QED BY <1>1, <1>2, <1>3, <2>2, WriteStep
<1>4. CASE says = "failed" /\ Write(a, same, Later)
  <2>1. MayWrite(a, Later)
    BY <1>2 DEF MayWrite, GoodRow, Follows, Row
  <2>. QED BY <1>1, <1>2, <1>4, <2>1, WriteStep
<1>5. CASE says = "succeeded" /\ Write(a, same /\ ~row[a].by, Over)
  <2>1. status[LiftOf(a, n)] = "succeeded"
    BY <1>2, <1>5 DEF Ledger!Results
  <2>2. same => MayWrite(a, Over)
    BY <1>2, <2>1 DEF MayWrite, GoodRow, Follows, Row, InEffect, Ended, Acted
  <2>. QED BY <1>1, <1>2, <1>5, <2>2, WriteStep
<1>6. CASE UNCHANGED row
  BY <1>1, <1>6, QuietStep
<1>. QED BY <1>3, <1>4, <1>5, <1>6 DEF SettleExpiry

LEMMA SettleLiftInv ==
  ASSUME IInv, NEW p \in Person, SettleLift(p)
  PROVE  IInv'
<1>. DEFINE a == job[p].of
           n == job[p].n
           says == job[p].says
           same == row[a].lift = n
           Back == [Unreserved(a, n) EXCEPT !.by = FALSE]
           NotBy == [row[a] EXCEPT !.by = FALSE]
           By == [row[a] EXCEPT !.by = TRUE]
           Over == [row[a] EXCEPT !.state = "lifted", !.by = TRUE]
<1>1. /\ p \in Caller /\ job[p].at = "settle"
      /\ UNCHANGED <<ledgerVars, stops>> /\ Rest(p) /\ stops' \in 0..MaxStops
  BY DEF SettleLift, Caller, IInv, TypeOK
<1>2. n # 0
  BY <1>1, JobFacts, ContainmentAssumption DEF GoodJob
<1>3. /\ a \in Alert /\ row[a] \in Row /\ GoodRow(a, row[a]) /\ n \in Nat \ {0} /\ ChainTo(a, n)
      /\ says \in Ledger!Results => status[LiftOf(a, n)] = says
  BY <1>1, <1>2, JobFacts DEF GoodJob, Job, LiftOf
<1>4. CASE says = "error"
  <2>1. Write(a, same /\ ~Issued(a, n), Back)
    BY <1>4 DEF SettleLift
  <2>2. same /\ ~Issued(a, n) => MayWrite(a, Unreserved(a, n))
    <3>1. same /\ ~Issued(a, n) => row[a].state \notin Ended
      BY <1>3 DEF GoodRow, Issued
    <3>. QED BY <1>3, <3>1, UnreservedIsGood
  <2>3. same /\ ~Issued(a, n) => MayWrite(a, Back)
    BY <2>2 DEF MayWrite, GoodRow, Follows, Row
  <2>. QED BY <1>1, <1>3, <2>1, <2>3, WriteStep
<1>5. MayWrite(a, NotBy) /\ MayWrite(a, By)
  BY <1>3 DEF MayWrite, GoodRow, Follows, Row
<1>6. CASE says = "failed"
  <2>1. Write(a, same, NotBy)
    BY <1>6 DEF SettleLift
  <2>. QED BY <1>1, <1>3, <1>5, <2>1, WriteStep
<1>7. CASE says = "succeeded"
  <2>1. Write(a, same, Over)
    BY <1>7 DEF SettleLift
  <2>2. status[LiftOf(a, n)] = "succeeded"
    BY <1>3, <1>7 DEF Ledger!Results
  <2>3. same => MayWrite(a, Over)
    BY <1>3, <2>2 DEF MayWrite, GoodRow, Follows, Row, InEffect, Ended, Acted
  <2>. QED BY <1>1, <1>3, <2>1, <2>3, WriteStep
<1>8. CASE says = "unknown"
  <2>1. Write(a, same, By)
    BY <1>8 DEF SettleLift
  <2>. QED BY <1>1, <1>3, <1>5, <2>1, WriteStep
<1>9. CASE says \notin {"error", "failed", "succeeded", "unknown"}
  BY <1>1, <1>9, QuietStep DEF SettleLift
<1>. QED BY <1>4, <1>6, <1>7, <1>8, <1>9

LEMMA StopInv ==
  ASSUME IInv, NEW c \in Caller, Stop(c)
  PROVE  IInv'
<1>1. /\ job[c].at # "idle" /\ Rest(c) /\ UNCHANGED <<ledgerVars, row>>
      /\ stops \in 0..MaxStops /\ stops < MaxStops /\ stops' = stops + 1
  BY DEF Stop, IInv, TypeOK
<1>2. stops' \in 0..MaxStops
  BY <1>1, ContainmentAssumption
<1>. QED BY <1>1, <1>2, QuietStep

\* Renew, and time: nothing depends on what is due
LEMMA DueInv ==
  ASSUME IInv, NEW a \in Alert, NEW due \in BOOLEAN, row' = [row EXCEPT ![a].due = due],
         UNCHANGED <<ledgerVars, job, stops>>
  PROVE  IInv'
<1>. USE DEF IInv
<1>1. \A b \in Alert : row'[b] \in Row /\ row'[b].state = row[b].state /\ row'[b].lift = row[b].lift
  BY DEF TypeOK, Row
<1>2. TypeOK'
  BY <1>1 DEF TypeOK, ledgerVars, Ledger!TypeOK
<1>3. LedgerInv' /\ FirstInv'
  BY DEF ledgerVars, LedgerInv, Ledger!RowIsTrue, FirstInv, First
<1>4. \A b \in Alert : Dead(b) => Dead(b)'
  BY DEF Dead, ledgerVars, Isolate
<1>5. \A b, n : ChainTo(b, n) => ChainTo(b, n)'
  BY DEF ChainTo, ledgerVars, LiftOf
<1>6. RowInv'
  BY <1>1, <1>4, <1>5 DEF RowInv, GoodRow, ledgerVars, LiftOf, Isolate
<1>7. ChainInv'
  BY <1>1, <1>5 DEF ChainInv, ledgerVars, LiftOf
<1>8. JobInv'
  BY <1>1, <1>4, <1>5 DEF JobInv, GoodJob, ledgerVars, Isolate
<1>. QED BY <1>2, <1>3, <1>6, <1>7, <1>8
-----------------------------------------------------------------------------
(* Commands and the host.                                                   *)

LEMMA IdsAreCommands ==
  ASSUME NEW a \in Alert
  PROVE  /\ Isolate(a) \in Command
         /\ \A n \in 0..MaxLifts[a] : LiftOf(a, n) \in Command /\ <<a, n>> \in Command
         /\ \A n \in 1..MaxLifts[a] : LiftOf(a, n) \in Command
BY ContainmentAssumption DEF Isolate, LiftOf, Command

\* What no step of the ledger undoes
Settled ==
  \A k \in Command :
    /\ status[k] \in Ledger!Results => status'[k] = status[k]
    /\ status'[k] = "none" <=> status[k] = "none"
    /\ k \in lost /\ started[k] = 0 => started'[k] = 0

LEMMA WorldStep ==
  ASSUME IInv, UNCHANGED <<row, job, stops, lost>>, isolated' \in BOOLEAN,
         Ledger!TypeOK', LedgerInv', Settled
  PROVE  IInv'
<1>. USE DEF IInv
<1>1. TypeOK'
  BY DEF TypeOK
<1>2. FirstInv'
  BY DEF FirstInv, First
<1>3. \A b \in Alert : \A n : ChainTo(b, n) => ChainTo(b, n)'
  BY IdsAreCommands DEF ChainTo, Settled, Ledger!Results
<1>4. \A b \in Alert : Dead(b) => Dead(b)'
  BY IdsAreCommands DEF Dead, Settled, Ledger!Results
<1>5. \A b \in Alert, n \in Nat : ChainTo(b, n) /\ status[LiftOf(b, n)] = "succeeded"
                                    => status'[LiftOf(b, n)] = "succeeded"
  BY IdsAreCommands DEF ChainTo, Settled, Ledger!Results
<1>6. RowInv'
  <2>. SUFFICES ASSUME NEW b \in Alert PROVE GoodRow(b, row[b])'
    BY DEF RowInv
  <2>1. row' = row /\ GoodRow(b, row[b]) /\ row[b].lift \in Nat
    BY DEF RowInv, TypeOK, Row
  <2>2. /\ status[Isolate(b)] = "succeeded" => status'[Isolate(b)] = "succeeded"
        /\ status[Isolate(b)] = "none" => status'[Isolate(b)] = "none"
    BY IdsAreCommands DEF Settled, Ledger!Results
  <2>. QED BY <1>3, <1>4, <1>5, <2>1, <2>2 DEF GoodRow
<1>7. ChainInv'
  BY <1>3, IdsAreCommands DEF ChainInv, Settled
<1>8. JobInv'
  <2>. SUFFICES ASSUME NEW c \in Caller PROVE GoodJob(c, job[c])'
    BY DEF JobInv
  <2>1. job' = job /\ row' = row /\ GoodJob(c, job[c])
    BY DEF JobInv
  <2>2. ASSUME job[c].at # "idle"
        PROVE  /\ status[Isolate(job[c].of)] = "none" => status'[Isolate(job[c].of)] = "none"
               /\ \A r \in Ledger!Results :
                    status[<<job[c].of, job[c].n>>] = r => status'[<<job[c].of, job[c].n>>] = r
    BY <2>1, <2>2, IdsAreCommands DEF GoodJob, ChainTo, Settled
  <2>. QED BY <1>3, <1>4, <2>1, <2>2 DEF GoodJob
<1>. QED BY <1>1, <1>2, <1>6, <1>7, <1>8

LEMMA ChannelInv ==
  ASSUME IInv, NEW k \in Command, Channel(k)
  PROVE  IInv'
<1>. USE DEF IInv
<1>1. /\ status \in [Command -> Ledger!Statuses] /\ started \in [Command -> Nat]
      /\ outcome \in [Command -> {"none"} \union Ledger!Results]
      /\ UNCHANGED <<row, job, stops, lost, isolated>> /\ isolated' \in BOOLEAN
      /\ UNCHANGED outcome
  BY DEF TypeOK, Ledger!TypeOK, Channel, Ledger!Doubt, Ledger!Refuse, Ledger!Start
<1>2. CASE Ledger!Doubt(k)
  <2>1. Ledger!TypeOK' /\ Settled
    BY <1>1, <1>2 DEF Ledger!TypeOK, Ledger!Doubt, Ledger!Statuses, Ledger!Open,
                      Ledger!Results, Settled
  <2>2. LedgerInv'
    BY <1>1, <1>2 DEF LedgerInv, Ledger!RowIsTrue, Ledger!Doubt, Ledger!Open, Ledger!Results
  <2>. QED BY <1>1, <2>1, <2>2, WorldStep
<1>3. CASE Ledger!Refuse(k) /\ k[2] # MaxLifts[k[1]]
  <2>1. Ledger!TypeOK' /\ Settled
    BY <1>1, <1>3 DEF Ledger!TypeOK, Ledger!Refuse, Ledger!Statuses, Ledger!Open,
                      Ledger!Results, Settled
  <2>2. LedgerInv'
    BY <1>1, <1>3 DEF LedgerInv, Ledger!RowIsTrue, Ledger!Refuse, Ledger!Open, Ledger!Results
  <2>. QED BY <1>1, <2>1, <2>2, WorldStep
<1>4. CASE Ledger!Start(k) /\ k \notin lost
  <2>1. Ledger!TypeOK' /\ Settled
    BY <1>1, <1>4 DEF Ledger!TypeOK, Ledger!Start, Settled
  <2>2. LedgerInv'
    BY <1>1, <1>4 DEF LedgerInv, Ledger!RowIsTrue, Ledger!Start, Ledger!Open, Ledger!Results
  <2>. QED BY <1>1, <2>1, <2>2, WorldStep
<1>. QED BY <1>2, <1>3, <1>4 DEF Channel

LEMMA HostInv ==
  ASSUME IInv, NEW k \in Command, NEW r \in Ledger!Results, Host(k, r)
  PROVE  IInv'
<1>. USE DEF IInv
<1>1. /\ started \in [Command -> Nat]
      /\ outcome \in [Command -> {"none"} \union Ledger!Results]
      /\ UNCHANGED <<row, job, stops, lost, status, started>> /\ isolated' \in BOOLEAN
      /\ started[k] = 1 /\ outcome[k] = "none" /\ outcome' = [outcome EXCEPT ![k] = r]
      /\ r = "failed" => k[2] # MaxLifts[k[1]]
  BY DEF TypeOK, Ledger!TypeOK, Host, Ledger!Perform
<1>2. Ledger!TypeOK' /\ Settled
  BY <1>1 DEF TypeOK, Ledger!TypeOK, Settled
<1>3. LedgerInv'
  BY <1>1 DEF LedgerInv, Ledger!RowIsTrue, Ledger!Results
<1>. QED BY <1>1, <1>2, <1>3, WorldStep

LEMMA ResultInv ==
  ASSUME IInv, NEW k \in Command, Result(k)
  PROVE  IInv'
<1>. USE DEF IInv
<1>1. /\ status \in [Command -> Ledger!Statuses]
      /\ outcome \in [Command -> {"none"} \union Ledger!Results]
      /\ UNCHANGED <<row, job, stops, lost, isolated, outcome, started>> /\ isolated' \in BOOLEAN
      /\ status[k] \in Ledger!Open /\ outcome[k] # "none"
      /\ status' = [status EXCEPT ![k] = outcome[k]]
  BY DEF TypeOK, Ledger!TypeOK, Result, Ledger!Record
<1>2. Ledger!TypeOK' /\ Settled
  BY <1>1 DEF TypeOK, Ledger!TypeOK, Ledger!Statuses, Ledger!Open, Ledger!Results, Settled
<1>3. LedgerInv'
  BY <1>1 DEF LedgerInv, Ledger!RowIsTrue, Ledger!Open, Ledger!Results
<1>. QED BY <1>1, <1>2, <1>3, WorldStep

\* Issue returns without the command, or finds its row
LEMMA IssueNotInv ==
  ASSUME IInv, NEW c \in Caller, NEW says, UNCHANGED <<ledgerVars, row, stops>>,
         job[c].at \in {"issue", "wait"},
         (says = "error" /\ job[c].at = "issue") \/ says \in {status[The(c)]} \ {"none"},
         job' = [job EXCEPT ![c].at = "settle", ![c].says = says]
  PROVE  IInv'
<1>. DEFINE a == job[c].of
           n == job[c].n
<1>1. /\ Calm /\ a \in Alert /\ job[c] \in Job /\ GoodJob(c, job[c])
      /\ ChainTo(a, n) /\ ChainTo(a, job[c].seen.lift) /\ row[a].state # "none"
  BY JobFacts DEF Calm, ledgerVars, IInv, TypeOK, GoodJob
<1>2. The(c) \in Command /\ The(c) = <<a, n>>
  BY <1>1, IdsAreCommands DEF The, ChainTo
<1>3. says \in {"error"} \union Ledger!Statuses
  BY <1>2 DEF IInv, TypeOK, Ledger!TypeOK
<1>4. PICK j \in Job : j = [job[c] EXCEPT !.at = "settle", !.says = says]
  BY <1>1, <1>3 DEF Job
<1>5. /\ j.at = "settle" /\ j.of = a /\ j.n = n /\ j.seen = job[c].seen /\ j.says = says
      /\ job' = [job EXCEPT ![c] = j]
  BY <1>1, <1>4 DEF Job
<1>6. ASSUME says = "error", n = 0 PROVE Dead(j.of)'
  <2>1. (First(c) /\ status[Isolate(a)] = "none") \/ says = status[Isolate(a)]
    BY <1>1, <1>2, <1>6 DEF First, GoodJob, Isolate
  <2>2. "error" \notin Ledger!Statuses /\ status[The(c)] \in Ledger!Statuses
    BY <1>2 DEF IInv, TypeOK, Ledger!TypeOK, Ledger!Statuses, Ledger!Open, Ledger!Results
  <2>3. First(c) /\ status[Isolate(a)] = "none"
    BY <1>2, <1>6, <2>1, <2>2 DEF Isolate
  <2>4. \A d \in Caller : job'[d].at = "issue" /\ job'[d].n = 0 => job'[d].of # a
    <3>. SUFFICES ASSUME NEW d \in Caller, job'[d].at = "issue", job'[d].n = 0, job'[d].of = a
                 PROVE  FALSE
      OBVIOUS
    <3>1. d # c /\ job'[d] = job[d]
      BY <1>5 DEF IInv, TypeOK
    <3>2. First(d)
      BY <3>1 DEF First
    <3>. QED BY <2>3, <3>1, <3>2 DEF IInv, FirstInv
  <2>. QED BY <1>1, <1>5, <2>3, <2>4 DEF Dead, Calm, Isolate
<1>7. says \in Ledger!Results => status'[<<a, n>>] = says
  BY <1>1, <1>2 DEF Calm, Ledger!Results
<1>8. GoodJob(c, j)'
  <2>1. ChainTo(j.of, j.n)' /\ ChainTo(j.of, j.seen.lift)'
    BY <1>1, <1>5, CalmChain
  <2>. QED BY <1>1, <1>5, <1>6, <1>7, <2>1 DEF GoodJob
<1>9. \/ First(c) /\ j.of = job[c].of /\ j.at # "issue"
      \/ ~(j.n = 0 /\ j.at \in {"issue", "wait", "settle"})
  BY <1>5 DEF First
<1>. QED BY <1>1, <1>5, <1>8, <1>9, JobStep

LEMMA IssueReturnsInv ==
  ASSUME IInv, NEW c \in Caller, IssueReturns(c)
  PROVE  IInv'
<1>. DEFINE a == job[c].of
           n == job[c].n
<1>1. /\ job[c].at = "wait" /\ a \in Alert /\ job[c] \in Job /\ GoodJob(c, job[c])
      /\ ChainTo(a, n) /\ ChainTo(a, job[c].seen.lift) /\ row[a].state # "none"
      /\ UNCHANGED <<row, stops>>
  BY JobFacts DEF IssueReturns, GoodJob
<1>2. The(c) \in Command /\ The(c) = <<a, n>>
  BY <1>1, IdsAreCommands DEF The, ChainTo
<1>3. CASE /\ job' = [job EXCEPT ![c].at = "settle", ![c].says = status[The(c)]]
           /\ UNCHANGED lost
  <2>1. UNCHANGED <<ledgerVars, row, stops>>
    BY <1>3 DEF IssueReturns, ledgerVars
  <2>2. CASE status[The(c)] # "none"
    BY <1>1, <1>3, <2>1, <2>2, IssueNotInv
  <2>3. CASE status[The(c)] = "none"
    <3>1. Calm
      BY <2>1 DEF Calm, ledgerVars, IInv, TypeOK
    <3>2. PICK j \in Job : j = [job[c] EXCEPT !.at = "settle", !.says = "none"]
      BY <1>1 DEF Job, Ledger!Statuses
    <3>3. /\ j.at = "settle" /\ j.of = a /\ j.n = n /\ j.seen = job[c].seen /\ j.says = "none"
          /\ job' = [job EXCEPT ![c] = j]
      BY <1>1, <1>3, <2>3, <3>2 DEF Job
    <3>4. GoodJob(c, j)'
      <4>1. ChainTo(j.of, j.n)' /\ ChainTo(j.of, j.seen.lift)'
        BY <1>1, <3>1, <3>3, CalmChain
      <4>. QED BY <1>1, <3>3, <4>1 DEF GoodJob, Ledger!Results
    <3>5. First(c) \/ ~(j.n = 0)
      BY <1>1, <3>3 DEF First
    <3>. QED BY <1>1, <3>1, <3>3, <3>4, <3>5, JobStep
  <2>. QED BY <2>2, <2>3
<1>4. CASE /\ started[The(c)] = 0 /\ lost' = lost \union {The(c)}
           /\ job' = [job EXCEPT ![c].at = "settle", ![c].says = "error"]
  <2>1. Calm
    BY <1>2, <1>4 DEF Calm, IssueReturns, IInv, TypeOK
  <2>2. PICK j \in Job : j = [job[c] EXCEPT !.at = "settle", !.says = "error"]
    BY <1>1 DEF Job
  <2>3. /\ j.at = "settle" /\ j.of = a /\ j.n = n /\ j.seen = job[c].seen /\ j.says = "error"
        /\ job' = [job EXCEPT ![c] = j]
    BY <1>1, <1>4, <2>2 DEF Job
  <2>4. j.n = 0 => Dead(j.of)'
    BY <1>2, <1>4, <2>1, <2>3 DEF Dead, Calm, Isolate
  <2>5. GoodJob(c, j)'
    <3>1. ChainTo(j.of, j.n)' /\ ChainTo(j.of, j.seen.lift)'
      BY <1>1, <2>1, <2>3, CalmChain
    <3>. QED BY <1>1, <2>3, <2>4, <3>1 DEF GoodJob, Ledger!Results
  <2>6. First(c) \/ ~(j.n = 0)
    BY <1>1, <2>3 DEF First
  <2>. QED BY <1>1, <2>1, <2>3, <2>5, <2>6, JobStep
<1>. QED BY <1>3, <1>4 DEF IssueReturns

LEMMA IssueInv ==
  ASSUME IInv, NEW c \in Caller, Issue(c)
  PROVE  IInv'
<1>1. job[c].at = "issue" /\ UNCHANGED <<lost, isolated, row, stops>>
  BY DEF Issue
<1>2. CASE /\ UNCHANGED <<status, started, outcome>>
           /\ \E says \in {"error"} \union ({status[The(c)]} \ {"none"}) :
                job' = [job EXCEPT ![c].at = "settle", ![c].says = says]
  BY <1>1, <1>2, IssueNotInv DEF ledgerVars
<1>3. CASE Ledger!Issue(The(c)) /\ GoOn(c, "wait")
  <2>1. PICK a \in Alert, n \in Nat : a = job[c].of /\ n = job[c].n
    BY <1>1, JobFacts DEF Job
  <2>2. /\ ChainTo(a, n) /\ ChainTo(a, job[c].seen.lift) /\ row[a].state # "none"
        /\ n # 0 => row[a].state \in Acted
        /\ n = 0 => c \in Engine /\ First(c) /\ status[Isolate(a)] = "none"
        /\ job[c] \in Job /\ GoodRow(a, row[a])
    BY <1>1, <2>1, JobFacts DEF GoodJob, First
  <2>3. The(c) \in Command /\ The(c) = <<a, n>>
    BY <2>1, <2>2, IdsAreCommands DEF The, ChainTo
  <2>4. /\ status \in [Command -> Ledger!Statuses] /\ status[The(c)] = "none"
        /\ status' = [status EXCEPT ![The(c)] = "pending"]
        /\ UNCHANGED <<started, outcome>>
    BY <1>3 DEF Ledger!Issue, IInv, TypeOK, Ledger!TypeOK
  <2>5. \A k \in Command : k # <<a, n>> => status'[k] = status[k]
    BY <2>3, <2>4
  <2>6. PICK j \in Job : j = [job[c] EXCEPT !.at = "wait"]
    BY <2>2 DEF Job
  <2>7. /\ j.at = "wait" /\ j.of = a /\ j.n = n /\ j.seen = job[c].seen
        /\ job' = [job EXCEPT ![c] = j]
    BY <1>3, <2>1, <2>2, <2>6 DEF GoOn, Job
  <2>8. \A d \in Caller : job'[d] = IF d = c THEN j ELSE job[d]
    BY <2>7 DEF IInv, TypeOK
  <2>9. TypeOK'
    BY <1>1, <2>3, <2>4, <2>6, <2>7 DEF IInv, TypeOK, Ledger!TypeOK, Ledger!Statuses, Ledger!Open
  <2>10. LedgerInv'
    BY <2>3, <2>4 DEF IInv, LedgerInv, Ledger!RowIsTrue, Ledger!Results
  <2>11. FirstInv'
    <3>1. \A d \in Caller : First(d)' => First(d) /\ job'[d].of = job[d].of
      BY <1>1, <2>1, <2>7, <2>8 DEF First
    <3>. QED BY <3>1 DEF IInv, FirstInv
  <2>12. \A k \in Command : status[k] # "none" => status'[k] = status[k]
    BY <2>3, <2>4
  <2>13. \A b \in Alert : \A m : ChainTo(b, m) => ChainTo(b, m)'
    BY <2>12, IdsAreCommands DEF ChainTo
  <2>14. \A b \in Alert : b # a \/ n # 0 => status'[Isolate(b)] = status[Isolate(b)]
    BY <2>5, IdsAreCommands DEF Isolate
  <2>15. \A b \in Alert : Dead(b) => Dead(b)'
    <3>. SUFFICES ASSUME NEW b \in Alert, Dead(b) PROVE Dead(b)'
      OBVIOUS
    <3>1. CASE Isolate(b) \in lost /\ started[Isolate(b)] = 0
      BY <1>1, <2>4, <3>1 DEF Dead, Isolate
    <3>2. CASE status[Isolate(b)] \in {"failed", "unsupported"}
      BY <2>12, <3>2, IdsAreCommands DEF Dead, Isolate
    <3>3. CASE /\ status[Isolate(b)] = "none"
               /\ \A d \in Caller : job[d].at = "issue" /\ job[d].n = 0 => job[d].of # b
      <4>1. b # a \/ n # 0
        BY <1>1, <2>1, <3>3
      <4>2. status'[Isolate(b)] = "none"
        BY <2>14, <3>3, <4>1
      <4>. QED BY <2>7, <2>8, <3>3, <4>2 DEF Dead, Isolate
    <3>. QED BY <3>1, <3>2, <3>3 DEF Dead
  <2>16. RowInv'
    <3>. SUFFICES ASSUME NEW b \in Alert PROVE GoodRow(b, row[b])'
      BY DEF RowInv
    <3>1. row' = row /\ GoodRow(b, row[b]) /\ row[b].lift \in Nat
      BY <1>1 DEF IInv, RowInv, TypeOK, Row
    <3>2. ChainTo(b, row[b].lift)' /\ LiftOf(b, row[b].lift) \in Command
      BY <2>13, <3>1, IdsAreCommands DEF GoodRow, ChainTo
    <3>3. status[LiftOf(b, row[b].lift)] = "succeeded" => status'[LiftOf(b, row[b].lift)] = "succeeded"
      BY <2>12, <3>2
    <3>4. status[Isolate(b)] = "succeeded" => status'[Isolate(b)] = "succeeded"
      BY <2>12, IdsAreCommands
    <3>5. row[b].state = "none" => status'[Isolate(b)] = "none"
      BY <2>2, <2>14, <3>1 DEF GoodRow
    <3>. QED BY <2>15, <3>1, <3>2, <3>3, <3>4, <3>5 DEF GoodRow, Isolate, LiftOf
  <2>17. ChainInv'
    <3>. SUFFICES ASSUME NEW b \in Alert, NEW m \in 1..MaxLifts[b], status'[LiftOf(b, m)] # "none"
                 PROVE  ChainTo(b, m)' /\ row'[b].state \in Acted
      BY DEF ChainInv, LiftOf
    <3>1. CASE b = a /\ m = n
      BY <1>1, <2>2, <2>13, <3>1
    <3>2. CASE b # a \/ m # n
      <4>1. status[LiftOf(b, m)] # "none"
        BY <2>5, <3>2, IdsAreCommands DEF LiftOf
      <4>. QED BY <1>1, <2>13, <4>1 DEF IInv, ChainInv
    <3>. QED BY <3>1, <3>2
  <2>18. JobInv'
    <3>. SUFFICES ASSUME NEW d \in Caller PROVE GoodJob(d, job[d])'
      BY DEF JobInv
    <3>1. CASE d = c
      <4>1. ChainTo(j.of, j.n)' /\ ChainTo(j.of, j.seen.lift)'
        BY <2>2, <2>7, <2>13
      <4>2. GoodJob(c, j)'
        BY <1>1, <2>2, <2>7, <4>1 DEF GoodJob
      <4>. QED BY <2>8, <3>1, <4>2
    <3>2. CASE d # c
      <4>1. job'[d] = job[d] /\ row' = row /\ GoodJob(d, job[d])
        BY <1>1, <2>8, <3>2 DEF IInv, JobInv
      <4>2. job[d].at = "issue" /\ job[d].n = 0 => job[d].of # a \/ n # 0
        BY <2>1, <2>2, <3>2 DEF IInv, FirstInv, First
      <4>3. job[d].at = "issue" /\ job[d].n = 0 => status'[Isolate(job[d].of)] = "none"
        BY <2>14, <4>1, <4>2 DEF GoodJob
      <4>4. ASSUME job[d].at = "settle", job[d].says \in Ledger!Results
            PROVE  status'[<<job[d].of, job[d].n>>] = job[d].says
        <5>1. <<job[d].of, job[d].n>> \in Command /\ status[<<job[d].of, job[d].n>>] = job[d].says
          BY <4>1, <4>4, IdsAreCommands DEF GoodJob, ChainTo
        <5>. QED BY <2>12, <4>4, <5>1 DEF Ledger!Results
      <4>. QED BY <2>13, <2>15, <4>1, <4>3, <4>4 DEF GoodJob
    <3>. QED BY <3>1, <3>2
  <2>. QED BY <2>9, <2>10, <2>11, <2>16, <2>17, <2>18 DEF IInv
<1>. QED BY <1>1, <1>2, <1>3 DEF Issue
-----------------------------------------------------------------------------
(* The invariant.                                                           *)

LEMMA InitInv == Init => IInv
<1>. SUFFICES ASSUME Init PROVE IInv
  OBVIOUS
<1>1. /\ \A a \in Alert : row[a] = NoRow
      /\ \A c \in Caller : job[c] = IdleJob
      /\ \A k \in Command : status[k] = "none" /\ started[k] = 0 /\ outcome[k] = "none"
  BY DEF Init, Ledger!Init
<1>2. TypeOK
  <2>1. Ledger!TypeOK
    BY DEF Init, Ledger!Init, Ledger!TypeOK, Ledger!Statuses
  <2>2. row \in [Alert -> Row] /\ job \in [Caller -> Job]
    BY IdleIsJob DEF Init
  <2>3. lost \subseteq Command /\ isolated \in BOOLEAN
    BY DEF Init
  <2>4. stops \in 0..MaxStops
    BY ContainmentAssumption DEF Init
  <2>. QED BY <2>1, <2>2, <2>3, <2>4 DEF TypeOK
<1>3. LedgerInv
  BY <1>1 DEF LedgerInv, Ledger!RowIsTrue, Ledger!Results
<1>4. RowInv
  <2>1. \A a \in Alert : status[Isolate(a)] = "none" /\ ChainTo(a, 0)
    BY <1>1, IdsAreCommands, ChainStarts
  <2>. QED BY <1>1, <2>1 DEF RowInv, GoodRow, NoRow, Acted, Ended
<1>5. ChainInv
  BY <1>1, IdsAreCommands DEF ChainInv
<1>6. JobInv /\ FirstInv
  BY <1>1 DEF JobInv, GoodJob, FirstInv, First, IdleJob
<1>. QED BY <1>2, <1>3, <1>4, <1>5, <1>6 DEF IInv

LEMMA EngineStepInv ==
  ASSUME IInv, NEW e \in Engine, EngineStep(e)
  PROVE  IInv'
BY CreateInv, SettleIsolationInv, ReconcileIsolationInv, ReconcileLiftInv, AdoptByEngineInv,
   ExtendInv, SettleExpiryInv DEF EngineStep

LEMMA NextInv == IInv /\ [Next]_vars => IInv'
<1>. SUFFICES ASSUME IInv, [Next]_vars PROVE IInv'
  OBVIOUS
<1>1. ASSUME NEW a \in Alert, Expiry(a) PROVE IInv'
  BY <1>1, DueInv DEF Expiry
<1>2. ASSUME NEW a \in Alert, NEW e \in Engine, EngineStarts(e, a) PROVE IInv'
  BY <1>2, DecideInv, StartReconcileInv, StartInv DEF EngineStarts
<1>3. ASSUME NEW a \in Alert, NEW p \in Person, StartLift(p, a) PROVE IInv'
  BY <1>3, StartInv
<1>4. ASSUME NEW e \in Engine, Renew(e) PROVE IInv'
  <2>1. PICK b \in Alert : row' = [row EXCEPT ![b].due = FALSE]
    BY <1>4 DEF Renew
  <2>. QED BY <1>4, <2>1, DueInv DEF Renew
<1>5. ASSUME NEW c \in Caller, CallerStep(c) PROVE IInv'
  BY <1>5, EngineStepInv, AdoptByPersonInv, SettleLiftInv, LeaveToOtherInv, ResolveInv,
     ReserveInv, IssueInv, IssueReturnsInv DEF CallerStep, PersonStep
<1>6. ASSUME NEW c \in Caller, Stop(c) PROVE IInv'
  BY <1>6, StopInv
<1>7. ASSUME NEW k \in Command, Channel(k) \/ Result(k) PROVE IInv'
  BY <1>7, ChannelInv, ResultInv
<1>8. ASSUME NEW k \in Command, NEW r \in Ledger!Results, Host(k, r) PROVE IInv'
  BY <1>8, HostInv
<1>9. CASE UNCHANGED vars
  BY <1>9 DEF vars, ledgerVars, IInv, TypeOK, Ledger!TypeOK, LedgerInv, Ledger!RowIsTrue,
              RowInv, GoodRow, Dead, ChainTo, ChainInv, JobInv, GoodJob, FirstInv, First,
              Isolate, LiftOf
<1>. QED BY <1>1, <1>2, <1>3, <1>4, <1>5, <1>6, <1>7, <1>8, <1>9 DEF Next

\* The inductive invariant of the containment engine: it says what every row, every
\* caller and every command may be (containment.go, lift.go).
THEOREM Invariance == Spec => []IInv
BY InitInv, NextInv, PTL DEF Spec

\* Every variable keeps its type, for every set of alerts, engines and persons.
THEOREM TypeCorrect == Spec => []TypeOK
<1>1. IInv => TypeOK
  BY DEF IInv
<1>. QED BY <1>1, Invariance, PTL

\* A lease that says "expired" or "lifted" was lifted on its host, whoever wrote that
\* (containment.go Reconcile, expire; lift.go Lift, settleExistingLift).
THEOREM EndedWereReleased == Spec => []EndedIsReleased
<1>1. IInv => EndedIsReleased
  <2>. SUFFICES ASSUME IInv, NEW a \in Alert, row[a].state \in Ended
               PROVE  row[a].lift # 0 /\ outcome[LiftOf(a, row[a].lift)] = "succeeded"
    BY DEF EndedIsReleased
  <2>1. GoodRow(a, row[a])
    BY DEF IInv, RowInv
  <2>2. LiftOf(a, row[a].lift) \in Command
    BY <2>1, IdsAreCommands DEF GoodRow, ChainTo
  <2>3. row[a].lift # 0 /\ status[LiftOf(a, row[a].lift)] = "succeeded"
    BY <2>1 DEF GoodRow
  <2>. QED BY <2>2, <2>3 DEF IInv, LedgerInv, Ledger!RowIsTrue, Ledger!Results
<1>. QED BY <1>1, Invariance, PTL

\* A row that says "held", "skipped" or "failed" is of an alert whose isolation the host
\* did not carry out, and will not (containment.go decide, Reconcile).
THEOREM NothingWasDone == Spec => []NothingDone
<1>1. IInv => NothingDone
  <2>. SUFFICES ASSUME IInv, NEW a \in Alert, row[a].state \in {"held", "skipped", "failed"}
               PROVE  started[Isolate(a)] = 0 \/ outcome[Isolate(a)] \in {"failed", "unsupported"}
    BY DEF NothingDone
  <2>1. Dead(a) /\ Isolate(a) \in Command
    BY IdsAreCommands DEF IInv, RowInv, GoodRow
  <2>. QED BY <2>1 DEF Dead, IInv, LedgerInv, Ledger!RowIsTrue, Ledger!Results
<1>. QED BY <1>1, Invariance, PTL

\* Of the lifts of a lease at most one is not a failure, however many engines and
\* persons ask for one (lift.go resolveLiftCommand, reserveLift).
THEOREM OneLiftEach == Spec => []OneLift
<1>1. IInv => OneLift
  <2>. SUFFICES ASSUME IInv, NEW a \in Alert
               PROVE  Cardinality({n \in 1..MaxLifts[a] :
                                     status[LiftOf(a, n)] \notin {"none", "failed"}}) <= 1
    BY DEF OneLift
  <2>. DEFINE S == {n \in 1..MaxLifts[a] : status[LiftOf(a, n)] \notin {"none", "failed"}}
  <2>1. \A m, n \in S : ~(m < n)
    BY DEF IInv, ChainInv, ChainTo
  <2>2. \A m, n \in S : m = n
    <3>. SUFFICES ASSUME NEW m \in S, NEW n \in S PROVE m = n
      OBVIOUS
    <3>1. m \in Int /\ n \in Int
      BY ContainmentAssumption
    <3>2. ~(m < n) /\ ~(n < m)
      BY <2>1
    <3>. QED BY <3>1, <3>2
  <2>. QED BY <2>2, AtMostOneElement
<1>. QED BY <1>1, Invariance, PTL
-----------------------------------------------------------------------------
(* A person's lift.                                                         *)

\* A write that does not make an active lease expire
LEMMA NotExpired ==
  ASSUME TypeOK, NEW a \in Alert, row[a].state = "active", NEW b \in Alert,
         NEW matches, NEW new, Write(b, matches, new),
         b = a /\ matches => new.state # "expired"
  PROVE  row'[a].state # "expired"
BY DEF TypeOK, Write

LEMMA EngineSparesPersons ==
  ASSUME IInv, NEW e \in Engine, EngineStep(e),
         NEW a \in Alert, row[a].by, row[a].state = "active"
  PROVE  row'[a].state # "expired"
<1>. DEFINE b == job[e].of
<1>. USE DEF IInv
<1>1. job[e].at # "idle"
  BY DEF EngineStep, Create, SettleIsolation, ReconcileIsolation, ReconcileLift,
         AdoptByEngine, Extend, SettleExpiry
<1>2. b \in Alert /\ row[b] \in Row /\ GoodJob(e, job[e])
  BY <1>1, JobFacts DEF Caller
<1>3. CASE UNCHANGED row
  BY <1>3
<1>4. CASE Create(e)
  BY <1>2, <1>4, NotExpired DEF Create
<1>5. CASE SettleIsolation(e)
  <2>1. PICK new : Write(b, row[b].state = "pending", new) \/ UNCHANGED row
    BY <1>5 DEF SettleIsolation
  <2>. QED BY <1>2, <1>3, <2>1, NotExpired
<1>6. CASE ReconcileIsolation(e)
  <2>1. PICK state \in {"active", "failed"}, due \in BOOLEAN, may \in BOOLEAN :
          Write(b, may, [row[b] EXCEPT !.state = state, !.due = due]) \/ UNCHANGED row
    BY <1>2, <1>6 DEF ReconcileIsolation, Row
  <2>. QED BY <1>2, <1>3, <2>1, NotExpired DEF Row
<1>7. CASE ReconcileLift(e)
  <2>. DEFINE Over == [row[b] EXCEPT !.state = IF job[e].seen.by \/ row[b].by
                                              THEN "lifted" ELSE "expired"]
  <2>1. PICK may \in BOOLEAN, due \in BOOLEAN, by \in BOOLEAN :
          \/ Write(b, may, Over)
          \/ Write(b, may, [row[b] EXCEPT !.state = "active", !.by = by, !.due = due])
          \/ UNCHANGED row
    <3>1. row[b] \in Row
      BY <1>2
    <3>2. [row[b] EXCEPT !.state = "active"]
            = [row[b] EXCEPT !.state = "active", !.by = row[b].by, !.due = row[b].due]
      BY <3>1 DEF Row
    <3>3. row[b].by \in BOOLEAN /\ row[b].due \in BOOLEAN
          /\ (row[b].due /\ ~job[e].seen.due) \in BOOLEAN
      BY <3>1 DEF Row
    <3>. QED BY <1>7, <3>2, <3>3 DEF ReconcileLift
  <2>. QED BY <1>2, <1>3, <2>1, NotExpired DEF Row
<1>8. CASE AdoptByEngine(e)
  <2>1. PICK lift, over, end :
          /\ Write(b, row[b].state = "active",
                   [row[b] EXCEPT !.lift = lift, !.state = IF over THEN end ELSE @])
          /\ over => end = "lifted" \/ ~row[b].by
    BY <1>8 DEF AdoptByEngine
  <2>. QED BY <1>2, <2>1, NotExpired DEF Row
<1>9. CASE Extend(e)
  BY <1>2, <1>9, NotExpired DEF Extend, Row
<1>10. CASE SettleExpiry(e)
  <2>1. CASE UNCHANGED row
    BY <2>1
  <2>2. PICK new :
          \/ /\ new.state \in {row[b].state, "active"}
             /\ \E may \in BOOLEAN : Write(b, may, new)
          \/ UNCHANGED row
          \/ \E may \in BOOLEAN : Write(b, may /\ ~row[b].by, new)
    BY <1>2, <1>10 DEF SettleExpiry, Unreserved, Row
  <2>. QED BY <1>2, <2>1, <2>2, NotExpired
<1>. QED BY <1>4, <1>5, <1>6, <1>7, <1>8, <1>9, <1>10 DEF EngineStep

\* While a person's lift of an active lease is recorded, no step calls the lease
\* "expired" (containment.go Reconcile and expire, with their guards on lifted_by).
THEOREM PersonsLiftStays == Spec => PersonsLift
<1>1. ASSUME IInv, Next, NEW a \in Alert, row[a].by, row[a].state = "active"
      PROVE  row'[a].state # "expired"
  <2>. USE DEF IInv
  <2>1. CASE UNCHANGED row
    BY <1>1, <2>1
  <2>2. ASSUME NEW b \in Alert, NEW due, row' = [row EXCEPT ![b].due = due]
        PROVE  row'[a].state # "expired"
    BY <1>1, <2>2 DEF TypeOK, Row
  <2>3. ASSUME NEW p \in Person, PersonStep(p) PROVE row'[a].state # "expired"
    <3>1. job[p].at # "idle" /\ p \in Caller
      BY <2>3 DEF PersonStep, AdoptByPerson, SettleLift, Caller
    <3>2. job[p].of \in Alert /\ row[job[p].of] \in Row
      BY <1>1, <3>1, JobFacts
    <3>3. CASE AdoptByPerson(p)
      <4>1. PICK may, lift, over :
              Write(job[p].of, may, [row[job[p].of] EXCEPT !.lift = lift, !.by = TRUE,
                                       !.state = IF over THEN "lifted" ELSE @])
        BY <3>3 DEF AdoptByPerson
      <4>. DEFINE b == job[p].of
                 new == [row[b] EXCEPT !.lift = lift, !.by = TRUE,
                                       !.state = IF over THEN "lifted" ELSE @]
      <4>2. new.state = row[b].state \/ new.state = "lifted"
        BY <3>2 DEF Row
      <4>3. Write(b, may, new)
        BY <4>1
      <4>. HIDE DEF new, b
      <4>4. b = a /\ may => new.state # "expired"
        BY <1>1, <4>2
      <4>. QED BY <1>1, <3>2, <4>3, <4>4, NotExpired DEF b
    <3>4. CASE SettleLift(p)
      <4>. DEFINE r == row[job[p].of]
                 Back == [Unreserved(job[p].of, job[p].n) EXCEPT !.by = FALSE]
      <4>1. Back.state = r.state
        BY <3>2 DEF Unreserved, Row
      <4>2. \/ UNCHANGED row
            \/ \E may : Write(job[p].of, may, Back)
            \/ \E may, by \in BOOLEAN : Write(job[p].of, may, [r EXCEPT !.by = by])
            \/ \E may : Write(job[p].of, may, [r EXCEPT !.state = "lifted", !.by = TRUE])
        BY <3>4 DEF SettleLift
      <4>3. CASE \E may : Write(job[p].of, may, Back)
        BY <1>1, <3>2, <4>1, <4>3, NotExpired
      <4>4. CASE \E may, by \in BOOLEAN : Write(job[p].of, may, [r EXCEPT !.by = by])
        BY <1>1, <3>2, <4>4, NotExpired DEF Row
      <4>5. CASE \E may : Write(job[p].of, may, [r EXCEPT !.state = "lifted", !.by = TRUE])
        BY <1>1, <3>2, <4>5, NotExpired DEF Row
      <4>. QED BY <2>1, <4>2, <4>3, <4>4, <4>5
    <3>. QED BY <2>3, <3>3, <3>4 DEF PersonStep
  <2>4. ASSUME NEW c \in Caller, LeaveToOther(c) \/ Reserve(c) PROVE row'[a].state # "expired"
    <3>1. job[c].at # "idle"
      BY <2>4 DEF LeaveToOther, Reserve
    <3>2. job[c].of \in Alert /\ row[job[c].of] \in Row
      BY <1>1, <3>1, JobFacts
    <3>3. \/ \E may : Write(job[c].of, may, [row[job[c].of] EXCEPT !.by = TRUE])
          \/ \E may, lift, by : Write(job[c].of, may, [row[job[c].of] EXCEPT !.lift = lift, !.by = by])
      BY <2>4 DEF LeaveToOther, Reserve
    <3>. QED BY <1>1, <3>2, <3>3, NotExpired DEF Row
  <2>5. ASSUME NEW c \in Caller, CallerStep(c) PROVE row'[a].state # "expired"
    BY <1>1, <2>1, <2>3, <2>4, <2>5, EngineSparesPersons
       DEF CallerStep, Resolve, Issue, IssueReturns
  <2>6. ASSUME NEW c \in Caller, Stop(c) PROVE row'[a].state # "expired"
    BY <2>1, <2>6 DEF Stop
  <2>7. ASSUME NEW k \in Command, Channel(k) \/ Result(k) \/ \E r \in Ledger!Results : Host(k, r)
        PROVE  row'[a].state # "expired"
    BY <2>1, <2>7 DEF Channel, Result, Host
  <2>8. ASSUME NEW b \in Alert, NEW c \in Caller,
               (c \in Engine /\ EngineStarts(c, b)) \/ StartLift(c, b)
        PROVE  row'[a].state # "expired"
    BY <2>1, <2>8 DEF EngineStarts, Decide, StartReconcile, StartExpire, StartLift
  <2>9. ASSUME NEW e \in Engine, Renew(e) PROVE row'[a].state # "expired"
    BY <2>2, <2>9 DEF Renew
  <2>10. ASSUME NEW b \in Alert, Expiry(b) PROVE row'[a].state # "expired"
    BY <2>2, <2>10 DEF Expiry
  <2>. QED BY <1>1, <2>5, <2>6, <2>7, <2>8, <2>9, <2>10 DEF Next, Caller
<1>2. IInv /\ [Next]_vars =>
        [\A a \in Alert : row[a].by /\ row[a].state = "active" => row'[a].state # "expired"]_vars
  BY <1>1
<1>. QED BY <1>2, Invariance, PTL DEF Spec, PersonsLift
-----------------------------------------------------------------------------
(* With one engine: one lease at a time, and it holds.                      *)

\* No lease is taken up
NoneBegins == \A x \in Alert : row'[x].state \in InEffect => row[x].state \in InEffect

LEMMA WriteBeginsNone ==
  ASSUME TypeOK, NEW b \in Alert, NEW matches, NEW new, Write(b, matches, new),
         matches /\ new.state \in InEffect => row[b].state \in InEffect
  PROVE  NoneBegins
BY DEF TypeOK, Write, NoneBegins

LEMMA EngineBeginsNone ==
  ASSUME IInv, NEW e \in Engine, EngineStep(e), ~Create(e)
  PROVE  NoneBegins
<1>. DEFINE b == job[e].of
<1>. USE DEF IInv
<1>1. job[e].at # "idle"
  BY DEF EngineStep, SettleIsolation, ReconcileIsolation, ReconcileLift,
         AdoptByEngine, Extend, SettleExpiry
<1>2. b \in Alert /\ row[b] \in Row /\ GoodJob(e, job[e]) /\ GoodRow(b, row[b])
  BY <1>1, JobFacts DEF Caller
<1>3. CASE UNCHANGED row
  BY <1>3 DEF NoneBegins
<1>4. CASE SettleIsolation(e)
  <2>1. PICK new : Write(b, row[b].state = "pending", new) \/ UNCHANGED row
    BY <1>4 DEF SettleIsolation
  <2>. QED BY <1>2, <1>3, <2>1, WriteBeginsNone DEF InEffect
<1>5. CASE ReconcileIsolation(e)
  <2>1. CASE UNCHANGED row
    BY <1>3, <2>1
  <2>2. PICK same, new : \/ Write(b, same, new) /\ (same => row[b].state = job[e].seen.state)
                         \/ UNCHANGED row
    BY <1>5 DEF ReconcileIsolation
  <2>3. job[e].seen.state \in InEffect
    BY <1>2, <1>5 DEF ReconcileIsolation, GoodJob
  <2>. QED BY <1>2, <1>3, <2>2, <2>3, WriteBeginsNone
<1>6. CASE ReconcileLift(e)
  <2>. DEFINE seen == job[e].seen
             same == row[b].state = seen.state /\ row[b].lift = seen.lift
  <2>1. /\ The(e) = LiftOf(b, seen.lift) /\ seen.state \in Acted
        /\ job[e].n = seen.lift
    BY <1>2, <1>6 DEF ReconcileLift, GoodJob, The, LiftOf
  <2>2. PICK may, new :
          \/ Write(b, may, new) /\ (may => same) /\ status[The(e)] # "succeeded"
          \/ Write(b, may, new) /\ (may => same /\ seen.state = "active")
          \/ UNCHANGED row
    BY <1>6 DEF ReconcileLift, Ledger!Open
  <2>3. CASE Write(b, may, new) /\ (may => same) /\ status[The(e)] # "succeeded"
    <3>1. may => row[b].state = "active"
      BY <1>2, <2>1, <2>3 DEF GoodRow, Acted
    <3>. QED BY <1>2, <2>3, <3>1, WriteBeginsNone DEF InEffect
  <2>4. CASE Write(b, may, new) /\ (may => same /\ seen.state = "active")
    BY <1>2, <2>4, WriteBeginsNone DEF InEffect
  <2>. QED BY <1>3, <2>2, <2>3, <2>4
<1>7. CASE AdoptByEngine(e)
  <2>1. PICK new : Write(b, row[b].state = "active", new)
    BY <1>7 DEF AdoptByEngine
  <2>. QED BY <1>2, <2>1, WriteBeginsNone DEF InEffect
<1>8. CASE Extend(e)
  BY <1>2, <1>8, WriteBeginsNone DEF Extend, InEffect
<1>9. CASE SettleExpiry(e)
  <2>1. PICK may, new : \/ Write(b, may, new) /\ (may => row[b].state = "active")
                        \/ UNCHANGED row
    BY <1>9 DEF SettleExpiry
  <2>. QED BY <1>2, <1>3, <2>1, WriteBeginsNone DEF InEffect
<1>. QED BY <1>4, <1>5, <1>6, <1>7, <1>8, <1>9 DEF EngineStep

LEMMA PersonBeginsNone ==
  ASSUME IInv, NEW p \in Person, PersonStep(p)
  PROVE  NoneBegins
<1>. DEFINE b == job[p].of
<1>. USE DEF IInv
<1>1. job[p].at # "idle"
  BY DEF PersonStep, AdoptByPerson, SettleLift
<1>2. b \in Alert /\ row[b] \in Row
  BY <1>1, JobFacts DEF Caller
<1>3. CASE AdoptByPerson(p)
  <2>1. PICK may, new : Write(b, may, new) /\ (may => row[b].state = "active")
    BY <1>3 DEF AdoptByPerson, SameLift
  <2>. QED BY <1>2, <2>1, WriteBeginsNone DEF InEffect
<1>4. CASE SettleLift(p)
  <2>1. CASE UNCHANGED row
    BY <2>1 DEF NoneBegins
  <2>. DEFINE Back == [Unreserved(b, job[p].n) EXCEPT !.by = FALSE]
  <2>2. Back.state = row[b].state
    BY <1>2 DEF Unreserved, Row
  <2>3. \/ UNCHANGED row
        \/ \E may : Write(b, may, Back)
        \/ \E may, by \in BOOLEAN : Write(b, may, [row[b] EXCEPT !.by = by])
        \/ \E may : Write(b, may, [row[b] EXCEPT !.state = "lifted", !.by = TRUE])
    BY <1>4 DEF SettleLift
  <2>4. CASE \E may : Write(b, may, Back)
    BY <1>2, <2>2, <2>4, WriteBeginsNone
  <2>5. CASE \E may, by \in BOOLEAN : Write(b, may, [row[b] EXCEPT !.by = by])
    BY <1>2, <2>5, WriteBeginsNone DEF Row
  <2>6. CASE \E may : Write(b, may, [row[b] EXCEPT !.state = "lifted", !.by = TRUE])
    BY <1>2, <2>6, WriteBeginsNone DEF Row, InEffect
  <2>. QED BY <2>1, <2>3, <2>4, <2>5, <2>6
<1>. QED BY <1>3, <1>4 DEF PersonStep

\* Only Create takes up a lease
LEMMA StepBeginsNone ==
  ASSUME IInv, Next, \A e \in Engine : ~Create(e)
  PROVE  NoneBegins
<1>. USE DEF IInv
<1>1. CASE UNCHANGED row
  BY <1>1 DEF NoneBegins
<1>2. ASSUME NEW b \in Alert, NEW due, row' = [row EXCEPT ![b].due = due]
      PROVE  NoneBegins
  BY <1>2 DEF TypeOK, Row, NoneBegins
<1>3. ASSUME NEW c \in Caller, LeaveToOther(c) \/ Reserve(c) PROVE NoneBegins
  <2>1. job[c].at # "idle"
    BY <1>3 DEF LeaveToOther, Reserve
  <2>2. job[c].of \in Alert /\ row[job[c].of] \in Row
    BY <2>1, JobFacts
  <2>3. \/ \E may : Write(job[c].of, may, [row[job[c].of] EXCEPT !.by = TRUE])
        \/ \E may, lift, by : Write(job[c].of, may, [row[job[c].of] EXCEPT !.lift = lift, !.by = by])
    BY <1>3 DEF LeaveToOther, Reserve
  <2>. QED BY <2>2, <2>3, WriteBeginsNone DEF Row
<1>4. ASSUME NEW c \in Caller, CallerStep(c) PROVE NoneBegins
  BY <1>1, <1>3, <1>4, EngineBeginsNone, PersonBeginsNone
     DEF CallerStep, Resolve, Issue, IssueReturns
<1>5. ASSUME NEW c \in Caller, Stop(c) PROVE NoneBegins
  BY <1>1, <1>5 DEF Stop
<1>6. ASSUME NEW k \in Command, Channel(k) \/ Result(k) \/ \E r \in Ledger!Results : Host(k, r)
      PROVE  NoneBegins
  BY <1>1, <1>6 DEF Channel, Result, Host
<1>7. ASSUME NEW b \in Alert, NEW c \in Caller,
             (c \in Engine /\ EngineStarts(c, b)) \/ StartLift(c, b)
      PROVE  NoneBegins
  BY <1>1, <1>7 DEF EngineStarts, Decide, StartReconcile, StartExpire, StartLift
<1>8. ASSUME NEW e \in Engine, Renew(e) PROVE NoneBegins
  BY <1>2, <1>8 DEF Renew
<1>9. ASSUME NEW b \in Alert, Expiry(b) PROVE NoneBegins
  BY <1>2, <1>9 DEF Expiry
<1>. QED BY <1>4, <1>5, <1>6, <1>7, <1>8, <1>9 DEF Next, Caller

LEMMA CreateBegins ==
  ASSUME IInv, NEW e \in Engine, Create(e),
         NEW x \in Alert, row'[x].state \in InEffect, row[x].state \notin InEffect
  PROVE  x = job[e].of /\ row[x].state = "none"
<1>1. job[e].of \in Alert
  BY JobFacts DEF Create, Caller
<1>. QED BY <1>1 DEF Create, Write, IInv, TypeOK

\* A lift of a lease that ended, or never began, does not run any more
LEMMA NoLiftRuns ==
  ASSUME IInv, NEW b \in Alert, row[b].state \notin InEffect, NEW n \in 1..MaxLifts[b],
         started[LiftOf(b, n)] = 1
  PROVE  outcome[LiftOf(b, n)] # "none"
<1>. DEFINE k == LiftOf(b, n)
            l == row[b].lift
<1>1. k \in Command
  BY ContainmentAssumption, IdsAreCommands
<1>2. status[k] # "none"
  BY <1>1 DEF IInv, LedgerInv
<1>3. ChainTo(b, n) /\ row[b].state \in Ended /\ GoodRow(b, row[b])
  BY <1>2 DEF IInv, ChainInv, RowInv, Acted, InEffect
<1>4. /\ l \in 1..MaxLifts[b] /\ status[LiftOf(b, l)] = "succeeded"
      /\ ChainTo(b, l)
  BY <1>3, ContainmentAssumption DEF GoodRow, ChainTo
<1>5. ~(l < n)
  BY <1>3, <1>4 DEF ChainTo
<1>6. n < l \/ n = l
  BY <1>4, <1>5, ContainmentAssumption
<1>7. status[k] \in {"failed", "succeeded"}
  BY <1>4, <1>6 DEF ChainTo
<1>. QED
  BY <1>1, <1>2, <1>7 DEF IInv, LedgerInv, Ledger!RowIsTrue, Ledger!Results

LEMMA HostHolds ==
  ASSUME IInv, LeaseInv, NEW k \in Command, NEW r \in Ledger!Results, Host(k, r),
         NEW a \in Alert, NoneBegins
  PROVE  Holds(a)'
<1>1. /\ started[k] = 1 /\ outcome[k] = "none" /\ outcome' = [outcome EXCEPT ![k] = r]
      /\ isolated' = IF r = "succeeded" THEN k[2] = 0 ELSE isolated
      /\ outcome \in [Command -> {"none"} \union Ledger!Results]
  BY DEF Host, Ledger!Perform, IInv, TypeOK, Ledger!TypeOK
<1>2. \A n \in 0..MaxLifts[a] : LiftOf(a, n) \in Command
  BY DEF LiftOf, Command
<1>3. Isolate(a) \in Command /\ \A n \in 1..MaxLifts[a] : LiftOf(a, n) \in Command
  BY <1>2, ContainmentAssumption, IdsAreCommands
<1>4. SUFFICES ASSUME row[a].state \in InEffect, outcome'[Isolate(a)] = "succeeded",
                      \A n \in 1..MaxLifts[a] : outcome'[LiftOf(a, n)] # "succeeded"
               PROVE  isolated'
  BY DEF Holds, NoneBegins, Isolate, LiftOf
<1>5. CASE r = "succeeded"
  <2>1. PICK b \in Alert : \E n \in 0..MaxLifts[b] : k = <<b, n>>
    BY DEF Command
  <2>. PICK n \in 0..MaxLifts[b] : k = <<b, n>>
    BY <2>1
  <2>2. CASE n = 0
    BY <1>1, <1>5, <2>2
  <2>3. CASE n # 0
    <3>1. n \in 1..MaxLifts[b] /\ k = LiftOf(b, n)
      BY  <2>3, ContainmentAssumption DEF LiftOf
    <3>2. b # a
      BY <1>1, <1>4, <1>5, <3>1
    <3>3. row[b].state \notin InEffect
      BY <1>4, <3>2 DEF LeaseInv, Leases
    <3>. QED BY <1>1, <3>1, <3>3, NoLiftRuns
  <2>. QED BY <2>2, <2>3
<1>6. CASE r # "succeeded"
  <2>1. outcome[Isolate(a)] = "succeeded"
    BY <1>1, <1>3, <1>4, <1>6
  <2>2. \A n \in 1..MaxLifts[a] : outcome[LiftOf(a, n)] # "succeeded"
    BY <1>1, <1>3, <1>4
  <2>. QED BY <1>1, <1>4, <1>6, <2>1, <2>2 DEF LeaseInv, Holds
<1>. QED BY <1>5, <1>6

LEMMA OthersHold ==
  ASSUME IInv, LeaseInv, Next, UNCHANGED <<outcome, isolated>>, NEW a \in Alert
  PROVE  Holds(a)'
<1>1. CASE row'[a].state \in InEffect => row[a].state \in InEffect
  BY <1>1 DEF LeaseInv, Holds, Isolate, LiftOf
<1>2. CASE row'[a].state \in InEffect /\ row[a].state \notin InEffect
  <2>1. PICK e \in Engine : Create(e)
    BY <1>2, StepBeginsNone DEF NoneBegins
  <2>2. row[a].state = "none"
    BY <1>2, <2>1, CreateBegins
  <2>3. Isolate(a) \in Command /\ status[Isolate(a)] = "none"
    BY <2>2, IdsAreCommands DEF IInv, RowInv, GoodRow
  <2>4. outcome[Isolate(a)] # "succeeded"
    BY <2>3 DEF IInv, LedgerInv
  <2>. QED BY <2>4 DEF Holds, Isolate
<1>. QED BY <1>1, <1>2

LEMMA CallerDoesNotDecide ==
  ASSUME IInv, NEW c \in Caller, CallerStep(c), NEW e \in Caller, job'[e].at = "create"
  PROVE  c # e /\ job'[e] = job[e]
<1>. DEFINE Goes(j) == job' = [job EXCEPT ![c] = j] /\ j.at # "create"
<1>1. job \in [Caller -> Job]
  BY DEF IInv, TypeOK
<1>2. ASSUME NEW j, Goes(j) PROVE c # e /\ job'[e] = job[e]
  BY <1>1, <1>2
<1>3. ASSUME Rest(c) PROVE \E j : Goes(j)
  <2>1. IdleJob.at = "idle" /\ job' = [job EXCEPT ![c] = IdleJob]
    BY <1>3 DEF Rest, IdleJob
  <2>. QED BY <2>1
<1>4. ASSUME NEW at, at # "create", GoOn(c, at) PROVE \E j : Goes(j)
  <2>1. PICK j : j = [job[c] EXCEPT !.at = at]
    OBVIOUS
  <2>2. j.at = at
    BY <1>1, <2>1 DEF Job
  <2>. QED BY <1>1, <1>4, <2>1, <2>2 DEF GoOn
<1>5. CASE Rest(c)
  BY <1>2, <1>3, <1>5
<1>6. CASE GoOn(c, "issue") \/ GoOn(c, "wait")
  BY <1>2, <1>4, <1>6
<1>7. ASSUME NEW says, job' = [job EXCEPT ![c].at = "settle", ![c].says = says]
      PROVE  c # e /\ job'[e] = job[e]
  BY <1>1, <1>7 DEF Job
<1>8. ASSUME NEW n, job' = [job EXCEPT ![c].at = "reserve", ![c].n = n, ![c].seen = NoRow]
      PROVE  c # e /\ job'[e] = job[e]
  BY <1>1, <1>8 DEF Job
<1>9. ASSUME NEW seen, job' = [job EXCEPT ![c].at = "again", ![c].seen = seen]
      PROVE  c # e /\ job'[e] = job[e]
  BY <1>1, <1>9 DEF Job
<1>10. ASSUME EngineStep(c) PROVE Rest(c) \/ GoOn(c, "issue")
  BY <1>10 DEF EngineStep, Create, SettleIsolation, ReconcileIsolation, ReconcileLift,
               AdoptByEngine, Extend, SettleExpiry
<1>11. ASSUME PersonStep(c) \/ LeaveToOther(c) PROVE Rest(c)
  BY <1>11 DEF PersonStep, AdoptByPerson, SettleLift, LeaveToOther
<1>12. ASSUME Issue(c) \/ IssueReturns(c)
       PROVE  GoOn(c, "wait") \/ \E says : job' = [job EXCEPT ![c].at = "settle", ![c].says = says]
  BY <1>12 DEF Issue, IssueReturns
<1>13. ASSUME Resolve(c)
       PROVE  \E n : job' = [job EXCEPT ![c].at = "reserve", ![c].n = n, ![c].seen = NoRow]
  BY <1>13 DEF Resolve
<1>14. ASSUME Reserve(c)
       PROVE  \/ Rest(c) \/ GoOn(c, "issue")
              \/ \E seen : job' = [job EXCEPT ![c].at = "again", ![c].seen = seen]
  BY <1>14 DEF Reserve
<1>. QED BY <1>5, <1>6, <1>7, <1>8, <1>9, <1>10, <1>11, <1>12, <1>13, <1>14 DEF CallerStep

\* An engine about to create has decided: in this step, or before
LEMMA CreateIsDecided ==
  ASSUME IInv, Next, OneEngine, NEW e \in Engine, job'[e].at = "create"
  PROVE  \/ job[e].at = "create" /\ NoneBegins
         \/ Leases = {} /\ UNCHANGED row
<1>1. job \in [Caller -> Job] /\ e \in Caller
  BY DEF IInv, TypeOK, Caller
<1>2. CASE \E f \in Engine, a \in Alert : Decide(f, a)
  BY <1>2 DEF Decide
<1>3. CASE ~\E f \in Engine, a \in Alert : Decide(f, a)
  <2>1. \A f \in Engine : ~Create(f)
    <3>. SUFFICES ASSUME NEW f \in Engine, Create(f) PROVE FALSE
      OBVIOUS
    <3>. QED BY <1>1, CallerDoesNotDecide DEF CallerStep, EngineStep, OneEngine
  <2>2. ASSUME NEW c \in Caller, NEW at, NEW b, NEW n, NEW seen, NEW says,
               Begin(c, at, b, n, seen, says), at # "create"
        PROVE  job'[e] = job[e]
    BY <1>1, <2>2 DEF Begin
  <2>3. ASSUME NEW c \in Caller, NEW a \in Alert,
               (c \in Engine /\ EngineStarts(c, a)) \/ StartLift(c, a)
        PROVE  job'[e] = job[e]
    BY <1>3, <2>2, <2>3 DEF EngineStarts, StartReconcile, StartExpire, StartLift
  <2>4. ASSUME NEW c \in Caller, Stop(c) PROVE job'[e] = job[e]
    BY <1>1, <2>4 DEF Stop, Rest, IdleJob
  <2>5. ASSUME NEW k \in Command, Channel(k) \/ Result(k) \/ \E r \in Ledger!Results : Host(k, r)
        PROVE  job'[e] = job[e]
    BY <2>5 DEF Channel, Result, Host
  <2>6. job'[e] = job[e]
    BY <1>1, <2>3, <2>4, <2>5, CallerDoesNotDecide DEF Next, Caller, Renew, Expiry
  <2>7. NoneBegins
    BY <2>1, StepBeginsNone
  <2>. QED BY <2>6, <2>7
<1>. QED BY <1>2, <1>3

LEMMA LeaseStep == OneEngine /\ IInv /\ LeaseInv /\ [Next]_vars => LeaseInv'
<1>. SUFFICES ASSUME OneEngine, IInv, LeaseInv, [Next]_vars PROVE LeaseInv'
  OBVIOUS
<1>1. CASE UNCHANGED vars
  BY <1>1 DEF vars, ledgerVars, LeaseInv, Leases, Holds, Isolate, LiftOf
<1>2. CASE Next
  <2>1. \A a, b \in Leases' : a = b
    <3>1. CASE NoneBegins
      BY <3>1 DEF NoneBegins, LeaseInv, Leases
    <3>2. CASE ~NoneBegins
      <4>1. PICK e \in Engine : Create(e)
        BY <1>2, <3>2, StepBeginsNone
      <4>2. Leases = {}
        BY <4>1 DEF Create, LeaseInv
      <4>. QED BY <4>1, <4>2, CreateBegins DEF Leases
    <3>. QED BY <3>1, <3>2
  <2>2. ASSUME NEW e \in Engine, job'[e].at = "create" PROVE Leases' = {}
    BY <1>2, <2>2, CreateIsDecided DEF LeaseInv, Leases, NoneBegins
  <2>3. ASSUME NEW a \in Alert PROVE Holds(a)'
    <3>1. CASE \E k \in Command, r \in Ledger!Results : Host(k, r)
      BY <1>2, <3>1, HostHolds DEF NoneBegins, Host
    <3>2. CASE UNCHANGED <<outcome, isolated>>
      BY <1>2, <3>2, OthersHold
    <3>3. ASSUME NEW c \in Caller, CallerStep(c) PROVE UNCHANGED <<outcome, isolated>>
      BY <3>3 DEF CallerStep, EngineStep, PersonStep, Create, SettleIsolation,
                  ReconcileIsolation, ReconcileLift, AdoptByEngine, Extend, SettleExpiry,
                  AdoptByPerson, SettleLift, LeaveToOther, Resolve, Reserve, Issue,
                  IssueReturns, Ledger!Issue, ledgerVars
    <3>4. ASSUME NEW k \in Command, Channel(k) \/ Result(k)
          PROVE  UNCHANGED <<outcome, isolated>>
      BY <3>4 DEF Channel, Result, Ledger!Doubt, Ledger!Refuse, Ledger!Start, Ledger!Record
    <3>. QED BY <1>2, <3>1, <3>2, <3>3, <3>4
             DEF Next, EngineStarts, Decide, StartReconcile, StartExpire, StartLift,
                 Renew, Expiry, Stop, ledgerVars
  <2>. QED BY <2>1, <2>2, <2>3 DEF LeaseInv
<1>. QED BY <1>1, <1>2

LEMMA LeaseInit == Init => LeaseInv
BY DEF Init, LeaseInv, Leases, Holds, NoRow, InEffect, IdleJob, Caller

LEMMA OneEngineInvariance == ASSUME OneEngine PROVE Spec => []LeaseInv
<1>1. IInv /\ IInv' /\ LeaseInv /\ [Next]_vars => LeaseInv'
  BY LeaseStep
<1>. QED BY <1>1, LeaseInit, Invariance, PTL DEF Spec

\* As long as one engine runs at a time, one lease is in effect at a time: a decision is
\* written before the next is taken (containment.go Tick, react, decide).
THEOREM OneAtATime == ASSUME OneEngine PROVE Spec => []OneInEffect
<1>1. LeaseInv => OneInEffect
  BY AtMostOneElement DEF LeaseInv, OneInEffect
<1>. QED BY <1>1, OneEngineInvariance, PTL

\* As long as one engine runs at a time, an active lease holds: no lift of an older
\* lease is still on its way (containment.go react, Reconcile; lift.go reserveLift).
THEOREM ActiveLeasesHold == ASSUME OneEngine PROVE Spec => []ActiveHolds
<1>1. IInv /\ LeaseInv => ActiveHolds
  <2>. SUFFICES ASSUME IInv, LeaseInv, NEW a \in Alert, row[a].state = "active",
                       \A n \in 1..MaxLifts[a] : started[LiftOf(a, n)] = 1 =>
                         outcome[LiftOf(a, n)] \in {"failed", "unsupported"}
               PROVE  isolated
    BY DEF ActiveHolds
  <2>1. outcome[Isolate(a)] = "succeeded"
    BY IdsAreCommands
       DEF IInv, RowInv, GoodRow, Acted, LedgerInv, Ledger!RowIsTrue, Ledger!Results
  <2>2. \A n \in 1..MaxLifts[a] : outcome[LiftOf(a, n)] # "succeeded"
    BY IdsAreCommands DEF IInv, LedgerInv
  <2>. QED BY <2>1, <2>2 DEF LeaseInv, Holds, InEffect
<1>. QED BY <1>1, OneEngineInvariance, Invariance, PTL
=============================================================================

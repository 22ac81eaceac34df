# OpenXDR: a TLA+ model of its core

OpenXDR is a detection and response server (`server/`, Go) with an agent on every
host (`agent/`, Rust). Agents stream events in; the server stores them, raises alerts
and sends commands back (kill, isolate, exec, ...). PostgreSQL holds all durable
state, NATS carries events (JetStream) and, when several server nodes run, commands
between nodes (core NATS).

This directory holds specifications of the parts whose difficulty lies in the order
of steps: several goroutines, several nodes, lost messages, crashes between two writes.
Every definition stands for lines of the source; `PROJECT.json` names them.

## The system and its parts

| Part | State it keeps | Operations | What is hard | Correct means |
|---|---|---|---|---|
| Response hub `response/hub.go` | the `commands` rows; per node a map from agent to its outbound channel of 32 places | `issue`, `mark`, `finish`, `settle`, `Complete`, `Attach`, `evict`, `Detach`, `Abandon`, `SendFailed` | callers, stream handlers and router callbacks interleave; a node may die anywhere | a command runs at most once, a row never contradicts the host, no send on a closed channel |
| Router `response/router.go`, `natsretry/retry.go` | one subscription per connected agent | `Attach` (with eviction of other nodes), `Deliver`, `request` | a request that timed out may still be served; eviction may come late or never | only what provably reached nobody is sent again |
| Command stream `grpcsvc/commands.go`, `command_receipts.go` | a handler per stream with a receiving goroutine | write commands, store results, acknowledge reports | the stream breaks between a write and its bookkeeping | what was written is not called failed, what was not written is given up |
| Agent command loop `agent/src/main.rs`, `receipts.rs` | one file per command, written before it runs and rewritten with its result | `reserve`, `finish`, `acknowledge`, `reject`, `open`; `run_command`, `command_stream`, the abort of a session | restart or abort between reservation, action and result; a directory that was not synced | a record outlives the action until the server has the result |
| Agent event pipeline `agent/src/spool.rs`, `delivery.rs` | a queue of files with a bound in bytes | `collect`, `persist`, `append`, `front`, `acknowledge`, `upload`, `open` | crashes around a directory sync; batches sent in part or twice; work that outlives its upload | nothing accepted is lost, order kept |
| Event bus and ingest `eventbus/`, `ingest/`, `grpcsvc/agent.go` | a handler with a batch for each call; a JetStream work queue; events, alerts, `alert_dedup_state` | `handle`, `publish`, `flush`, `PublishBatch`, `ProcessBatch`, `store`, `upsertAlert`, ack, nak | publications that time out; redelivery while the first is at work; dedup windows; the shard of an event | every event stored, in order, counted once |
| Containment `containment/` | leases on isolated hosts | one `Tick`: reconcile, react, expire, verify; `Lift` by a person | a lift racing an expiry; a command whose outcome is unknown; a caller that stops half-way | a lease that says it ended did; nothing is sent twice; no host stays isolated after its lease |
| Command gate `commandgate/` | approvals | authorise, wait, consume, authorise again, issue | an approval that comes after its session ended | no command without a policy or one fresh approval |
| Leader election `cluster/leader.go` | a PostgreSQL advisory lock on a connection | acquire, ping, run tasks, release | the connection is lost while tasks still run | tasks of one leader at a time, but for one that does not know yet |
| Scheduled tasks `schedule/`, `agentchat/task*.go`, `recovery.go` | `task_runs`, `agent_sessions` with a lease | collect, launch, begin, rerun, attempt; start and renew a lease, guard a tool, finish; recover | a slow executor whose lease expired, beside the one that took over; a crash around an effect | an effect is not repeated, a run tells the truth and ends, the limit holds |
| Limits, queues `worklimit/`, `graphqueue/`, `aijob/` | slots and leases in tables | claim, renew, finish, reclaim | as above | as above |
| Integration worker `integration/` | jobs with leases | claim, send, settle | sent but not settled | at least once, states never move back |
| Findings, incidents, reviews | rows with claims | claim, decide, close, reopen | a decision on a row that changed | as above |
| Event archive, partitions `eventarchive/`, `eventpart/` | partitions and their archived files | copy, verify, swap | a write between the copy and the swap | no row lost |
| Audit chain `auditchain/` | rows linked by hashes | append, verify | concurrent appends | one chain |
| Sigma, temporal, correlation, analytics | rules; scores | evaluate an event or a window | mostly data | as the rule says |
| AI triage, chat, automation | conversations, tasks | ask a model, act through the gate | the model's answers | acts only through the gate |
| Identity, assets, vulnerabilities, imports | inventories | upserts | mostly data | - |
| Authentication, API, console, notifications, deployment | sessions, settings | requests | I/O | - |

**How they interact.** A caller (the API, containment, automation - after the command
gate) calls `Hub.issue`. The row is inserted as `pending`; the command goes into the
channel of the agent's stream, on this node or, through a NATS request, on the node
that has it; the stream handler writes it to gRPC; the agent reserves it on disk, runs
it and writes the result to disk; the result returns on the stream and, until it is
acknowledged, again and again by `ReportCommandResult`; `Hub.Complete` writes it into
the row. Events travel the other way: collectors, disk queue, `ReportEvents`,
JetStream, ingest, rows, alerts, and the leader's analyses over them.

## Modules

`ResponseCommands` declares the constants shared by both halves: `Cmd`, the set `Exec`
of commands of kind exec (the agent runs those in tasks of their own), `Results`.

**`CommandHub`** - the server half for one agent. Commands of different agents share
no state but a table with one row each, so one agent is enough.

| Variable | In the code |
|---|---|
| `status` | `commands.status`; `none` before the insert |
| `issuer`, `answer`, `tries`, `inflight` | the call of `Hub.issue`: where it stands, the NATS reply it waits for, the rounds of `natsretry.Do`, requests handed to a subscriber |
| `conn`, `buf`, `closed` | `Hub.conns` of each node, the buffered channel, whether it was closed |
| `sub`, `evicting` | the router's subscription, evict broadcasts on their way |
| `handler`, `hold` | the `Commands` handler, the command whose `Send` failed |
| `wire` | written to the gRPC stream and not read by the agent |

Every hold of `Hub.mu` is one action, and every statement on the table is one action
that may also fail. What happens between two of them - `enqueue` and `mark`, `Detach`
and `Abandon`, a failed `Send` and `SendFailed` - is a state in which anything else
may happen. A timeout may come at any time, before or after the request was served.

**`AgentReceipts`** - the agent half: the receipt files (`record` is what the process
sees, `durable` what a crash is sure to leave), the tasks that run commands (`run`,
and `attached`: their futures are alive) and the host (`started`, `outcome`). A write
whose directory sync failed leaves a record that a crash may or may not lose.
`commands.abort()` drops futures at their next await: what runs on a blocking thread
goes on, what was still to be asked for never happens.

**`CommandDelivery`** - the two together with the stream, results on it (`streamed`),
`ReportCommandResult` calls and their acknowledgements. Reports and results may be
lost, delayed, reordered against each other and stored twice.

**`CommandLedger`** - the abstract specification: rows and host only. A command starts
at most once and only while its row is open; a row is closed by the host's own result
or by a refusal of what the host never began.

**`CommandDeliveryProofs`** - theorems about `CommandDelivery`.

`AgentEvents` declares the events of one agent, numbered in the order in which its
collector received them.

**`AgentSpool`** - the agent's event queue. `files` is the directory as the process sees
it, `durable` what a crash is sure to leave: a rename or a removal whose directory sync
failed may or may not survive (`Survivors`). `taken`, `batch`, `blocked`, `collecting`
are the collector's task (`delivery::collect`, `persist`); `uploading`, `load`, `sent`,
`acking` the loop `delivery::upload`; `orphans` the `acknowledge()` calls that go on
although their upload was dropped (`spool` work runs on blocking threads). Capacity is
counted in events; `Limit` is the directory's bound in bytes.

**`EventIntake`** - the server. `call`, `known`, `todo`, `queued`, `received`: the
`ReportEvents` handlers (`agentStream`). `bus`: the JetStream stream, with messages of a
shard in order. `late`: publications that timed out and may be stored yet. `worker`,
`msg`, `pos`, `mine`, `view`: the consumers' callbacks with their database transactions,
the rows one inserted and the alerts it sees under the fingerprint's lock. `stored`,
`alerts`: what is committed. One rule is modelled (`Hit` are the events it hits); the
fingerprint contains the partition key, so alerts are kept per shard.

A handler works on one event at a time; a batch is published one message at a time, and
any prefix may be one, since the ticker may flush at any moment and a batch is split at
the byte limit. A transaction's steps are the insert, the lock with the alert, and the
commit; two transactions wait for each other's rows and locks as in PostgreSQL.

**`EventPipeline`** - both, joined by calls (`link` is the one the upload waits for; a call
it gave up goes on beside the next). `accepted` records the events whose `append`
returned `Ok`; `calm` says that nothing fails any more and is used by liveness only.

**`EventLog`** - the abstract specification: events are accepted, stored and counted;
an accepted one is never lost, accepted ones are stored in order.

**`Containment`** - the leases that isolate one host, one row for each alert that calls
for it (the key of a lease is the host and the action). `row` is the table, `job` what
each caller - an engine's `Tick` or a person's `Lift` - is about and what it read before;
every statement is an action, and between two of them other callers and the host go on,
or the caller stops for good (`Stop`). Commands are those of `CommandLedger`, instantiated
here: what this module may rely on is what `CommandDelivery` is proved to implement.
`lost` are commands that were written down and could not be delivered nor closed. A lift
command's id is derived from the failed lift before it, so it is the alert and a number;
`Candidate` is `resolveLiftCommand`. Two rows of one alert cannot be (`initialContainmentID`).
Time is relative: `due` says that `expires_at` has passed. The fuse, the scope and the
review by a model are choices.

**`Leadership`** - `RunLeader`: `holder` is the connection that has the lock, `leading`
what each node believes. The lock goes with the connection; the node learns of it later.

**`TaskSessions`** - the session rows in which scheduled tasks run, with the lease of their
executor (`owned`, `expired`, `late`), the mark that they may be replayed (`safe`) and
`cancelled`. An executor that renews its lease is one whose lease does not run out; `owned`
and `expired` are cleared with the end of a session, where nobody reads them.

**`CommandGate`** - approvals for the exec commands of those sessions, one at a time for a
session. `stale` remembers the sessions that were over when their approval was given.

**`TaskRuns`** - all three with the scheduler: `run` is `task_runs` with one round for a
task, `job` what a scheduler's goroutine is about (a node executes one session at a time,
`DefaultMaxRunning`), `effects` the sessions whose tools did something. `begin`, `rerun`,
`recoverExpired` are transactions and one action each; all else is a statement each. Which
tools a task uses is `Effectful`. Not kept: the order of the queue, skipped rounds.

`MCAgentReceipts`, `MCCommandDelivery`, `MCEventPipeline`, `MCContainment`, `MCTaskRuns`
instantiate them for TLC; the theorems are in `CommandDeliveryProofs`, `AgentReceiptsProofs`,
`ContainmentProofs`, `TaskRunsProofs` and, each built on the one before,
`EventPipelineProofs`, `EventOrderProofs`, `EventCountProofs` and `EventLogProofs`.

## Runs

| Run | Question | Bounds |
|---|---|---|
| `agent_receipts` | Does the receipt store alone, under a server that repeats any command at will, keep a command from running again, know of everything that began, and never claim a wrong result? | two commands, one place in the store (so that the full store refuses), one restart, each command begun at most twice |
| `cluster` | One command through two nodes: routing with one retry, takeover, eviction that may be lost, a node crash, an agent restart | two streams, one on each node; channel of one place |
| `node` | Two commands through one channel of one place on one node; refinement of the ledger | one stream, no restart |
| `live` | Do channels drain, and is an exec command's fate told in the end? | two streams, one restart |
| `abort` | (violation) a reserved command is run or reported while the agent lives | one command, one stream |
| `event_spool` | Crashes, unsynced directories, repeated appends, dropped acknowledgements, publications that arrive late: is anything accepted lost, does anything overtake? | two events, one restart, one repeated append, one call, one consumer |
| `event_workers` | Redelivery to a second node during and after the transaction, calls the agent gave up: does the pipeline implement `EventLog`, are events kept in order and counted once, is one alert made of hits in one window? | two events of the same time in one message or two, both hits, two calls, two callbacks |
| `event_live` | The same event in two shards at once, after a failed look-up of the asset: counted once, and, when nothing fails any more, stored? | two events, two callbacks |
| `event_order` | (violation) events of one asset stay in order | two events |
| `containment` | Late, doubtful and missing answers, lifts by a person and by expiry at once, failed lifts, a caller that stops: do leases tell the truth, is each lifted once, and does one that is due not stay so? | two alerts, one engine, one person; one lease with two lift commands, of which the first may fail; one stop |
| `containment_stuck` | (violation) a lease ends by itself when it expires | one alert, one stop |
| `tasks` | A node dies or loses its connection at any moment: are effects repeated, approvals used late, limits exceeded, stopped tasks started again, runs wrong or left running? | two nodes, two tasks of which one has effects, two sessions of which the first may be cancelled or late, one fault |

*Why the bounds are enough.* The channel of `pendingPerAgent` (32) places is cut to one,
so that "full" happens with two commands. Two streams give takeover, eviction, and the
stale request to the first stream; a third repeats the second. One retry shows all that
a retry can do (sent again after no responders, given up); one crash of either kind
hits every state. Only one thing grows with the number of commands - two of them in one
queue - and `node` and `agent_receipts` have two. The proofs below hold without bounds.
In the pipeline two places for messages are enough for a message and its repetition or
its successor, which is all that a shard with one message outstanding can tell apart; at
most one publication is late at a time (`MaxLate`, in `event_spool` and `event_order`; a second
would only repeat another message; the other two have none, for their size); chunks, batches and messages of one or two events give every boundary that
64, 128 and 500 do.

In `containment` a second lift command is the first one's successor, and a third would
repeat that; the last one of the instance does not fail, since the chain of the code has
no end; the second lease is there for the key. Two engines are not assumed: `RunLeader`
gives one but for the moment described below. In `tasks` one fault of either kind is
followed by the other leader's work on what it left; two sessions give one rerun for one
of the tasks, and only the first, which is the one that may be run again, is cancelled or
passes its deadline (`MCSpec`): of the second, that would matter to a third alone. Two
reruns of one round that race need a third session, which the run does not have for its
size; the proofs hold for any number of sessions, nodes, tasks and faults.
`CHECK_DEADLOCK FALSE`: when the streams of the instance are used up and every row is
written, every event stored, every round over, nothing is left to do.

**Documented promises the code does not keep** (see `findings` in `PROJECT.json`).
Run `abort`: `main.rs` says that a broken connection does not cancel an execution.
`commands.abort()` (main.rs:180) runs when a session ends for any reason; it drops the
future of a command that is not exec, which may sit between its reservation and its
action: then the command is neither run nor reported until the agent restarts. (The
same abort leaves an action that is on a blocking thread going on beside the next
session's first command; no run is about that.)

Run `containment_stuck`: the package says that a lease ends by itself when it expires. A
caller reserves the lift in the row before it issues the command. If it stops between the
two, every other caller takes the reservation for one that is being issued, the expiry
(containment.go:756) as well as a person (lift.go:48): the host stays isolated. The run
`containment` shows with `LeaseEnds` that there is no other way for a due lease to stay.

Run `event_order`: `docs/deployment.md` says that events of one asset stay in order.
`resolveAsset` ignores every error; after one failed query an event is published under
the agent's id, the next one under the asset's, in a shard of its own. `InOrder` holds
in the other runs, where the look-up does not fail (`LookupFails = FALSE`); `event_live`
shows what holds in spite of it.

Two things no run shows. With two engines (`Engine = {e1, e2}`: a leader that does not know
yet that it lost its lock, which `OneLeader` allows) `OneInEffect` does not hold: two alerts
may be decided on at once, and no index keeps two rows of a key apart. And `docs/detection.md` promises one row for a fingerprint within the
window. `upsertAlert` knows the last alert only, so an event whose time goes back takes its
place, and the next one in the first alert's window makes another row. An event whose
`append` failed, so that nobody promised anything of it, and which reached the server all
the same, late and after the next one, does this without any clock going back; so does an
event published again after a failed look-up. `OneRowPerWindow` is therefore checked, in
`event_workers`, and proved for times that do not go back, a disk and a look-up that do
not fail.

## Fairness

Liveness is checked under `FairSpec` only. A caller of `issue` runs on (each wait has a
timeout); a stream handler runs on (`Send` fails when the stream is gone); a host action
ends (exec has a timeout) and its result is saved again and again every 5 seconds
(`SF`: the disk does not fail for ever); the upload loop reports what is ready and one
of its reports is stored in the end (`SF`: network and database do not fail for ever).
Nothing is assumed of connections: the agent may never reconnect.

For the pipeline, `AllStored` speaks of the time after the last failure (`calm`), and
needs weak fairness only: `persist` tries again every 5 seconds, the upload loop runs on
and starts again after an error, a handler runs on and ends with its deadline of 30
seconds, JetStream delivers what is not acknowledged, a transaction runs on unless it
waits for another. That PostgreSQL never has to break a cycle of waits is part of what
the run shows: no rollback happens in the calm. A full stream makes a publication wait
in the calm; in the code it fails and is sent again.

In `containment` a caller that did not stop runs on (`WF`): `Hub.issue` returns, statements
end. `expire` comes round every `Interval` and takes up every lease that is due (`SF`: it may
be due only now and then, since evidence renews it). Nothing is assumed of the host or of
the person; a command may stay in doubt for ever, and then the lease waits, as the code
says. In `tasks` nothing is assumed of executors and schedulers: `Recover` runs every
minute on every node (`WF`), and a lease that nobody renews runs out (`WF`).

## Proofs

The theorems hold for every value of the constants that satisfies the assumptions each
component's module names. Every safety property of a passing run is one. Some need a
hypothesis more, on what fails (three of the event pipeline) or on the number of engines
(two of containment); it is named below and in the theorem, and TLC finds the property
violated without it.

**The command channel.** `CommandDeliveryProofs` proves for every set of commands, nodes and streams, every
`Home` and `Origin`, with or without cluster:

| Theorem | States |
|---|---|
| `TypeCorrect` | `Spec => []TypeOK` |
| `RunsAtMostOnce` | a command begins at most once on the host |
| `RowsAreTrue` | a closed row carries the host's own result, or says failed of a command that never began |
| `NothingIsForgotten` | what began has a durable record, or a settled row |
| `ChannelsAreOpen` | the channel in `Hub.conns` is open and its handler will drain it |
| `RowsMoveForward` | rows only move forward (action property) |
| `ImplementsLedger` | `CommandDelivery` implements `CommandLedger` |

They assume `HubAssumption` and `ReceiptsAssumption`, and that the constants are what
`CommandDelivery` says they are.

*The argument.* "At most once" is not inductive: it holds because a command is only ever
in one place. `IInv` says where. A command is with its caller, or in one NATS request, or
in one channel at one position, or on one wire at one position (`OnePlace`), and it only
moves forward through these (`Past` is stable: no action puts a command back, because
the retry is guarded by "no responders" or "no connection here"). Everything the agent or
the row knows of a command - a run, a record, a result, a report - is a trace that it has
left the last place (`LandedIsPast`), so an arriving command leaves no trace yet, and
`Accept` of it starts from nothing. `RunAgrees` ties the run to the host's counter and to
the two views of the disk; `MessagesTrue` says every result under way is the host's own or
a refusal of what never ran; `ForgottenIsSettled` says an acknowledgement follows the
row. Each conjunct is proved kept by one lemma per kind of step (`PlacesStep`,
`LandedStep`, `RunsStep`, `MessagesStep`, `ForgottenStep`); lemmas on queues (`AppendQueue`,
`TailQueue`, `DropQueues`) carry the positions. `ChannelsAreOpen` has an invariant of its
own. The refinement is the identity on `status`, `started`, `outcome`; `IInv` gives each
step of the channel its step of the ledger.

**Agent receipts.** `AgentReceiptsProofs` proves the same of the store alone, under a server
that may send any command in any state of the agent, and acknowledge or reject what it
likes; from `ReceiptsAssumption`:

| Theorem | States |
|---|---|
| `ReceiptsTypeCorrect` | `Spec => []TypeOK` |
| `BegunOnceUntilForgotten` | a command begins again only after its receipt was acknowledged |
| `EveryRunIsRecorded` | what runs, and what ran and was not acknowledged, is in the store |
| `OnlyTrueResultsAreReady` | a result ready to be reported is the host's own, "unknown", or a refusal of what did not run |

*The argument.* `CommandDelivery` restricts the server; here nothing does, so the invariant
may use no place of a command, only the store: what memory and the two views of the disk
say of a command that began, and how far each may lag behind the other before a restart.

**The event pipeline.** `EventPipelineProofs` proves, for every number of events, batches,
calls, workers, restarts and late publications, every assignment of events to times and
hits, and any limits:

| Theorem | States |
|---|---|
| `TypeCorrect` | `Spec => []TypeOK` |
| `NothingAcceptedIsLost` | an event whose `append` returned `Ok` is stored, or it is on its way |

*The argument.* An event leaves the spool when the server answers, so the answer must be
evidence. The invariant follows the evidence back: the agent's upload holds an answer
only of a call about the front file (`UploadOK`, `LinkOK`); a call answers once every
event of it was published, or is one the agent gave up and whose answer nobody reads
(`OrphansOK`); what was published is in the stream until a worker that stored all of the
message confirms it (`WorkersOK`). What has no such evidence is in a file that both the
process and a crash see, since `append` syncs the directory before it answers.

`EventOrderProofs` adds `EventsStayInOrder`: no event of a shard is stored before an earlier one that is
stored later. It assumes `LookupFails = FALSE`, and must: run `event_order` refutes it
otherwise.

*The argument.* Events are repeated everywhere - by the spool after a crash, by calls the
agent gave up, by late publications, by redelivery - so no sequence on the way is sorted.
What holds is weaker and closed under all of these: each is *led* (`OrderInv`), that is,
before any event of it stands every earlier one that may still count, or that one has
already come to where this sequence goes next. A prefix of a led sequence is led, so a
batch may be cut anywhere; a late copy is led for ever, for what it lacks only goes
further. Files are in order but for the batch that is appended again; and of the stream
only the head message is not stored yet when a worker begins its transaction.

`EventCountProofs` adds `EachHitIsCountedOnce`, with no hypothesis: the counts of all alerts
together are the number of stored hits, however often an event is delivered and into
whichever shards.

*The argument.* A message names an event once (`RiseInv`: what is read from a file, chunked
and batched stays in the order of collection), so a transaction inserts it once. What two
transactions insert is disjoint, and disjoint from what is stored: the unique index
(`CountInv`). Under the advisory lock on a shard the alerts a transaction sees are the
committed ones and one count for each hit it inserted and has done with (`MineOK`), so a
commit adds to the counts what it adds to the stored hits. The counts of a list are stated
as the size of a set (`Units`: one pair for each count of each alert), so that the proof
needs no induction over the list, only the library's facts about cardinality.
`ViewAssumption` says that the value for "not read yet" is no list.

`EventLogProofs` adds two more.

- `PipelineImplementsLog`: with `LookupFails = FALSE`, `EventPipeline` implements `EventLog`.
  A collected event is `Take`, an `append` that returns `Ok` is `Accept`, a commit is
  `StoreAll`. No other step brings an event back, so each is `Lose` - of events that were
  not accepted, as `Kept` holds after it - or a stutter. `InOrder` and `CountedOnce`, in
  their inductive form, are the guards of `StoreAll`.
- `OneRowForAWindow`: with `LookupFails = FALSE`, `DiskFails = FALSE` and hits whose times do
  not go back, no two alerts of a shard for a fingerprint begin within one window. When the
  disk does not fail, what left the batch is accepted (`PassedStays`), so when a worker
  comes to an event, none that is stored or that it handled is later (`NextIsLater`); a new
  row then begins when the windows of all rows before it are over (`RowsOK`).

**Containment.** `ContainmentProofs` proves, from `ContainmentAssumption`, for every set of
alerts, engines and persons and every number of lifts and stops:

| Theorem | States |
|---|---|
| `TypeCorrect` | `Spec => []TypeOK` |
| `EndedWereReleased` | a lease that says it ended was lifted on the host |
| `NothingWasDone` | a decision that says nothing was done is right |
| `OneLiftEach` | of a lease's lifts at most one is not a failure |
| `PersonsLiftStays` | no step calls a lease expired that a person lifts (action property) |
| `OneAtATime` | with one engine: one lease in effect |
| `ActiveLeasesHold` | with one engine: an active lease isolates the host until its lift begins |

*The argument.* Callers act on rows they read long ago, so what they hold must be true for
good. It is: the lifts of a lease form a chain, of which each has an id derived from the
one before and exists only when all before it failed (`ChainTo`, which is stable, since a
closed row of the ledger stays as it is). `GoodRow` says what a row may be given the
commands, `GoodJob` what a caller may be about given row and commands: every lift either
names is a place the chain has reached (`ChainInv`). So whoever resolves a lift finds the
first that has not failed (`CandidateIsNext`), and two callers with a different past find
the same one. An isolation has one caller who may issue it, the one whose insert made the
row (`FirstInv`); when that caller is gone without a command, the isolation is `Dead`, and
"failed" is true. These hold with overlapping engines. With one engine (`OneEngine`,
assumed by two theorems, for `OneInEffect` is false with two) `LeaseInv` adds that a decision
is taken while no lease is in effect and that a lease in effect holds (`Holds`): only
`Create` begins a lease (`StepBeginsNone`), and no lift of a lease that ended still runs
(`NoLiftRuns`), so none can undo a later isolation.

**Scheduled tasks.** `TaskRunsProofs` proves, for all sets of nodes and tasks and
every number of sessions and faults, from `LeaderAssumption`, `SessionAssumption` and
`EffectfulAssumption`:

| Theorem | States |
|---|---|
| `TypeCorrect` | `Spec => []TypeOK` |
| `EffectsHappenOnce` | of the sessions of a round one at most had an effect |
| `AttemptsAreAlone` | a round runs in one session at a time |
| `RunsAreTrue` | a run that succeeded has a session that did; an interrupted one had no effect |
| `OneLeads` | one leader, but for nodes that lost their connection unknowingly |
| `StopsAreFinal` | no session for a round a person stopped (action property) |
| `ApprovalsAreInTime` | no command is allowed on an approval given when its session was over |
| `LimitHolds` | no more runs at once than the limit, as long as no leader lost its lock |

*The argument.* Leadership plays no part in the safety of runs: it may be lost at any
moment, so the database must carry it. `IInv` says that a session with an effect carries
the mark, which nothing takes away (`EffectsMarked`: the mark is written before the tool,
and an owner is never set anew); that a session which its round's run does not name any
more is over and without the mark (`LeftBehind`: `rerun` follows no other); what a run says
of the session it names (`RunOK`); and that an executor between guard and tool has set
the mark (`JobOK`). So of a round's sessions only the one its run names can have had an
effect or be running, and an executor that was superseded can neither mark, nor use a
tool, nor end the run. `LeadersHold` (a node that leads has the lock
or lost it) and `NoneStopped` (of the sessions before the last none is cancelled) are
invariants of their own.
`ApprovalsAreInTime` rests on `GateInv`: a session that is over and not marked safe never
lives again (`DeadStay`), and while an executor waits for a person no other caller is
about its session (`Alone`), so what the gate reads after the decision is about the same
life of the session. `LimitHolds` rests on `LimitInv`: only a node that leads creates runs,
it counts before it does, and as long as nobody lost the lock no other node creates one
in between.

*Only model-checked,* and why. Liveness (`ChannelsDrain`, `ExecIsReported`, `AllStored`,
`LeaseEnds`, `RunEnds`) and the findings: they need fairness and `ENABLED`, which the proof
system does not reach.

## Not modelled

In the parts above: the identity check on results (`Complete` refuses a result of an
unknown command; the agent then quarantines it: `Reject`, in `agent_receipts` only), the
path of an old server without `ReportCommandResult`, damaged receipt files, the
self-upgrade, `Online` and the presence table (reads), `last_seen`. A server node that
dies leaves the rows of its callers open for ever; nothing in the code closes them, so no
property speaks of it.
In the event pipeline: damaged files and their quarantine, the change of the agent's
identity (`retire_identity`), the switch of the collector's configuration, the direct path
without a queue, the check of the cold archive, the rows other detections derive from an
event (temporal, authentication, lateral spray, identity) and their locks, messages that
do not decode. Events dropped before they reach the collector's batch are outside: the
promise begins with `append`. JetStream itself is external: it keeps what it confirmed, in
order, and hands out one message of a shard at a time (`MaxAckPending 1`).

In containment: which actions an alert calls for, the actions that are not leases (kill,
quarantine, lock), `AutoVerifyCommands`; a lift beyond the sixteenth failed one. In scheduled
tasks and the gate: commands of persons and of chats, the text of a policy, the approval rows
of commands that were given up, rounds that are skipped, renewal as a step of its own.

Of the remaining parts see `components` in `PROJECT.json`.

## Plan

1. *(done)* the command channel, with its proofs.
2. *(modelled, checked, proved)* the event pipeline. To do: the other way into `EventIntake`,
   without a queue.
3. *(modelled, checked, proved)* containment. To do: one-shot actions.
4. *(modelled, checked, proved)* the leader, scheduled tasks and the
   gate on their commands. To do: commands of persons and chats.
5. Slots and leases: `worklimit`, graph queue, integration jobs; the abstract lease all of
   them, and the task sessions, implement.
6. Archive swap, audit chain, and the pure algorithms (dedup windows, spreads) against
   reference definitions.

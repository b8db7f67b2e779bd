# Verification of cronicle

cronicle runs schedules of tasks: a cron loop or an HTTP request puts a run on a
durable queue, a worker claims it and walks its DAG of shell commands and agent
calls, and a projection of the log events shows what happened. This directory
holds a TLA+ development of the parts that decide whether a run happens, happens
once, happens in order, and is reported as what it was.

Paths below are relative to `internal/cronicle/` of the repository unless they
start at its root.

## 1. Inventory

| component | state | operations | interacts through |
|---|---|---|---|
| job queue (`state/queue.go`, `queue_self.go`) | `jobs`, `workers` tables | Enqueue, Claim, Ack, Heartbeat, ReapExpired | one mutex and one transaction per operation; HTTP for remote workers |
| queue worker (`worker_http.go`, `worker_queue.go`) | run registry, run context, heartbeat ticker, control stream | consume, execute, heartbeatLoop, controlLoop | claims, heartbeats and acks; cancel messages |
| run control (`state/control.go`, `state/task_cancel.go`, `state/run_state.go`, `state/task_state.go`, `listen_control.go`) | status columns, pause and skip flags, control subscriptions | Cancel, Retry, RetryFailed, RetryTask, CancelTask, PauseRun, skip | the same tables; PushControl to workers |
| DAG walker (`dag.go`) | in-degrees, failed set, a channel, a counter | launch, count down, cascade, verdict | goroutines of the tasks |
| run execution (`dag.go`, `exec.go`, `task_skip.go`) | attempts of a task | gates, attempts, log events | flags it polls, events it logs |
| projection (`state/store.go`, `state/sink.go`, `state/event.go`) | `runs`, `tasks`, `events` | Apply per event | log records in process, `POST /v1/events` from remote workers |
| config reload (`cron.go`, `cron_source.go`, `runtime_state.go`, `configsource/`) | cron entries, last text, last etag | LoadCron, loadInto | goroutines of the cron scheduler |
| dispatch (`cron.go`, `listen.go`, `listen_drain.go`, `queue_self.go`) | schedule pause, drain, a channel of 64, the waiters of a claim | ticks, triggers, pause, drain, shutdown | channel to the queue adapter, `triggerMu` |
| event shipping (`worker_event_ship.go`, `ingest_rehydrate.go`) | a buffer and a batch | ship, drop, ingest | `POST /v1/events` |
| live stream (`state/live_sink.go`, `stream.go`) | subscribers with buffers of 256 | subscribe, fan out | log records |
| agent loop (`pkg/agent/agent.go`, `exec.go`, `mcp.go`, `skill.go`) | turns, budget, messages, MCP servers | set-up, turn, tool call, report | model API, child processes, terminal events |
| secrets (`secretstore/`, `secretsource/`, `state/secrets.go`, `listen_secrets.go`) | rows, etag and last refresh; a producer's table | put, delete, refresh, backfill, get | `GET /v1/secrets`, `secrets` table, the command line |
| migration (`state/schema.go`, `state/pg.go`) | schema version | migrate | start-up |
| the rest (`config.go`, `parse.go`, `log.go`, `git*.go`, `tools.go`, `pkg/exec`, `cmd`) | none of their own | parsing, formatting, child processes | called by the above |

What makes this hard:

* **Concurrency.** Workers, the reaper and operators share the queue rows. Task
  goroutines share the walker's state. Refresh ticks share the scheduler.
* **Failure.** A claim reply, a heartbeat, an ack or a control message can be
  lost; a worker can stall or die between any two of its steps and come back.
* **Ordering.** A late ack races a second claim; a cancel races the events that
  create the rows it wants to mark; a retry's first event follows the cancel; an
  etag is read before the rows it stands for; a handler outlives its client.
* **Shutdown.** A channel is closed under its senders, a store under its writers.
* **Time.** A claim lapses by the clock; a heartbeat has to come first.

What makes each component correct: a run that was accepted is closed exactly once
and only by a worker that executed it; no two workers with working heartbeats
execute it at once; jobs leave the queue in order; tasks start after their
dependencies and a failure reaches exactly the tasks below it; a run shown as
succeeded has no task that is not; what an operator withdrew does not start; the
scheduler's entries follow the configuration; a trigger that was accepted is
served; a chain of retries leaves nothing out and keeps the order; a node's
secrets are the producer's or are not dispensed; an agent keeps to its budget and
leaves no child behind; an event is applied in order or counted as lost.

## 2. Modules

| module | models | kind |
|---|---|---|
| `RunContract` | what the producer promises of a run | abstract specification |
| `JobQueue` | queue, workers, reaper, cancel, retry, faults | component |
| `DagWalk` | `walkDAG` | component |
| `Projection` | the rows of one run under events and verbs | operators on two variables |
| `LocalRun` | a run on one node: `DagWalk` and `Projection` with gates, attempts, operators, a crash | composition |
| `ConfigReload` | `LoadCron`, `loadInto` and the sources behind it | component |
| `Dispatch` | from cron ticks and triggers to a worker's claim, shutdown and restart | component |
| `RetryChain` | the payloads of triggers and retries, over generations | component |
| `Secrets` | producer, fetch, refresh, sealing and the staleness gate | component |
| `AgentRun` | the attempts, set-up, turns and costs of an agent task | component |
| `EventShip` | shipper, ingest and live stream, on the rows of `Projection` | composition |
| `JobQueueProofs`, `DagWalkProofs`, `LocalRunProofs`, `DispatchProofs`, `ConfigProofs`, `AgentRunProofs`, `SecretsProofs`, `EventShipProofs` | theorems about the module they extend; `ConfigProofs` extends `ConfigReload` and `RetryChain`; `LocalRunProofs` instantiates `DagWalkProofs` | proofs |
| `MCJobQueue`, `MCDagWalk`, `MCLocalRun`, `MCConfigReload`, `MCDispatch`, `MCRetryChain`, `MCSecrets`, `MCAgentRun`, `MCEventShip` | instances | model checking |

Definitions named `...Unextended`, `...Never` and the like, marked *Seeded
fault*, are wrong versions of the definition that follows them. Nothing uses them;
each shows that some property notices when the code goes wrong in that way.

### JobQueue

`status`, `claimedBy`, `lease`, `attempt`, `enqueuedAt` are columns of `jobs`,
`currentRun` is the column of `workers`; `pc`, `held`, `beat`, `nextBeat` and
`runCanceled` are the worker process: `idle` in `consume`, `granted` while the
answer to its claim is on its way, `running` in `ExecuteTasks`, `acking` after it,
`down`. `control` holds the cancel messages on their way to a worker.

* Each store operation runs under `Store.mu` in one transaction, so each is one
  action. Between two of them a worker can be overtaken by anything.
* **Time.** `claim_expires_at` is kept as the ticks left until it lapses, which
  makes time unbounded and the state space finite. A tick is longer than the HTTP
  client timeout, so no tick passes with an answer or an ack in flight (`Urgent`);
  and a heartbeat that is due is sent before time moves on, unless the worker
  stalls, which is a fault of its own (`Stall`). The code's 100 s between
  heartbeats and 5 min visibility become any `HeartbeatEvery < Visibility`.
* `enqueued_at` is an RFC 3339 string whose trailing zeros are trimmed, so strings
  of one second do not compare like their times. Rows are therefore ordered by the
  second of their insert only, and `Claim` may take any row of the oldest second.
* `ReapExpired` empties `claimed_by` and leaves `workers.current_run`; `Cancel`
  leaves both. A heartbeat of the owner revives a claim that lapsed but was not
  reaped yet. A heartbeat that fails ends the loop, not the execution.
* Faults, `MaxFaults` of them: the reply to a claim is lost, an ack is lost, a
  heartbeat is lost, a worker stalls, a worker dies. A cancel message may be
  dropped at any time at no charge, as `PushControl` is a hint.
* An ack is applied at once or never. One that waits for `Store.mu` longer than its
  client does, and longer than that worker's next claim, would empty
  `workers.current_run` under the next run (`queue.go:257`). It would touch
  `RegistryNamesTheRun` only, as the row of the next run has another id.

### DagWalk

`walkDAG` at the granularity of its synchronisation: a task's function returns
(recording its failure first), its goroutine sends its name, the loop receives a
name, counts down one dependent at a time, and launches it or marks it failed and
sends it to itself. The channel has the capacity the code gives it, and a send
waits for room. A graph may have cycles and names of tasks that do not exist. What
a task does is left open.

### Projection and LocalRun

`Projection` has the status columns of `runs` and `tasks` and one operator per
event or verb that writes them, upserts and sticky-cancel rules included.
`LocalRun` is `cronicle run --worker`: the in-process worker claims the job, logs
`schedule_start`, walks the DAG with `DagWalk`, and takes every launched task
through the pause gate, the cancel gate, the skip gate and the attempts of
`Task.Execute`. The in-process worker has no control stream, so its run context is
never canceled; the gates are all that stops a canceled run. Operators cancel the
run or a task with its cascade, pause, drain, skip and undo. The process may die
and walk the DAG again over the rows of its first life.

Any use of the store may fail, and the run goes on, as in the code. A gate whose read
fails is open (`task_skip.go:82`, `:106`, `:133`): `IsTaskCanceledInRun` returns an error
that `taskCanceledInRun` turns into "not canceled", which is a disjunct of `CancelGate`.
An event whose `Apply` fails is dropped without a word (`state/sink.go:13`, `:81`), which
is a disjunct of `Logged`. The history says what that costs: `dropped`, that an event was
lost, which is the only way to a success that was not earned or, short of a death, to a
row that stays open; and `unread`, the tasks whose cancel the gate could not read, the
only withdrawn ones that may start, one failure each.

### ConfigReload

A refresh tick as the sequence of requests it makes: read and parse the file (two
reads) or fetch from the source with the last etag, compare, copy the entry list,
remove entries one by one, add schedules one by one, record the result. `Ticks` is
the number of ticks that may be under way at once: the scheduler starts every job
in a goroutine of its own. `Init` is where `RunFromSource` starts the scheduler, with
the schedules of the first text or, when its second fetch failed, with none (`lost`).

`via` is the way the text is read: `LoadCron`, or `loadInto` from one of the kinds of
source. They differ in what an etag is and in how many requests a fetch makes: a
file has a hash, and a dirty flag that its watcher raises in a goroutine of its own;
an HTTP server answers once, with an etag (`http`), without one (`plain`), and a
Postgres row without a version column is hashed (`hash`); S3 and a version column
are asked for the etag first and for the text in a second request, with an edit in
between perhaps.

### Dispatch

One schedule, from the causes of its runs to a worker. A cron tick is a goroutine
that looks at the drain flag, then at the pause flag, then sends; a trigger handler
does so under `triggerMu`, which the pause and drain handlers take too. The channel
has a bound and a send waits for room; the trigger's gives up after its deadline.
`enqueueAdapter` receives and inserts in two steps. A worker's long poll claims,
finds nothing, waits for a signal or a time-out, and claims again; the signal is
one that a waiter can miss. The workers are those of `selfWorkerPool`, which end with
the process. A claim lapses when its worker is gone or, as a fault (`stalls`), stalls;
`Reap` takes back whatever has lapsed and looks at nothing else, so that it may take a
run from under its worker, as a cancel does; that worker goes on, and its `Ack` matches
no row. Of the walk there is one step, `Launch`, with the drain flag of
`awaitRunPauseClear`; the run's own pause is in `LocalRun`. The shutdown follows `Run`:
the listener is done or its deadline passes, the channel is closed, the store is closed,
and another process starts over the same table. Every gate is open when the store cannot
be read, as in the code.

### RetryChain

A payload is a set of tasks with their depends lists. The verbs build payloads from the
config (`triggerSchedule`, `triggerTask`, `triggerSubgraph`) or from the latest run's
payload and rows (`Retry`, `RetryFailed`, `RetryTask`), by way of the same helpers as
the code: `downstreamTasks`, a breadth-first search that compares the head of its queue
with one task of the config at a time (`SearchStep`, repeated by `Search` until the
queue is empty), and `filterScheduleTasks`. The rows of a run evolve as a walk would
make them, a cancel may close it anywhere, and the config may be edited between runs.
`first` and `through` remember the run that a chain of retry-failed goes back to, and
what has got through since.

### Secrets

`held` and `etag` are the producer's table; `rows` is the node's. A refresh is a
request, the producer's read of its etag, its read of its rows, the answer, the diff
against the node's rows, the writes one by one, and the record of etag and time. A
write may fail and is passed over, as in the code. Clock values are kept as ages,
capped beyond what the staleness gate and the properties tell apart. A process
starts with the key or without it, and seals the plain rows it finds if it has it.
`adrift` holds the names that the code itself loses track of: a write of a refresh
that failed, or a command line write beside it.

### AgentRun

The attempts of `Task.Execute` around `execAgent`: skills, secrets, MCP servers one by one,
each connected and then asked for its tools, then turns. A request is answered with any stop
reason, calls and cost, or breaks off; the budget is checked, tools are called one by one,
their results go into one message. The conversation is kept as the roles of its messages and
the ids of the calls they make or answer, which is what the API insists on. The terminal
event of an attempt puts its cost on the rows. A cancel comes at any time and holds for all
attempts; the wallclock is per attempt.

### EventShip

The events of a script through the shipper's channel and batches, `POST /v1/events`
and the handler, which applies a line and publishes it in two steps. A post may not
arrive, may be refused, or may be given up by the client while its handler goes on
with what it has read, until its body ends. A line whose row has no run fails the
foreign key. The subscriber of the live stream comes, goes, and may not read. Two
returns that count nothing as dropped are left out: a record that does not marshal
(`worker_event_ship.go:169`), whose attributes are plain values, and
a request that cannot be built (`:104`), whose URL the worker has been using since its
start.

## 3. Runs

| run | instance | shows |
|---|---|---|
| `job_queue` | 2 runs, 2 workers, visibility 2, heartbeat 1, 1 fault, fairness | the safety of the queue, that it implements `RunContract`, and `EveryRunSettles` |
| `job_queue_retry` | no faults | **violated** `RetryNeverOverlaps` |
| `dag_walk` | all graphs on 3 tasks and an unknown name, all opt-outs, all outcomes, fairness | order, cascade, verdict, termination |
| `local_run` | 2 tasks, one of them an agent with a retry, all graphs without self-loops, 1 crash or failed use of the store, fairness | what rows say is what happened, a cancel holds, and the run closes |
| `local_run_cancel` | no fault | **violated** `CancelStopsTheRun` |
| `config_reload` | 4 texts (two good, one with a bad cron spec, one broken), every kind of source, 4 edits, 2 failed reads, ticks one at a time | the entries follow the config |
| `config_reload_overlap` | 2 ticks at once, 1 edit | **violated** `NoScheduleTwice` |
| `dispatch` | 1 cron tick and 2 trigger handlers, 1 worker, a channel of 1, 2 runs, 1 restart, store error or stall, fairness | gates, the way to the worker, claims, shutdown and restart |
| `retry_chain` | all acyclic graphs on 3 tasks, any number of retries and edits | retries of retries are complete, closed and in order |
| `secrets` | 2 names, 2 values, 2 edits, 1 fault, TTL and time-out of one tick, any number of crashes, fairness | etags are honest, values recent, rows sealed, rotations arrive |
| `agent_run` | 1 retry, 2 servers, 3 turns, 2 calls a turn, answers of cost 0 to 2, budget 2, fairness | requests, spending, servers, costs, termination |
| `event_ship` | the 4 events of a run of one task, buffer and batch of 2, a live channel of 1, 2 faults, fairness | order of what is applied, no silent loss |

**Bounds.** Two workers and two runs are what every property of the queue
quantifies over: a second worker to take a lapsed claim and a second run to
overtake, be retried or be held next; the theorems lift these bounds, and that on
faults. Three tasks are the least on which a diamond's arm, a chain, a cycle with a
tail and two parallel failures occur, and a retry of a retry can cut twice. One crash
gives the second walk over old rows, one failed use of the store an open gate or a lost
event at any place. Four edits change a text, change it back and
change it again between the steps of a tick, with a broken one among them. In
`dispatch` a channel of one is full with the first run, so that the second sender
waits while the flags change; two handlers contend for the mutex, and the one worker is
where a run is claimed, lost to the reaper, and claimed again (a second worker is in
`job_queue`, and in the theorem on dispatch). Two edits of
two names let an answer be overtaken by a put and by a delete. Three turns hold an
answer with calls, a pause and a last one; two attempts the costs of both. Four
events over batches of two are two posts, the first of which may be orphaned while the
second is handled.

**Symmetry.** Run and worker ids are permuted in `job_queue_retry`, which checks one
invariant. Every other run keeps its values apart: most check liveness beside safety,
where symmetry is not sound.

**Deadlock** is checked for the queue, dispatch and secrets, which never stop. A
walk, a run, an agent, a chain whose last run is closed, a script that was shipped
and a process that ended in `Fatal` really do stop, so the other configurations turn
the check off; `WalkEnds`, `RunCloses`, `AgentEnds`, `NoSilentLoss` and
`LastEditWins` say that they do not stop early.

**Fairness.** Weak fairness of goroutines that are ready to go on: the worker's
loop, the reaper and the tickers, task goroutines and the walker's loop, the
refresh ticks and the watcher, the adapter, the long polls and their timers, the
shipper and the handlers of its posts. In `Dispatch`, claims that nobody extends lapse.
Assumptions beyond the scheduler: task
bodies, tools and requests end (a shell command that hangs holds its run, as in the
code; a request is ended by the wallclock), somebody restarts a dead worker and a
producer that was shut down, and, in `Secrets` only, strong fairness of the
producer's answers: asked over and over, it answers in the end. `RunCloses` holds
for runs that do not stay paused or drained, `AcceptedIsServed` and
`JobsSurviveRestart` for a runner that is not drained. Nothing is assumed of
clients and operators, and no fault is fair: no worker has to stall, and no gate to open
because its read fails.

## 4. What the violations show

1. **A retry can run beside what it retries** (`job_queue_retry`). `Retry` takes a
   terminal status as proof that the run is over. `Cancel` sets one at once, and its
   worker learns of it later or not at all.
2. **A cancel can be overwritten by the start of the run** (`local_run_cancel`).
   Between `Claim` and `schedule_start` there are no rows to mark;
   `applyScheduleStart` then creates them as if nothing had happened and the whole
   DAG runs.
3. **Overlapping refresh ticks register schedules twice** (`config_reload_overlap`).
   A fetch may take 30 s and the entry fires every second.

Met while modelling, in the models, and checked by no run of their own:

* *A cancel of a running task does not stick across attempts.* `applyTaskStart` sets
  `running` unconditionally (`state/store.go:583`), against `listen_control.go:222`
  and the comment on monotonic updates at `state/store.go:436`.
* *An agent whose set-up fails leaves its row running.* The early returns of
  `execAgent` log no terminal event, against `exec.go:263`.
* *`LoadCron` reads the file once to compare and once to parse.* If the text goes
  from A to B and back between those reads and the next tick, the scheduler keeps the
  entries of the other text. `EntriesAreTheConfig` and `LastEditWins` exempt exactly
  these behaviours (`torn`).
* *A file source without a watcher is read once.* `configsource/file.go:28` and `:66`
  say that its dirty flag stays up and that it falls back to polling; `Fetch` takes
  the flag down at line 130 and nothing raises it. `LastEditWins` exempts the case
  (`via = "unwatched"`).
* *A start whose second fetch fails runs nothing.* `RunFromSource` fetches at once "so
  startup fails on a missing or unreachable source" (`cron_source.go:52`), but registers
  the schedules from a second fetch (`:217`). When that one fails, `loadInto` keeps
  "previous schedules", of which there are none, and with the etag and the bytes of the
  first fetch on record every later tick finds nothing new: no schedule fires until
  somebody edits the config. `EntriesAreTheConfig` and `LastEditWins` exempt exactly
  this, until the first load that gets through (`Unloaded`).
* *A run whose last event is dropped stays open.* `state/sink.go:81` has no retry and no
  log line for an `Apply` that fails; see `dropped` above.
* *A paused schedule's queued run is executed.* Comments in `listen.go` rely on the
  walker to look at schedule pause again; it looks at run pause and drain.
* *At shutdown a cron tick that is past its gates sends on the closed channel*, which
  panics; and the adapter is not waited for before the store closes, so a trigger
  answered with 202 may be lost. `QueueOutlivesHandlers` is about HTTP handlers and
  `AcceptedIsServed` about a process that lives, for this reason.
* *A refresh of secrets whose write failed still records its etag and time*, so the
  row stays wrong until the producer changes again (`adrift`). The etag counter
  starts at zero when the producer's database is replaced, so an old etag may come
  again. `--secret-stale-ttl 0` is replaced by the default in `StartDefault`.
* *A broken-off answer is paid for and in no row* (`lost`); a model without a price
  never reaches its budget (`priced`); each attempt truncates the transcript of the
  one before.
* *The shipper drops the newest event when its buffer is full*, where a comment says
  the oldest; a lost `schedule_start` makes every later task event fail the foreign
  key; the ack of a run does not wait for its events.
* *`PushControl` sends on a channel it read under a lock it no longer holds*
  (`state/control.go:549`); a reconnect in between closes the channel, and the send
  panics. Not in the models: a control message may be dropped at any time there.

## 5. Proofs

Each proof module extends the module it is about and assumes only what that module's
named `ASSUME` says of its constants. What a theorem proves for every value of the
constants was model-checked on a small instance before, and so were the parts of the
inductive invariants.

**JobQueueProofs** proves, for all sets of runs and workers, every
`HeartbeatEvery < Visibility` and any number of faults, each safety property of the
`job_queue` run: the invariants, the action properties, and that `JobQueue`
implements `RunContract`. The invariant `Inv` adds to the types

* `Holding`: a worker has a run in hand exactly while it executes one; that run has
  a row, is the one in the workers table, and was executed by the time of its ack;
* `CancelIsReal`: a cancel message on its way, and a canceled context, name a run
  whose row is canceled (so a stale message can stop nothing else);
* `LeaseCovers`: the heart of the argument. For a worker whose heartbeats arrive,
  either the row is canceled or the worker owns it and the ticks left on the claim
  exceed the ticks left until its next heartbeat by at least
  `Visibility - HeartbeatEvery`. `Tick` decreases both, and cannot happen with the
  heartbeat due; so the claim never reaches zero and the reaper never takes it;
* `Attempts`: every claim of a row but the one that counts now was caused by a
  fault, and so was that one unless its holder is healthy (`HeldInHealth`);
* `Seconds`: `latest` is the latest second on record, which makes `NoOvertaking`
  inductive.

There is one lemma per conjunct, each with one step per action.

**DagWalkProofs** proves order, cascade, verdict and that nothing is left behind for
every finite set of tasks and every graph on it, cycles and unknown names included.
The heart is `CountersOK`: an in-degree is the number of dependencies whose completion
the loop has not received, plus one for the task it is about to visit; a task waits
exactly while its counter is positive. With `ChannelOK` (a settled task is in the
channel once or was received) and `RunningOK` (the loop's counter is the cardinality of
what it has yet to hear from) an empty counter at the end means that every task that was
launched is settled, and what still waits has a dependency that waits or does not
exist (`EndsEmpty`, `NothingIsLeft`). The cardinality lemmas rest on
`FiniteSetTheorems`.

Of `WalkEnds` everything but the fairness is proved. `EveryStepIsProgress`: a step of
the walk takes something off the returns, sends, receives, counts and loop steps that are
left, and adds nothing to them, on any graph. `LoopIsNeverStuck`: until the end the loop
has something to visit, or somebody will send to it. `RoomInTheChannel`: whoever has yet
to send finds room, since the channel holds each task once at most (`ChannelCount`); so
the loop may send to itself.

**LocalRunProofs** proves `SucceededMeansDone` and `WithdrawnNeverStarts` for every finite
graph, any retry counts and any number of crashes and failed uses of the store, and that the
order and the cascade of the walk hold in the whole run (`RunKeepsTheOrder`). It takes what
the walk does from `DagWalkProofs`, instantiated with the run's own variables: `WalkOK` says
that the walk's invariant holds, also after a crash, which starts the walk again over the
rows of the first. `RowsOK` links the walk to the rows: a task that returned without an
error has a row that got through, and the gates that return early leave such a row.
`WithdrawnOK` keeps a withdrawn task in front of the gate that reads its row; it needs
`BodiesOK`, for the tries of a task that was not launched yet, and `NotYetOK`, for the time
before `schedule_start`; and `UnreadOK` counts a failed read for each task that got through
a gate that could not read its row. `SucceededMeansDone` then follows from the walk's
verdict: `ok` means that no task failed or was skipped by the cascade and all were settled.

**DispatchProofs** proves `EachRunInOnePlace`, `QueueOutlivesHandlers` and the action
property `TriggersRespectTheGates` for any ticks, handlers and workers, any size of the
channel, and any number of runs, restarts, failed store calls and stalls. `Fresh` and
`Apart` place the runs: one that was not minted is nowhere, and those in the channel differ
from each other, from the one in hand and from those in the table, so that a receive or an
insert moves a run and never copies it. `Claims` is why the reaper, who looks only at the
expiry, takes nothing that is worked on until a worker stalls: a claim lapses when its
worker no longer has the run, and a worker has a run only by a claim of its own, which a
cancel may have closed. It also gives `OneWorkerPerRun`, which takes two workers and is
proved beside `EachRunInOnePlace`. After a stall neither holds, and `JobQueue` has the
promise that is left (`ReexecutionNeedsFault`, `OnlyHolderCompletes`). `Locked` is the
trigger mutex: who sends holds it, and while somebody holds it the gates he found open stay
open, since the verbs that close them need the same mutex. `Closing` has the order of a
shutdown: from the end of the listener on, whoever is still under way outlived its deadline.

A second invariant, `Way`, follows a run from its send to the table. `RunsAreNotLost`: while
the process lives and the store works, every run that was sent is in the channel, in hand or
in the table. `RunsStayInOrder`: what ticks and triggers sent gets into the table in the
order of the sends (a retry inserts its row itself). `DoneStaysDone`: a row is never
deleted, and a run that is done or canceled never handed out again. These are the safety
halves of `AcceptedIsServed` and `JobsSurviveRestart`.

**ConfigProofs** extends `ConfigReload` and `RetryChain`, whose names differ for that
purpose, and is about what becomes of a configuration, in three parts.

*The reload*, for any texts, schedules, edits, failed reads and every kind of source.
With any number of ticks at once, the refresh entry is never removed
(`LoaderIsNeverRemoved`) and no edit of a watched file is missed (`EditsLeaveATrace`).
The rest needs `NoOverlap`, that one load ends before the next begins;
`config_reload_overlap` shows that it does. `NoOverlap` is a hypothesis on the
behaviour, since nothing in the code ensures it; it is what a refresh interval longer
than a load gives, and with one tick it is no hypothesis at all
(`OneTickKeepsTheConfig`). `LoadCronOK` and `LoadIntoOK` say what a tick has read and
recorded at each of its places, `HashOK` and `VersionOK` what an etag on record says of
the text on record (a version was asked for before the text came, so it may be older
than that text, and is never newer), `ReplaceOK` what is registered in the middle of a
replacement: what was to be removed and is not yet, and what was to be added and is.
From them `EntriesAreTheConfig` follows (after a start whose load was lost, from the first
load on), and `NothingNewIsCurrent`: a tick that would
find nothing new finds the present text in force, which is `LastEditWins` but for the
fairness.

*The payloads*, for any tasks, edits and generations: they are closed under dependencies,
and retry-failed keeps the order and leaves nothing out. `CutIsThrough` carries it:
whatever was cut off the first run's payload, tasks and dependencies alike, has got
through in one of the runs since. None of this depends on what the cascade search returns.

*The search*, which is what RetryTask and the subgraph trigger keep (`CascadeIsRight`):
for every finite set of tasks and every graph, cycles included, it puts out exactly the
tasks that depend on its root, directly or through others. `Search` is a recursive
function over all states of the search, so that first of all its equation has to have a
solution: `Outcomes`, the least relation closed under the turns of the loop, is inverted
(`OutcomesInverted`) and gives one (`SearchEquation`). `Between` is the loop invariant:
what was seen is the root and the output, that is downstream, and what has left the queue
has no child that was not seen. There is no induction principle that the provers can
instantiate, so the proof is by least counterexample (`LeastNumber`, from the
well-foundedness of `<`): each turn makes the tasks left to dequeue fewer, or leaves them
as many and makes those left to compare fewer (`TurnsShrink`); a state nearest to the end
from which the search went wrong would have a successor of that kind, nearer still.

**AgentRunProofs** proves the bounds on spending, that the costs add up, that no
server is left and that requests are acceptable, for any number of retries, servers,
turns and calls. `MoneyInv` has the allowance of the attempts before, what is left of
the budget while the loop goes on, and that no request is made with a dead context;
`TalkInv` describes the conversation at each place of the loop. Of `AgentEnds`
everything but the fairness is proved: each step of the task is an advance in attempts,
stages, servers, turns or tool calls, in that order (`NothingGoesRound`), all of which are
bounded (`TheWorkIsBounded`), and wherever a step needs a next server, turn or call there
is one or the way out is open (`TaskIsNeverStuck`). The invariant is `InTurn`: servers are
launched and calls dispatched in their order, and a request is made with turns left.

**SecretsProofs** proves `EtagMeansSame`, `SealedAtRest` and `DispensedIsRecent` for any
names, values, edits, limits and failed writes. `AnswerOK` says that an answer whose
etag is still the producer's holds the producer's rows, because the etag was read first;
`WritingOK` that a half-applied refresh differs from its answer only in the names it
still has to write. The bound on the age has an invariant of its own, `AgeInv`, beside
that one: what an answer says was so after its request was sent (`AnswerAge`); while it
is written it ages no faster than the time since it came, which is less than the time
since the refresh before it, so that old and new rows stand side by side within the
bound (`WriteAge`); and a row is as old as the last refresh and its fetch (`RowAge`).
`Get` compares the age of the refresh with the limit, and the theorem follows.

**EventShipProofs** proves `AppliedInOrder` for every script, every size of the channel
and of a batch, and any number of lost posts, abandoned handlers and dead workers.
`PipeOK` and `PostsOK` say that the channel, the batch, the posts and the projection
hold events in the order they were emitted, each below the next. That does not order
what the handlers of several posts apply. `ClientsOK` does: a client waits for one
answer at a time, so a waiting client's handler has the last post and nothing younger
than its lines is applied; the lines of a client that has gone are in `late`; an
answered post has none left. `FreshOK`, that a line ahead of its handler is not applied,
gives the "once at most". `EventsAreAccountedFor` is the safety half of `NoSilentLoss`:
while the worker lives an emitted event is in the channel, the batch or a post, or
applied, or counted as dropped. A handler may skip a line it has applied (`PublishedOK`)
or one that its client has counted when it gave up, and no other without counting it.

Left to TLC: all liveness (`EveryRunSettles`, `WalkEnds`, `RunCloses`, `LastEditWins`,
`AcceptedIsServed`, `JobsSurviveRestart`, `RotationArrives`, `AgentEnds`,
`NoSilentLoss`), as the prover has neither fairness nor `ENABLED`. Where a part of one of
them can be said without fairness, it is proved, as told above. Every invariant and every
action property of the passing runs is a theorem.

## 6. Not modelled, and the plan

Not modelled because they are text, I/O or child processes: config parsing, logging,
git, the tools of an agent, `pkg/exec`, the command line but for `secret set` and `rm`.
Schema migration is a start-up sequence of DDL statements; the one step that a crash can
leave half done (v10, two `ALTER`s on SQLite) needs the database's semantics. Left out
of modelled parts: duration and exit code columns, the `events` ledger, the Postgres
dialect of the same statements, the env and file sources of secrets and the expansion of
references in strings, filters, encoders and cursor ids of the live stream, the
registry of control streams and its reconnect watchdog.

What is worth doing next:

1. `ControlStream`: Subscribe, PushControl and the reconnect watchdog;
2. `LocalRun`'s walk on a remote worker with `EventShip` between it and the rows.

# TLA+ models of the NEXUS trading bot

This directory holds TLA+ specifications of the concurrent core of the trading
bot, the TLC configurations that check them on small instances, and TLAPS proofs
of the properties that matter most. `PROJECT.json` maps every definition to the
lines it was translated from and lists the runs, the mutants each property is
tested against, the hazards and the theorems.

Run a model with `tlc -config <name>.cfg <module>`, check a proof module with
`tlapm <module>.tla`. Paths below are relative to `src/automation-hub/` unless
they say otherwise.

Contents: 1 the system, 2 the plan, 3 the modules, 4 the runs, 5 fairness,
6 the proofs, 7 what the models leave out, 8 disagreements with the code's own
words and what else was seen.

## 1 The system

One application process (`app.py`) serves HTTP requests, owns a
`TradingInstanceManager` and one engine thread per running Trading Instance, and
runs background threads: the instance supervisor, the market-data hub, and (on
SQLite) a research worker. Several processes may share one database. Research
and shadow-observation workers can be processes of their own, on PostgreSQL.

| Component | State it keeps | Operations | Interacts with |
| --- | --- | --- | --- |
| Worker leases (`services/trading_instances.py`) | `instance_worker_leases` rows: worker_id, heartbeat, expiry | claim, renew, release | start, stop, halt, shutdown of the manager; every sweep of the supervisor |
| Trading Instance lifecycle (`services/trading_instances.py`) | durable rows (state, `desired_running`), cached objects, `_runtime`, `_full_reboots`, simulation session | create, configure, start, stop, halt, pause, resume, edit, account restart, Full Bot Reboot, restore, shutdown, delete | engines (calls and the lifecycle callback), leases, hub, ledger |
| Manager locks (`services/trading_instances.py`) | the state lock, a lifecycle mutex per instance | every operation above | engine threads take the state lock from their callback and are joined by stop() |
| Instance supervisor (`services/instance_supervisor.py`) | backoff table, its thread | sweep: renew, halt on a lost lease, repair | manager |
| Autonomous engine, its thread (`services/auto_engine.py`) | thread, stop event, status, entry gate (`EngineControls`) | start, stop, pause acknowledgement | manager callback |
| Autonomous engine, candle processing (`services/auto_engine.py`) | the durable cursor, the candle it works on | fetch, exit, signal, checkpoint, replay | public stream (fetch and notices), signal pipeline |
| Research jobs (`services/research_jobs.py`, `services/postgres_workers.py`, `data/journal_context_store.py`) | `research_jobs`, attempts, events, validation runs | create, cancel, claim, heartbeat, transition, commit, recover; the worker's attempt | worker processes, HTTP routes |
| Signal pipeline (`services/signal_pipeline.py`, `services/dedup.py`) | webhook claims, the alert in progress | process, claim, promote, release, reject | ledger, paper engine |
| Paper execution engine (`execution/paper_engine.py`) | parked forward intents, their checkpoint in the store | park, process quote, checkpoint, reload | pipeline thread, quote thread, ledger |
| Paper ledger (`data/ledger.py`) | webhook rows, execution keys, positions with trades | open and close in one transaction, insert, promote, release | pipeline, paper engine |
| Shadow observation (`services/shadow_observation_store.py`, `services/shadow_observation_worker.py`) | registrations with generation, lease and decisions | transition, claim, heartbeat, commit, release | worker processes |
| Price Action paper account (`services/price_action_lab.py`, `services/price_action_runtime.py`) | metadata of the lab's own orders, candidates, the lab's lock | quote, candle, reconcile, propose, approve | paper broker v2, HTTP routes |
| Paper broker v2 (`execution/paper_broker_v2.py`) | orders, positions, fills, funding | submit, cancel, tick, candle, close | labs, manual routes |
| Public stream (`services/price_action_stream.py`) | bars, transport state, `reconciliation_complete` | connect, ingest, reconcile by REST, drop | venue, hub |
| Forward paper hub (`services/forward_paper_hub.py`) | consumers, pending bars, channels, retry timer | attach, detach, upgrade, deliver, retry | streams, engines, labs |
| Event bus (`src/tradexa/infrastructure/events/bus.py`) | subscriptions, history | publish, subscribe, replay | in-process consumers |
| Risk engine and portfolio (`src/tradexa/risk`, `src/bot`) | limits, exposure | evaluate | order paths |
| Evidence, reconciliation, reset, routes, labs, dashboards | reports and views | read, export, reset | everything above |

What is hard in it, and what makes each part correct:

* **Worker leases.** Processes claim, crash, shut down and come back while rows
  expire. Correct: one execution owner per instance; a live worker holds an
  unexpired lease; a row changes hands only after it expired or was deleted; a
  desired instance is executed again sooner or later.
* **Lifecycle.** Up to six kinds of request, a sweep working on a snapshot, a
  reboot thread and worker threads with late callbacks meet on one instance, and
  a lock is given up in the middle of several operations. Correct: one worker per
  paper account, never more than `max_slots`, what Stop and Pause answer is true,
  calls return, reboots end.
* **Locks.** Two kinds of lock, joins of threads that themselves need a lock.
  Correct: no group of threads waits for one another.
* **Supervisor.** Acts on stale candidates. Correct: it repairs what is desired
  and nothing else.
* **Engine.** Its thread outlives a join that times out and reports events after
  the operation they belong to. Correct: those of the lifecycle.
* **Research jobs.** A worker's attempt is up to six transactions, between any two
  of which its lease can expire, its job be cancelled or taken over, or its
  process die; acknowledgements get lost. Correct: bounded attempts, one at a
  time, at most one result, never after an accepted cancellation; jobs end.
* **Candles, pipeline, paper engine, ledger.** A candle is replayed after a crash or a
  failed write; claim, parking, checkpoint, promotion, fill and cursor are separate
  commits; the quote thread fills beside them; the checkpoint is saved outside the
  lock. Correct: an alert executes at most once and one position is open; the cursor
  passes no entry signal that left neither a row nor a gate's log line; a claim belongs to a call in progress or one
  a fault cut short; what is parked is settled.
* **Public stream and hub.** A dropped socket loses candles, REST may fail or be late,
  sinks raise, deliveries race, notices coalesce. Correct: a feed that calls itself
  reliable is complete; the lab gets what the stream offers, once and in that order;
  the engine misses no candle between two notices.
* **Shadow observation.** A worker reads, evaluates and commits in separate
  transactions; its lease, a pause or a successor comes in between. Correct: only closes
  observed without interruption are decided, in order and once; a hole in the evidence
  is on record; a desired registration finds a live worker.
* **Price Action account.** Orders and their metadata are two records under two locks;
  candles, quotes, approvals, manual orders and crashes interleave. Correct: a proposal is one order;
  the strategy's exposure does not stack; metadata does not stay open for good.
* **Event bus.** Correct: subscribers see events in order, replay included.
* **Risk, evidence, routes, labs, dashboards.** Sequential or read-only.

## 2 The plan

Ordered by what the rest of the system depends on, and complete:

1. `WorkerLease`: ownership across processes.
2. `InstanceLifecycle`: the lifecycle inside one process.
3. `ManagerLocks`: the locks under the lifecycle. The two abstract from each other:
   `InstanceLifecycle` makes a section under the state lock one step, which is what
   `ManagerLocks` shows to terminate.
4. `JobLifecycle` (abstract) and `ResearchQueue`: the queue implements the life of a job.
5. `AccountBook` (abstract) and the stack `PaperLedger`, `ForwardExecution`,
   `SignalPipeline`, `CandleLoop`: one instance from a closed candle to its fill, each
   module the state and operations of one source file, composed by EXTENDS; the
   composition implements `AccountBook`.
6. The stack `PublicStream`, `MarketHub`, `LiveFeed`: market data from the venue to the
   engine and the lab. `CandleLoop` takes its candles for granted where `LiveFeed` shows
   that they arrive.
7. `ObservationLog` (abstract) and `ShadowObservation`.
8. `PriceActionAccount`: broker and lab.
9. A proof module for each component module that is composed of the others.

There is one run for each distinct question and no more. What remains unmodelled
is listed with its reason in section 7: it is either sequential numeric code, for
which a state machine says nothing a unit test does not, or routes and reports
without state of their own.

## 3 The modules

### WorkerLease

State: `proc` (process runs: new, up, gone), `desired` (durable `desired_running`),
and per process run its cache `wants`, the rows `restored` at startup, the rows
marked `blocked`, the keys of `_runtime`, the `live` engines, `lingering` threads
that outlived a join, and `sinceSweep`; globally `lease`. A `worker_id` is
hostname:pid:uuid, so a process run never comes back under its name.

Time is kept as ages: `lease[i].age` is the time since the heartbeat, stopping at
"expired"; `Tick` advances all ages and is not enabled while the supervisor would
owe a live worker a visit, so a visit happens at least every `SweepPeriod`. A
renewal that raises (`RenewRaises`) counts as held in the code
(`_renew_lease`, trading_instances.py:2154); `Outage` bounds how old a heartbeat can
get that way.

Actions: `Boot`, `Crash`, `Shutdown`; `Restore` (restore_desired_instances, one
row), `Repair` (sweep on a dead worker), `OperatorStart`, `OperatorResume`,
`OperatorStop`, `PauseFails`, `Renew`, `RenewRaises`, `LeaseLost` (halt_runtime),
`EngineDies`, `ThreadExits`, `Tick`. `Launch`, `LaunchFails`, `Join`, `Refused` are
the outcomes of `start()`; `Claimable`, `Claimed`, `Renewed`, `Released` the SQL.
One call is one step here; the interleavings inside calls are
`InstanceLifecycle`'s.

### InstanceLifecycle

State: `row` (durable state and desired_running), `obj` and `cur` (objects: a Full
Bot Reboot reloads the row into a new object while other calls still hold the old
one), `runtime`, `eng` (engines: thread, running flag, stop event, gate, callback,
status, an event about to be reported), `mutex`, `call` (what each request thread and
the supervisor are in the middle of), the running sweep (`todo`, `running`),
`reboot`, `rebooting`, `session`, a ghost `disarmed` for what the operator was told.

A section under the state lock is one step. `stop()` is `Enter`, `StopSignal`,
`StopJoin`, `StopReturns`; `pause()` `Enter`, `PauseGate`, `PauseReturns`; `resume()`
`Enter`, `ResumeReturns`; an edit `UpdateConfiguration`; an account restart
`ResetBegins`, `ResetEnters`, the steps of stop, `ResetSwaps`; a Full Bot Reboot
`RebootRequest` and the phases `RebootStop` to `RebootFinishes`, or `RebootFails`; the
sweep `SweepBegins`, `SweepVisits`, `SweepRepairs`, `HaltEnters`, the steps of stop,
`HaltReturns`; the worker `EngineTransition`, `EngineReports`, `EngineExits`. States
are merged where no guard tells them apart: "starting" stands for every active phase
but "running", "error" for "degraded" too, "stopped" for "created" too.

### ManagerLocks

An operation is the script of what it does to locks and threads: take, give, join,
report (run the callback in the caller), attach and detach a callback. The scripts
are the longest branch of each operation; an operation refused earlier releases what
it took and takes nothing else. State: `script` (what each thread has left), `lock`
(owner and depth, both kinds are re-entrant), `attached`.

### JobLifecycle and ResearchQueue

`JobLifecycle` says of every job, in seven actions, what the queue promises.
`ResearchQueue` is the PostgreSQL store and its workers. State: `job` (status,
attempt_number, whether the lease is unexpired, `overrun`), `result` (the attempt whose result
is in the row), `at` (what each worker is about to do, for which claim).

Each transaction is one step, except a heartbeat: it checks the lease (`Checkpoint`) and
renews it (`Renews`) in two statements that hold the row (`RowLocked`, which keeps
recovery and cancellation away) but not the quota lock, so that the lease may run out
and another job be claimed in between. The history `overrun` marks a lease that ran
out there. `Create`, `RequestCancellation`, `LeaseExpires` are the
user's and the clock's. A worker's are `Recover` and `Claim` between jobs, then
`Start`, `Checkpoint`, `Renews`, `ReadsCancellation`, `Commit`, and on an exception `HandlesInterruption`,
`HandlesCancellation` or `HandlesError` (a read), followed by `Confirms`, `Releases` and
`Requeues`, or `Fails` (a write in another transaction, which the store may refuse).
`Raises` is an exception before or after the effect of the call it comes from, `Lost` a
dead process or a handler whose own store call fails. The fencing token, a uuid per
claim, is the attempt number, which each claim increments; the worker_id the store
also compares is then redundant and left out. A claim takes the oldest claimable row
that is not locked by another transaction, hence any.

The mapping: QUEUED and RETRY_PENDING are waiting, CLAIMED, RUNNING and INTERRUPTED
working, CANCEL_REQUESTED cancelling.

### AccountBook, PaperLedger, ForwardExecution, SignalPipeline, CandleLoop

`AccountBook` promises that an order key is executed once and that one position is
open. The other four are one instance in forward paper mode; every commit of the
ledger or of the store is one step, and the quote thread or a crash may come in
between any two.

* `PaperLedger`: `events` (webhook_events), `executions` (the primary key of
  paper_executions), `book` (open positions with their trades). An alert is a candle with
  what is done about it, as `_auto_execution_id` makes it, hence the same on a replay.
* `ForwardExecution`: `intent` (`_intents` in memory), `saved` (the store's pending orders),
  `quote` and `copied` (where process_quote() is). Actions: `Park`, `QuoteRecovers`,
  `QuoteFills`, `QuoteRecords`, `QuoteCopies`, `QuoteSaves`, `QuoteSaveFails`, `Reload`.
* `SignalPipeline`: `pc` and `call` (where process() is, for which alert), `snap`,
  `paused`, `faults`, `unsaved`. `Process` is the gates, then `Claim`, `Open`, `Snapshot`,
  `Save` or `SaveRaises`, `Promoted`, or `Refused` and `Reject`; exits are `Close` and
  `Closed`. Which gate refuses depends on prices and account history and is a choice.
* `CandleLoop`: `signal` (what the strategy says on each candle, fixed at the start so
  that a replay repeats it), `closed`, `cursor` (durable), `held`, `gated` (the log lines of
  the decision gate and the context gate). `TakeCandle`, `CheckExit`, `OnSignal`,
  `GateRejects`, `Checkpoint` are `_ingest()`; `CheckpointFails` (the cursor or a gate's log
  line cannot be written), `Crash` and `Restart` the faults and what the supervisor does
  about them. An entry from flat may end at a gate (`GateRejects`) or go on (`OnSignal`);
  scores and context are a free choice, on a replay too.

The mapping to `AccountBook`: keys are alerts, `used` the execution keys, `open` the
alerts of the open positions.

### PublicStream, MarketHub, LiveFeed

`PublicStream` is the market reader of one symbol and timeframe: `venue` (the newest
candle closed), `unread` (in the socket), `bars`, `state`, `complete`
(`reconciliation_complete`), `reader`, the REST answer `rows`, and `fresh`, the candle the
sink is being called with. A drop loses `unread`; after a connection and after a gap
the reader reconciles. `MarketHub` is the delivery to one consumer: `pending`,
`calls` of `_deliver_pending()`, the `holder` of the delivery lock with the candle in
`hand`, the retry `timer`, what the sink has `got`, and the history `offered`. `LiveFeed`
adds the live engine's loop (`engine`, `cursor`, and the event `ready`) and composes the
three: `Delivers` is the stream's sink, which sets the event and queues the candle.

### ObservationLog and ShadowObservation

`ObservationLog` says which candle closes may be decided: those that came due while
observing, uninterrupted since, in order. `ShadowObservation` is one registration
(`status`, `desired`, `start`, `resume`, `last`, `token`, `expiry`, `generation`), its evidence (`log`
and the closes `noted` as gaps), and for each worker where its tick is and what it
has read. Each store call is one step: `Sweeps` reads the row, `Heartbeats`, `Claims`,
`LosesLease`, `Evaluates` (the gap event and the second read), `Commits` behind `Fence`, and
their refusals; `Start`, `Resume`, `Pause`, `Stop`, `Block`, `Validate` are the operator's
transitions, `Stops`, `Crashes`, `CommitFails` a worker's failures. A token, a uuid in
the code, is the generation its claim made.

### PriceActionAccount

The broker's `by`, `status`, `position` and the lab's `meta`, `awaiting`, `offered` are two
records, written over two connections. `lock` is the lab's lock; `pc`, `flat`, `todo`,
`item` are the locals of the runtime thread and of one HTTP request, `filled` and
`exited` the fills a quote has still to report. A broker call is one transaction
(`Trades`, `Cancelled`); reconcile_pending_orders() is `ReadsPositions`, `TakesLock`,
`Judges` and `Kills` per order, `Repairs`, `CancelsListed` or `CancelRaises`; placing is
`Places` (the check under the lock), `Submits`, `Inserts`. Manual routes are `ManualChecks`,
`ManualSubmits`, `ManualCancels`, `ProcessesCandle`. Prices, sizes and geometry are left
to choice.

## 4 The runs

| Run | Bounds | What it shows |
| --- | --- | --- |
| `lease` | 3 process runs of which 2 may end, 1 instance, 2 failing starts; TTL 3, period 2, outage 1 | no two execution owners, live workers hold their lease, takeover only after expiry |
| `lease_live` | 2 process runs of which 1 may end, 1 failing start, joins and pauses that time out | a supervised, desired, unblocked instance keeps being executed |
| `lease_successor` | 2 process runs | (disagreement) a successor that found the lease held never tries again |
| `lifecycle` | 1 instance, 2 request threads, all requests but the account restart, 1 reboot, 2 engine objects | one worker per account; Stop and Pause answer the truth |
| `slots` | 2 instances, 1 slot, start, stop, resume, joins that time out, a restart | the slot limit; one worker per account with threads that linger |
| `lifecycle_live` | 1 instance, 1 request thread: start, account restart, reboot | calls return, reboots end |
| `locks` | 2 instances, 3 threads, five kinds of request | no cyclic wait, no join of a worker one keeps waiting |
| `research` | 2 jobs, 2 workers, 2 attempts, 1 active lease | the refinement, fencing, the quota (but for leases overrun inside a heartbeat), cancellations confirmed, jobs end |
| `forward` | 2 candles with any signals, 2 faults (crashes, failed writes) | an alert executes once and one position is open; the cursor passes no signal that neither a row nor a gate's log line records; claims and parked intents are accounted for and settled |
| `market` | 3 candles, 2 faults (drops, failed or late REST, raising sinks) | a reliable feed is complete; the fan-out keeps order; lab and engine catch up |
| `shadow` | 2 workers, period 2, lease 2, one disturbance | only observed closes are decided; no silent hole; a desired registration is adopted |
| `account` | 2 proposals, 2 orders, 1 crash | a proposal is one order; strategy exposure does not stack; metadata settles |

Why the bounds suffice. A lease needs an owner, a contender and a late third; TTL
need only be larger than period plus outage, and both at least one, for every order
of expiry, renewal and visit to occur. A lifecycle hazard is two calls, or a call and
the sweep or a reboot, on one instance: a third call would have to wait for the same
mutex. Slots need two instances and one slot. A lock cycle through an instance mutex
and the state lock needs two threads; three allow a bystander and a cycle over two
mutexes. In the queue, two attempts give a superseded worker and an exhausted job,
two jobs and one lease the quota, and a second worker the takeover. Two candles
give a parked intent and a second alert that meets it, a replay with a fill in between,
and an exit before an entry; two faults a crash during the recovery from another.
Three candles of a feed give a gap with candles on both sides; two faults a drop
during a repair. Two workers and one disturbance give a takeover under a commit; a
close comes every two ticks, so a lease of two expires between any two of them. Two
proposals and two orders give a second order beside a working one, a partial one and a
position. What these bounds leave out the proofs of section 6 cover: every safety
property that a run checks but `OneExecutionOwner` is proved for all values of the
constants, some of them under an assumption named there.

Runs that reach their end by the bounds (crashes, restarts, attempts, candles, time)
turn deadlock checking off; `locks`, `forward` and `account` keep it on. (In `locks` it is the
question; in the other two a pause or a quote remains possible at any time.)

Each property of a passing run has a mutant: an operator that changes one definition
the way a plausible bug would, under which TLC finds the property violated
(`PROJECT.json`, "mutants"). For `ResearchQueue` most mutants are what the SQLite store
does.

## 5 Fairness

* `WorkerLease!FairSpec`: the clock ticks, a started process restores every row, the
  supervisor visits live workers (`WF`), stopped threads end, and a repair that is
  possible again and again is taken (`SF`): after a refusal the sweep retries, at the
  latest after `MAX_BACKOFF_S`. Nothing is assumed of operators, crashes or boots.
* `InstanceLifecycle!FairSpec`: a thread that has begun a call goes on (`WF`); one that
  waits for a mutex that is free again and again gets it (`SF`, Python's locks are not
  FIFO but do not starve a lone waiter for ever); a health check in a reboot ends by
  its timeout. Nothing is assumed of operators, sweeps or market data.
* `ResearchQueue!FairSpec`: a worker goes on, and polls once per `poll_seconds`,
  recovering and claiming what there is (`WF`); its checkpoints come to an end, by the end
  of the simulation or by the job's max_runtime_seconds (research_jobs.py:326), though its
  lease may be lost and the job cancelled in between (`SF`); a lease that its claim's worker
  no longer attends expires (`WF`). Leases under a working worker may or may not expire, errors and
  losses may happen at any step; each attempt is counted, so jobs still end.
* `CandleLoop!Spec`: the engine thread goes on, a worker in error is restarted (the
  supervisor's sweep), candles close and quotes arrive (`WF`). Nothing is assumed of
  pausing, crashes or failures.
* `LiveFeed!Spec`: stream, sink, delivery threads, timer and engine go on (`WF`); the
  venue closes its candles and REST answers. The engine's poll (`live_poll_s`) is not
  relied on: the notices alone suffice.
* `ShadowObservation!Spec`: the clock and each worker's loop go on (`WF`).
* `PriceActionAccount!Spec`: candles close and a request goes on (`WF`); the runtime
  gets the lab's lock although approvals may take it again and again (`SF`: they do so
  a person at a time, not without end).

## 6 The proofs

`WorkerLeaseProofs`, for any number of process runs, instances, and any TTL:

* `TypeCorrect`: `Spec => []TypeOK`.
* `Takeover`: `Spec => TakeoverAfterExpiry`, with no assumption on timing, joins or
  pauses: the conditional write alone guarantees it.
* `LiveWorkersHoldTheirLease`: `Spec => []LiveWorkerHoldsLease` under the named
  assumption `TimelyRenewal`: pauses are acknowledged, and `SweepPeriod` plus `Outage`
  stays within `TTL`. Joins may time out.
* `RegisteredOwnership`: `Spec => []OneRegisteredOwner` under the same assumption: no
  two processes have a worker of one instance registered and running.
* `Strays`: `Spec => StraysFollowStops`, again under this assumption alone: only an
  operator's Stop or a shutdown leaves a thread behind that outlives its worker.

That a live worker's row is its own and not expired has to survive time passing, so
the inductive invariant (`Ownership`) says in addition how old the row can be: at most
`Outage` plus the time since the last visit, which `Tick` keeps below `SweepPeriod`;
that only instances in `wants` are live (an instance nobody visits would go stale); and
that a process that is not up has no live worker. A worker is never given up for a
lost lease then, the third way a thread could be left behind. `OneExecutionOwner` itself
is not proved, since the code does not keep it: when a join times out
(auto_engine.py:311-314) `stop()` hands the lease over while the old thread can still
trade. Its run (`JoinTimesOut = FALSE`) shows that leases alone never admit two owners;
`RegisteredOwnership` and `Strays` say, with joins that time out, that a second owner is
always a thread that was told to stop. The assumption on pauses is needed too: after an
unacknowledged one (trading_instances.py:2742) a live worker remains that no sweep
renews. TLC shows either in a few steps when `JoinTimesOut` or `PauseTimesOut` is TRUE.

`ResearchQueueProofs`, for any finite set of jobs, any workers and any positive
`MaxAttempts` and `MaxActive`:

* `QueueTypeCorrect`: `Spec => []TypeOK`, which bounds the attempt numbers.
* `Quota`: `Spec => []ActiveLimit`.
* `Fencing`: `Spec => StaleWorkersAreFenced`.
* `QueueImplementsLifecycle`: `Spec => ImplementsLifecycle`, that is `Lifecycle!Spec`.
* `WaitingIsClaimableTheorem` and `ResultsAreOfCompletionTheorem`: a waiting job has an
  attempt left for a worker to claim (`JobsSettle` would fail without it), and exactly the
  completed jobs have a result, that of the completing attempt. Both follow from the
  refinement: `JobLifecycle` keeps phase, attempt and result of a job together (`Life`).

The argument sorts the steps first (`StepKinds`): a step of the store or of a user
(`StoreMoves`), a busy worker that moves its own job under the latest claim of it or no
job (`WorkerMoves`), a commit, a renewal, or the beginning of an attempt; each theorem is then
proved over the kinds. The inductive invariant `IInv` adds `Claims` to the types,
which is needed for the one transaction that passes no token, the requeueing of a
released attempt (research_jobs.py:344-347): no two workers hold the same attempt,
no worker holds one that was not begun, and while a worker is about to requeue, its
job is INTERRUPTED and still at its attempt. Without it a worker could requeue, and so
change, a job that another has taken over. The quota needs
that a job whose heartbeat is about to renew still has the lease that was checked, or is
overrun (`Checked`, which the row lock keeps): a renewal then adds no job that counts
(`Counted`), and only a claim does, which finds room. The
refinement needs the table of transitions read as a relation (`Transitions`) and
the phase of each status (`Phases`).

`InstanceLifecycleProofs`, for any instances, accounts, request threads, slots and
numbers of objects, engines and reboots:

* `TypeCorrect`: `Spec => []TypeOK`. The type invariant comes in parts (rows, engines,
  calls, the rest), each kept by a lemma per group of actions.
* `SlotLimitTheorem`: `Spec => []SlotLimit`, for finitely many instances
  (`FiniteInstances`). A step either makes no instance gain a running worker (`Fewer`)
  or fills one free slot (`Fills`): start() counts in the section that registers.
* `OneWorkerUntilSwapTheorem` and `AnswersUntilSwapTheorem`, with every request
  included: as long as an account was never swapped (`session[i] = 0`), each of its workers
  that takes candles is the one the registry holds, and what Stop and Pause answer is
  true, whatever is swapped elsewhere, or requested and not yet swapped.
* `OneWorkerTheorem` and `AnswersTheorem`: `Spec => []OneWorkerPerAccount` and
  `Spec => AnswersAreTrue`, the properties of the runs, which speak of all accounts, under
  `NoAccountRestart`.
* `MutexTheorem`: `Spec => []MutexHeldByCalls`, with every request included.

The workers and answers rest on the inductive invariant `Owner`. That one worker runs per
account is not inductive: a start that is let through after a stop has to find the old
worker really gone. `Owner` adds that a worker that takes candles counts as running
(`Live`), that the holder of an instance's mutex works on the engine the registry holds
(`Registered`: only a reboot or a swap drops an entry meanwhile, and nothing replaces it),
that engines belong to their instance (`Belongs`), that past its stop signal an engine
takes no candle (`Quiet`), and that a pause meets no verifying reboot and finds the gate
still shut when it answers (`Gated`). Each action is first shown to be one of four kinds
of `Change` (to an engine, to the registry, to a reboot, to a call), and each kind to keep
`Owner`. A swap is the one change to the registry that may drop a worker that takes
candles, and it increments `session`: that is the only reason for the condition, and it is
needed, since the second section of an account restart drops whatever engine is
registered by then (section 8).

`MutexHeldByCalls` is why no call waits for a mutex for ever, the safety part of
`CallsReturn`: a held mutex has a thread in the middle of a call on that very instance, in a
part that ends by giving it back, and a thread that waits for a mutex holds none. Every
step takes a mutex for a call, keeps it, gives it back or goes on without (`MutexChange`).
That a start inside the account restart's second section waits with the state lock
held is below this module's grain; `ManagerLocks` has it.

`ManagerLocksProofs`, for any number of callers and instances, under `OrderedRequests`
(every operation but the account restart):

* `NoDeadlockTheorem`: `Spec => []NoDeadlock`.
* `JoinsAreAnsweredTheorem`: `Spec => []JoinsAreAnswered`, from which the first follows.

A script is safe when it can be followed from the depths its thread holds and the
callbacks it knows to be detached (`Trace`, with a lemma for each building block of an
operation and one for putting two scripts end to end): a mutex is taken only by a thread that
holds it already or holds nothing, and a worker is joined under the state lock only with
its callback detached. The inductive invariant says that every thread can follow the
rest of its script, that the locks agree with what was taken, and that workers do
nothing but report. So whoever waits for a mutex holds nothing, whoever waits for
the state lock waits for a thread that waits for nobody, and a cycle has no place to close.

`CandleLoopProofs`, for any finite number of candles, faults and any signals:

* `TypeCorrect`, `DecisionsLeaveRowsTheorem`, `ParkedIsClaimedTheorem`,
  `ClaimsAreTransientTheorem`, and `ExecutesOnceTheorem`: `Spec => ExecutesOnce`, the
  implementation of `AccountBook` (`used` is the execution keys, `open` the alerts of the
  open positions).

The inductive invariant says what the call in progress is about (`CallOfCandle`: the candle
after the cursor), that a candle about to be checkpointed was held, was logged by a
gate, or has its row (`DoneLeavesRow`), that what a quote has filled is still parked until it is recorded, and that
at most one position is open. Wherever an intent survives, in memory, in the checkpoint or in a
copy on its way to either, its alert has its row or is being claimed
(`KeptIsClaimed`). `OnlyFaultsEndWorkerTheorem` says that a worker ends in an error only
after a crash or a failed write, which `FaultFreeProgress` rests on: a second row or
execution of one alert would raise, and there is none, because nothing of a candle after
the cursor exists but what the call in progress wrote (`WorkedOnce`). The refinement
needs only that a fill checks key and position in the transaction that writes them.

`LiveFeedProofs`, for any number of candles and faults:

* `TypeCorrect`, `ReliableIsCompleteTheorem` and `FanOutTheorem`: `Spec => []TypeOK`,
  `Spec => []ReliableIsComplete`, `Spec => []FanOutKeepsOrder`.

The invariant has three parts: nothing is known that the venue has not closed
(`Closed`); the stream is complete only after a reconciliation, and then whatever has
closed is in its bars, in the answer being merged or in the socket (`Accounted`); every
candle offered is in the bars and is not offered again, and a delivery holds a candle in
hand only while it calls the sink (`Offers`).

Of the two progress properties the safety part is proved: `NoLostNoticeTheorem` (an
engine that waits without a notice has read everything, or the notice is on its way; it
clears the event before it fetches) for `EngineSeesEveryCandle`, and
`NoStrandedCandleTheorem` (a queued candle has a delivery call, the retry timer or a holder
of the delivery lock that looks again) for `LabCatchesUp`.

`ShadowObservationProofs`, for any workers, period, lease and bounds:

* `TypeCorrect`, and `Refinement`: `Spec => DecidesOnlyObserved`, the implementation of
  `ObservationLog`.
* `NoSilentHoleTheorem`: `Spec => []NoSilentHole`, and `LeasesRunOutTheorem`: no lease
  reaches further than its length from now, the safety part of `Adopted`.

The commit's fence compares status, token, expiry, generation and `last` in the transaction that writes.
The invariant (`Invariance`) says what passing it is worth: what is in the log is not
younger than `last` (`Ordered`), tokens count up (`Counted`), and a worker about to commit
under the current token decides a close that is not older than the last interruption
(`Current`), which rests on the clock running forward (`Clocked`).

For `NoSilentHole` the invariant (`HInv`) adds that tokens are unique (`Tokens`) and what
the holder of the lease knows (`Informed`): either the last decision, since nobody else
can commit under its token, or it recorded at its claim the closes between that decision
and its own. An evaluation that is more than a period late is on record before its
commit, and scheduled closes are a period apart (`ClosesAreApart`), so that a commit leaves
nothing between the last decision and its own that is neither decided nor on record. No
relation between lease and period is assumed.

`PriceActionAccountProofs`, for any proposals and any number of orders and faults:

* `TypeCorrect`, `PlacedOnceTheorem` and `OneStrategyExposureTheorem`: `Spec => []TypeOK`,
  `Spec => []PlacedOnce`, `Spec => []OneStrategyExposure`.
* `NobodyIsStuckTheorem`: the lab's lock is held only inside a section, and whoever works
  on a list has something left on it, the safety part of `MetadataSettles`.

A section that checks or writes the lab's metadata holds the lab's lock (`Locked`);
between the check and the submission nothing of the strategy is exposed (`Vacant`);
hence of all orders and positions of the strategy at most one is exposed (`Single`) and
a proposal has at most one order (`Once`).

Checked by TLC only: everything under fairness, which this prover cannot treat
(`SupervisedInstanceRuns`, `CallsReturn`, `RebootsEnd`, `CancellationsAreConfirmed`,
`JobsSettle`, `FaultFreeProgress`, `ParkedIsSettled`, `LabCatchesUp`,
`EngineSeesEveryCandle`, `Adopted`, `MetadataSettles`). The theorems named above as the
safety part of one of these say why nothing gets stuck; that something happens is TLC's.
The additional theorems state definitions of the proof modules, which no run lists:
`MutexHeldByCalls`, `OneWorkerUntilSwap`, `AnswersUntilSwap`, `OneRegisteredOwner`, `StraysFollowStops`,
`WaitingIsClaimable`, `ResultsAreOfCompletion`, `OnlyFaultsEndWorker`, `NoLostNotice`,
`NoStrandedCandle`, `LeasesRunOut` and `NobodyIsStuck`.

## 7 What the models leave out

* Clock skew between hosts, although a lease's expiry is computed from each process's
  clock.
* create(), delete() and configure() of instances, order quarantine, balances and
  evidence. Findings of the reconciliation are failures of the start they block.
* In `InstanceLifecycle` candles, signals, exits and orders: there an engine is its
  thread, its status and its gate. `CandleLoop` has them.
* The supervisor's backoff is a free choice to wait; a restart that runs out of slots
  restores any admissible set.
* Telemetry, quotas and datasets of research jobs. The SQLite store of jobs: it differs
  in claim, heartbeat, commit and recovery, and these four differences are the mutants
  of the `research` run. The idempotent branch of commit for an already completed job is
  not reachable from the worker, which commits once per claim and recognises a lost
  acknowledgement by reading.
* `max_attempts` is 3 for every job the service creates and equals the bound of
  recovery; the model has one `MaxAttempts`.
* Candles: the trading modes "semi" and "signal" (auto_engine.py:1876-1896), which end an
  entry as an idea for approval: a Trading Instance builds its engine with the mode "full"
  and without approvals (trading_instances.py:2064-2101; webhook_api.py:278 and
  routers/engine.py:41 set them for another engine). Of the decision and context gates
  (auto_engine.py:1713-1827) the verdict is a free choice and the log line is kept; the
  decision, skip and counterfactual records beside it are best effort in the code and left
  out.
* Forward execution: partial exits (reduce()), approvals and execute_approved(), the halt
  flag, the Supabase ledger, a strategy's own limit orders, replay mode and the branch
  that fills at once. `Restart` finds no quote in progress. A restart of the process and
  one of the worker are the same `Restart`.
* Market data: creation, sharing, upgrade and removal of channels (one consumer is
  attached from the start), quotes, staleness by age, the second, public socket. The engine's
  continuity error is modelled as waiting at the fetch until the bars are continuous.
* Shadow observation: failure and pause events, quotas, retention, data quality,
  evaluation and comparison of signals, telemetry, the STOP at the maximum duration
  (`Stop` covers it). The run starts from a registration that is validated and just started.
* Price Action account: sessions and snapshots, reset, remediation, funding, journal,
  replay, reduce-only and trailing orders, margin and balance arithmetic, the order of
  quotes. A check of positions and open entries is one step with taking the lock. One
  request at a time runs beside the runtime, and one manual order.
* The components listed as not modelled in `PROJECT.json`, each with its reason. The
  repository has about 103 000 lines of implementation, most of them indicators, strategy
  labs, backtests, analytics routes and dashboards: numeric functions from candles to
  candles, and reports. They keep no state two actors share, and a bounded check of
  their arithmetic would be a unit test in another language. What is mapped here is the
  part that persists, claims, locks, retries and recovers.

## 8 Disagreements with the code's own words

Kept as a run:

* `lease_successor`: a row found leased at restoration becomes "blocked", and the sweep
  skips blocked rows for good (instance_supervisor.py:166), though
  TRADING_INSTANCE_PRODUCTION_AUDIT.md:177-179 and trading_instances.py:3195 say that the
  supervisor retries.

Seen while modelling, not kept as runs. Instances:

* A sweep that listed an instance before a Stop restarts it after the Stop returned
  (instance_supervisor.py:143, against :28). `AnswersAreTrue` speaks of the moment of
  the answer for that reason.
* The terminal error of a paused worker overwrites "paused" (trading_instances.py:2005),
  and the sweep then restarts it with an open gate, against instance_supervisor.py:23-24.
* The second section of an account restart drops whatever runtime is registered by then
  (trading_instances.py:2667), a worker that a Start has put there since included, against
  :1731-1732. It also calls start() with the state lock held (:2704), which takes the
  lifecycle mutex, against the order of every other operation (:1286-1288): it and a Stop can
  wait for each other. The runs and proofs of `OneWorkerPerAccount`, `AnswersAreTrue`,
  `NoDeadlock` and `JoinsAreAnswered` leave the account restart out for these two reasons
  (the proofs of section 6 include it for accounts that were never swapped);
  `lifecycle_live` includes it, with the order of locks abstracted.
* A Resume that overlaps a Full Bot Reboot's request opens the gate the request has
  closed: request_full_reboot (trading_instances.py:2431) does not take the lifecycle
  mutex. An account restart that lost track of a worker (above) has the same effect.
* update_configuration() detaches the callback too late for a worker that is already in
  it (trading_instances.py:2907-2914): the join runs into its timeout with the state lock
  held, and the worker outlives the edit.
* A join that times out lets stop() hand over the lease under a thread that still runs;
  an unacknowledged pause leaves a live worker whose lease nobody renews (section 6).
* "un-desired only by explicit operator Stop" (trading_instances.py, near 2031): edits,
  failed pauses, account restarts and failed reboots clear `desired_running` too.
* A research worker that dies between the INTERRUPTED and the RETRY_PENDING transaction
  (research_jobs.py:342-347 and 371-375) strands the job: recovery looks at CLAIMED,
  RUNNING and CANCEL_REQUESTED rows only, and a cancellation of an INTERRUPTED row does
  nothing. `JobsSettle` states the exception.
* A heartbeat checks its lease (postgres_workers.py:204) and renews it (:208) in two
  statements without the quota lock. A claim that counts in between (:174) misses a lease
  that has just run out, and the renewal then revives it: two unexpired active jobs with
  max_active 1, although docs/STRATEGY_INTELLIGENCE_SPRINT10.md:101 gives a global
  concurrency of one. `ActiveLimit` excepts these leases (`overrun`); TLC finds the pair in a
  few steps without the exception.
* On SQLite an accepted cancellation is lost when its lease expires
  (journal_context_store.py:557), where PostgreSQL cancels the job.

Candles to fills:

* data/ledger.py (near 209) says a row is recorded pending when its intent is parked. A
  second alert that is merged into an existing intent gets a pending row too and is
  never parked; nothing settles that row.
* A candle that is replayed meets the decision and context gates again, with scores that may
  have changed; a row and a gate's log line for the same candle can result.
* auto_engine.py:1349 wants no pending order filled while the execution gate is closed;
  process_quote() and on_quote() do not consult the controls.
* Rejecting an alert a second time raises DuplicateOrderIntent out of reject(). The
  worker ends in error, the supervisor restarts it, the same candle is replayed, and so on.
  data/ledger.py:216 calls such a pair two honest rows.
* A claim stranded by a crash bars its candle from execution for good.
* An intent whose key was already executed makes every later quote raise.
* When saving the checkpoint raises, the claim is released but the intent stays in memory
  and can still fill, against signal_pipeline.py near 993.
* The snapshot of intents is taken under the lock and saved outside it, so that an
  older snapshot may be the last one saved. reduce() has no stable execution id.

Market data:

* Between "CONNECTED" (price_action_stream.py:364) and the reset of
  reconciliation_complete (:371) status() can call the new connection reliable on an old
  receipt, against the comment at :366. `ReliableIsComplete` exempts that moment.
* A REST answer that lacks the newest candle counts as complete, against the docstring at
  :404; the property exempts it as `late`.
* Repaired candles reach the lab after newer ones. `FanOutKeepsOrder` is about the order
  of the offers.
* With a kline-only stream the public channel stays DISCONNECTED (:345-348), so the
  status never becomes SYNCHRONIZED, against the comment at :573-578.

Shadow observation:

* The first close between START and a worker's first claim can pass without a gap
  event. `NoSilentHole` speaks of closes between two decisions.
* release() leaves the token, so that a clean hand-over is recorded as an expired lease.
  VALIDATE of a blocked registration clears the token, and the next claim is recorded as
  a late first worker.
* worker.start() after a stop() that timed out starts no thread while the stop event stays
  set. The lease (60 s) is shorter than the period (300 s).

Price Action account:

* reconcile_pending_orders() reads the positions at price_action_lab.py:616, before it
  takes the lock (:619): a fill in between has the metadata of an open position completed
  for good, against its docstring.
* The manual route (routers/price_action.py:380-392) checks without a lock, so a manual
  entry can stack on a strategy order, against the reconcile route's docstring.
* A crash between the broker's commit and the lab's INSERT leaves a strategy order without
  metadata, which the audit then calls manual.
* The cancel at :694 is not guarded: an order filled meanwhile aborts the reconciliation
  and the candle. Where a cancel is swallowed, EXPIRED or CANCELLED may be written for an
  order that just filled.
* A protection on the wrong side raises out of process_tick() and rolls the whole tick back,
  each time, while the condition holds.

# A TLA+ model of Robata's durable execution core

Robata turns multi-camera robot recordings into structured events. Its decoders,
samplers and model calls are computations; what must not go wrong whatever
crashes, stalls or repeats is the durable machinery underneath: the work ledger
that hands jobs to workers, the stream ledger that turns a recording into windows
of work and closes it once, the evidence of model calls, the commit that publishes
a run, the bounded worker lanes built over the ledger (in this repository only a
test constructs them), and the outbox that carries results out.
This project models that machinery from its source, checks it with TLC and proves every
safety property that the passing runs check with TLAPS.

Source paths below are relative to `src/robata/`.

## 1. Inventory

| Part | State it keeps | Operations | Correct when |
|---|---|---|---|
| Work scheduler (`adapters/sqlite_work_scheduler.py`, `queue/models.py`) | `work_items`, `work_dependencies`, `work_attempts` | plan, plan_many, claim, claim_and_start, start, heartbeat, succeed, fail, cancel, skip, invalidate, reconcile | one worker at a time under a fence; dependencies honoured; attempts bounded and accounted; terminal rows final; nothing stranded |
| Stream work ledger and window scheduler (`adapters/sqlite_stream_work_ledger.py`, `application/canonical/stream_scheduler.py`) | stream plan (EOS, seal, export barrier, closure), expected windows and their terminal members, work plans with publication state, evidence and pending intent | append, publish, EOS, seal, gate, claim, resume, complete (three transactions), recover | both ledgers agree on every terminal fact; finalization last and once; a crash between transactions loses nothing |
| Stream delivery authority (`adapters/sqlite_stream_delivery.py`) | stream outbox and delivery rows | commit_window_reduction, publish_recording_finalization, claim, acknowledge, record_failure, reconcile | an outbox message for every member, facts and message committed together |
| Stream finalizer (`application/canonical/local_stream_finalization.py`) | none durable | drives a recording's ready work to acceptance | claims only over accepted upstream evidence |
| Outbox relay (`queue/outbox.py`, `adapters/sqlite_outbox.py`) | delivery rows, sink rows | deliver_once: claim, publish, answer | at least once to the sink, stored once, dead-lettered only after the last attempt |
| Reduction barriers (`queue/barrier.py`, `adapters/sqlite_barrier.py`) | expected members, terminal members, reduction | open, record, seal, reduce | reduces once, over exactly the expected set |
| Stream runtime lanes (`queue/stream_runtime.py`) | three bounded queues, the sets of scheduled, cancelled, optional and shed ids, the renewal threads | admit, recover, cancel, drain, close, and the loops of four kinds of threads | no item lost or run by two threads; leases released on close; full lanes delay, never block for good |
| Stage dispatcher (`queue/dispatcher.py`, `queue/stage.py`) | queues and credits in memory | enqueue, dispatch, acknowledge | weighted fairness, bounded concurrency |
| Backpressure and fairness (`queue/backpressure.py`, throttle in the stream ledger) | controller state and owner fence | observe, admit | no recording starves; a pause is left again |
| Task-queue brokers (`queue/redis_adapter.py`, `adapters/in_memory_task_queue.py`, `adapters/fake_broker.py`) | receipts, visibility timeouts | reserve, ack, nack, extend | a projection of the ledger, never an authority |
| Inference calls and evidence (`inference/call_barrier.py`, `inference/orchestrator.py`, `adapters/sqlite_inference_evidence.py`) | call plans, attempts, raw responses | begin, record, accept, reduce | restart never repeats an accepted call |
| Primary completion (`adapters/sqlite_primary_completion.py`, `application/canonical/durable_work.py`, `event_pipeline/identity_registry.py`) | runs, completions, event identities and their assignments, outbox rows | begin_run, snapshot, commit, get, and the coordinator's commit and reconcile | all or nothing; no event created or announced twice; the work ledger agrees |
| Registries (logical node, artifact) | append-only revisions, blobs | compare-and-swap, promote, put | one head per identity; no dangling blob |
| Perception scheduler (`perception/durable_scheduler.py`) | leases of the vNext path | claim, complete | as the work scheduler |
| Admission, capture, review | append-only ledgers, review leases | admit, capture, lease, decide | projections follow the ledger |
| PostgreSQL adapters | the same ports | the same | the same under row locks |
| Computations (`perception`, `event_pipeline`, `qa_pipeline`, `sampling`, `ingestion`, `alignment`, `retrieval`), media and object-store adapters, model runtimes, `contracts`, `ports`, `runtime`, `web_api`, `benchmark`, `scripts`, `web` | none that outlives a call, or external | | |

How they interact. The stream scheduler writes its own ledger and calls the work
scheduler in the same database file, in *separate* transactions; the delivery
authority writes both sets of tables in *one*. The finalizer calls the scheduler
and the authority. The relay polls the delivery tables and writes a sink in a
database of its own. A canonical run executes its model calls as asyncio tasks
over an evidence ledger and barrier tables, and is published by a coordinator that
holds a lease in the work ledger while it commits to the primary database. Between
processes all interaction is through tables, so the hard behaviours are the orders
in which transactions commit, the crashes between two of them, and times read
before a lock was granted; inside a process they are the orders in which threads
of the lanes and tasks of the microbatch dispatcher run, and where a cancellation
finds them.

`PROJECT.json` lists each hazard at its line. In short: a lease recovered while its
holder still computes; `now` older than a committed neighbour's; incremental
readiness; a maintenance pass whose early steps invalidate its later ones; three
transactions where one fact is meant; two processes with one worker id and one
fence; counts read before the transaction that relies on them; a relay that dies
between publish and acknowledge; two databases where one commit is meant; identities
prepared from a registry another run has moved on; an answer stored without its
terminal; a cancellation at any await; a thread that waits on a full lane while
its runtime stops.

## 2. Modules

| Module | Models |
|---|---|
| `WorkContract` | What clients rely on: jobs with dependencies, handed out one at a time, never early, at most `max` times, ended once. No leases, clocks or passes. |
| `WorkScheduler` | The work ledger. `row` is the three tables joined, `held` the lease objects in worker memory, `clock` the host's clock. |
| `StreamScheduler` | One recording. `plan`, `declared`, `member`, `work`, `outbox` are the stream tables, `exec` the execution rows, `op` the place of each process in an operation of several transactions, `cap` its lease. |
| `OutboxRelay` | Delivery rows, the sink, and what each relay has in hand. Both delivery stores run the same statements and are one module. |
| `Publication` | How a run becomes public: the coordinator's steps conjoined with the actions of an INSTANCE of `WorkScheduler`, over the primary database and the event registry. |
| `InferenceCalls` | One model call of a run: its parts as tasks, the microbatch dispatcher, the evidence ledger and the call barrier. |
| `StreamLanes` | One runtime of bounded lanes: its threads, queues, tracking sets and renewers, over a ledger reduced to what they see. |
| `MCWorkScheduler`, `MCStreamScheduler`, `MCOutboxRelay`, `MCPublication`, `MCInferenceCalls`, `MCStreamLanes` | Instances for TLC. |
| `WorkSchedulerProofs`, `WorkContractProofs` | Theorems about `WorkScheduler`: its invariants, then its capabilities and the refinement of `WorkContract`. |
| `StreamSchedulerProofs`, `OutboxRelayProofs`, `PublicationProofs`, `InferenceCallsProofs`, `StreamLanesProofs` | Theorems about the module of the same name. |

One SQLite transaction (`BEGIN IMMEDIATE`) is one action; an exception inside it is a
rollback, so a guard that fails. An exception that leaves an operation of several
transactions half done is an action of its own (`AppendRaises`, `CompleteRaises`,
`RecoverRaises`, `FenceRaises`).

**WorkScheduler.** Each operation is a composition of functions from table to
table, in the order of the code: expire hard deadlines, recover leases, wake
retries, act, refresh what lies downstream. `now` is chosen from the last `Skew`
ticks, because the code reads it before it waits for the lock. A fencing token is
a fresh uuid per claim, and a claim raises the epoch once, so (item, epoch) stands
for the token. The worklist of `_refresh_planned_for_work_ids` is modelled by what
it computes: the least set of items that fail because a REQUIRED upstream did
(`Cascade`). `torn` marks a row whose `updated_at` precedes its `created_at`.
Priorities and which of several READY rows `claim` prefers are left open: a claim
may take any of them.

**StreamScheduler.** The window DAG is a constant (`Topology`); one run uses the
pinned five stages, the others the last stage alone, since the earlier ones differ
from it in nothing but their edges. Terminal evidence is one of `Payloads`: two of
them let two completions disagree. The execution rows are those of WorkScheduler
reduced to state, fence and result; leases lapse at any moment, which covers every
clock. That this use stays within `WorkContract` is checked and proved (`UsesContract`),
so WorkScheduler and StreamScheduler meet at the same abstract specification.

**OutboxRelay.** Stored times are kept relative to the clock, so the clock itself
needs no bound. `claim`, `publish` and the answer are three actions on two
databases; a relay may crash or stall between them. Relays are not daemons: an operator's
command runs one delivery pass (`BeginPass`, `running`), which ends at the first poll that
finds nothing due (`ClaimNothing`), at its budget, or at an exception
(`local_composition.py:2827`, `local_outbox_delivery.py:262`). `ClockRuns = FALSE` is the constant
clock of the local composition (section 5).

**Publication.** `row`, `held` and `clock` are the work ledger and every step on it is
an action of `WS == INSTANCE WorkScheduler`, so the coordinator meets the real
maintenance pass, lapses and fences. `run`, `completion` and `registry` are the
primary database; `op[p]` is the next step of process `p` with the command it has
prepared. Commands and work items are content-addressed: (run, generation) stands
for both. `Commit` is one transaction with four outcomes (done, replay, stale
registry, uncertain: COMMIT fails and the repository asks whether it took effect).
A process that crashed or whose command failed is run again (`Again`), by the same
code path: look up the run, begin, snapshot, prepare, commit or reconcile.

**InferenceCalls.** `evidence` and `barrier` are the tables of two databases, `proc` the
place of a process in the call, `task` that of each part, `bucket` the queue and the
timer of the microbatch dispatcher. Attempts are identified by (part, number),
since every identity in the code is derived from content. Raw bytes are two model
values; `Inputs` says which of them the parser accepts, which enrich, which abstain
and whether the endpoint replays an answer for a known idempotency key. Where the code
looks a fact up and appends it in a second transaction (intent, barrier definition,
reduction), these are two actions, and the process that comes second gets the ledger's
conflict and must be executed again (`Intent` and `AppendIntent`, `Define` and
`AppendDefinition`, `Reduce` and `AppendReduction`). Crash,
interrupt, provider timeout and refusal draw on one fault budget and may strike at
any await.

**StreamLanes.** `hand[t]` is what a worker thread is doing and with which claim, `beat[c]`
the renewer of a claim and whether `_heartbeats` knows it, `offer` the READY slices
that recovery, a client or a closing drain are working through, `canc` and `closer`
the clients inside `cancel` and `close`; a `close` of a runtime that is closed already
(`CloseAgain`) stops nothing and only joins. A region under `_lock`, a ledger transaction
and a queue operation are one step each. `left` is a script: which calls are made and
how many faults of each kind may occur, so that one run covers several small
scenarios instead of their product.

## 3. Runs

| Run | Instance | Distinct states | Shows |
|---|---|---|---|
| `work_join` | 3 items in a join (one edge REQUIRED, one not), 2 workers, lease 2, skew 1, clock to 3, one hard expiry, invalidate and skip | 107,717 | type, `AttemptLedger`, `DependenciesHonoured`, `ReadinessCurrent`, `ExclusiveExecution`, `TerminalIsFinal`, `SuccessIsFenced`, `ImplementsContract` |
| `work_chain` | 3 items in a REQUIRED chain and a conflicting replay, 1 worker, fair | 2,413 | `NoWorkStranded` |
| `work_expiry` | 2 items, same expiry | violation | finding 1 |
| `stream_complete` | 1 window, a worker and its restarted self, 2 payloads, 2 attempts, 1 renewal, 1 crash | 546,145 | type, `LedgersAgree`, `MembersAreEvidence`, `FactsAreFinal` |
| `stream_windows` | 2 windows, 2 workers, batches up to 2, 1 crash | 963,939 | `FinalizationIsLast`, `PublicationOrder` |
| `stream_causal` | 1 window with all five stages, 2 attempts, 2 crashes, fair | 103,885 | `CausalInputs`, `UsesContract`, `SuccessIsAccepted`, `DeclaredIsPublished` |
| `stream_exhausted` | 1 window, 1 attempt | violation | finding 2 |
| `outbox` | 2 messages, 2 relays, 3 attempts, lease 2, delays 1 to 3, skew 1, 1 crash, fair | 356,668 | type, `DeliveredOnce`, `DeadLettersAreSpent`, `AnsweredByHolder`, `SettledIsFinal`, `EveryMessageSettles` |
| `publication` | 2 processes on one run, or on two runs of a recording that found the same event, the same event under another hypothesis, or nothing; 3 attempts, lease 1, clock to 3, 1 crash, fair | 1,044,798 | `SuccessHasCompletion`, `EventsAreUnique`, `AnnouncedOnce`, `CompletionsHold`, `RunsPublish` |
| `publication_recover` | the inputs of `publication`, clock to 2 | violation | finding 3 |
| `calls` | 1 process with 2 parts in a batch, or 2 processes with 1 part, or an endpoint that does not replay; 2 attempts, 3 faults, fair | 600,679 | `EvidenceChain`, `OneOutcome`, `FactsAreFinal`, `SettledNotRepeated`, `CallsSettle` |
| `lanes` | nine scripts over lanes of capacity one: 3 items; a close with work in hand, waiting or not; a cancelling close; a close that is repeated, after a drain that raised too; a cancel against admission, recovery and retry; storage error, stalled renewer and a second runtime; a restart; an optional item under pressure; fair | 145,073 | `ScheduledIsHeld`, `ExclusiveCallbacks`, `RenewersReleased`, `WorkEnds`, `CloseReturns` |

Why the bounds are enough. Two workers or relays, of which one may stall while the
other claims, are what a fence must tell apart; a third repeats the second. A join
of three items has every role an item can have: upstream that is required, upstream
that is tolerated, downstream. A skew of one tick against a lease of two lets an
operation commit out of clock order without making every lease already lapsed. Two
attempts distinguish a retry from the last one; three, in the outbox, also pass the
point where the delay is capped, and in `publication` leave an attempt to the process
that comes after two lapsed leases, for which the clock has to reach 3. A crash at every step of one operation, followed
by a complete recovery, needs one crash; the causal run has two, one of them in the
recovery. Two runs of one recording are what can race for one registry partition, and
the four inputs of `publication` are the four ways their findings can meet. Two parts
make a batch and a sibling to cancel. Lanes of capacity one are full as soon as one
item is in them; three items fill publisher, publish lane and provider at once. The
scripts of `lanes` keep independent dangers apart: two faults at once would need a
larger instance than five minutes allow, and only the script with a stalled renewer,
a storage error and a second runtime mixes three kinds. The bounds are named constants (`MaxClock`, `PlanHorizon`,
`MaxRenewals`, `MaxCrashes`, `NumWindows`, `MaxBatch`) and appear in guards.

Fairness, and what in the code justifies it.

* `WorkScheduler!FairSpec`: time passes, and reconcile is called again while it has
  something to do (every claim runs the same pass, and the services call it in
  their loops). Workers owe nothing: they may crash, stall or renew as often as they like.
  One that renews for ever keeps its item for ever, in the code as in the model, so
  `NoWorkStranded` exempts a lease (or a retry time) that reaches past the end of modelled
  time, and says so in its formula (`OutlastsClock`).
* `StreamScheduler!FairSpec`: a process that is down is started again, a live one
  ends the operation it is in, and it calls `recover` time and again between
  others, as `drain_ready` and the finalizer do. Nobody is obliged to claim.
* `OutboxRelay!FairSpec`: the clock runs (where it runs at all) and a pass that has begun goes on
  to its end. Nobody is obliged to begin one: no code of the repository runs deliveries
  again by itself, so `EveryMessageSettles` has the premise `PassesGoOn`, an assumption about
  operators. The sink may fail every time.
* `Publication!FairSpec`: time passes, and an operator whose command failed or whose
  process died runs it again. `RunsPublish` says that from
  some time on the run is complete or one of three things keeps it from completing: its
  events were published by another run under other hypotheses, the work item of the command
  it prepares now has no attempt left, or (a bound of the model) that item is under a lease that
  ends after the modelled time. A lapsed lease that nobody recovers is no excuse.
* `InferenceCalls!FairSpec`: a process goes on, a run that ended is executed again, and
  the fault budget is finite. `CallsSettle` is claimed for endpoints that replay.
* `StreamLanes!FairSpec`: threads run and callbacks return, a call that a client has
  begun goes on, a repeated close too, the recovery thread polls, and a lease nobody renews runs out. Nobody
  is obliged to admit, cancel, close or reopen, and a renewer may be slow to notice
  that its fence is lost.

## 4. What is proved

Every invariant, action property and refinement of the passing runs is also a theorem,
for every value of the constants that satisfies the named ASSUMEs; what stays with
TLC is liveness. Each component has one inductive invariant, and each proof has one
step per action. A variable that several actors share is carried over a step of
somebody else by one lemma about what any step may do to it, never action by action.

**The work ledger** (`WorkSchedulerProofs`, `WorkContractProofs`; any finite set of items,
any dependency graph, workers, batches, lease durations and skew). `TypeCorrect`,
`AttemptLedgerHolds`, `DependencySafety`, `TerminalRowsAreFinal` follow from
`TableInv`: the type of the table, the agreement of each row with its attempts,
`req` within `up`, and that whatever has started is unblocked. Dependency order alone
is not inductive: a row in RETRY_WAIT becomes READY again without another look at its
upstreams, so "has been attempted" must count as started, and an upstream must never
leave a terminal state, which is why finality is carried along (`KeepsEnded`). Both are
properties of functions from table to table and compose, so they are proved once
per function (`RefreshKeeps`, `ExpireKeeps`, `RecoverKeeps`, `WakeKeeps`,
`InsertKeeps`), and each operation follows from the functions it is made of.

`ReadinessIsCurrent`, `ExecutionIsExclusive`, `SuccessesAreFenced` and
`ContractImplemented` need more. Every table function is shown to be `Tame`: it hands
nothing out, wins nothing, and takes a lease back only once it has lapsed at the `now` it
was given. `Current` says that no PLANNED row has only ended upstreams; a function breaks it
for the downstream of what it ended, and the refresh over exactly those items restores it
(`RefreshCurrent`). `LeasesOK` brings in the capabilities in workers' memory: an
unexpired one carries the newest epoch of its item, its row is out or ended, and no two
workers hold the same epoch. The skew enters here, since a lease is recovered by
a `now` that may be behind the clock but never ahead of it. `SuccessesAreFenced` says that an
item that becomes SUCCEEDED was RUNNING, that the worker held its newest epoch with the row's own
lease end, and that the lease had not lapsed at the time the operation read, which is at most
`Skew` before the commit; by the host's clock it may just have ended. A step is then a `Progress` in which at
most one item is handed out and at most one won, which is a commit of `WorkContract`.

**One recording** (`StreamSchedulerProofs`; any processes, worker ids shared between them,
windows, window topology, payloads, attempts and crashes). `TypeCorrect`,
`TwoLedgersAgree`, `MembersMatchEvidence`, `FinalizationComesLast`,
`WorkIsPublishedInOrder`, `InputsAreCausal`, `FactsStayFinal` and `ContractIsUsed`. None of the
properties is inductive, because operations of several transactions act on what
they read before. `StreamInv` adds, for each process in the middle of one (`OpOK`), what it
relies on: rows it will project are visible in the stream ledger, rows it will publish
are projected, a gate about to open has a sealed plan, the export barrier and all
members; an intent that `complete` has stored is still there if the lease is still its
own, and a success it has committed stays. These facts survive every
transaction of everybody else because rows only move forward (`Forward`: no fact is
withdrawn, an intent is replaced only under a newer epoch). `CapOK` bounds a
capability by its row's epoch. Readiness is kept by `Settle` alone; the one transaction
without it, `commit_window_reduction`, ends only reductions, whose only downstream is the
finalization, and that is never left PLANNED between transactions, since its gate
opens after every reduction has succeeded. `Forward` with at most one row handed out and one
won is a commit of `WorkContract` once the upstreams of a row in the ledger cannot change: those of
the finalization are counted by the seal, which is final.

**Publication** (`PublicationProofs`; any processes, runs, hypotheses and fingerprints).
`EventsUnique`, `AnnouncementsAreUnique`, `CompletionsKeepFacts` rest on `RepoInv`, whose
core is the compare and swap: a prepared command whose generation is still the
partition's was prepared from the present registry, because each commit that changes the
registry raises the generation. `NothingMatches` shows by a least counterexample that a
hypothesis a command creates an event for matches no identity, registered or in the command.
`SuccessesAreCompletions` spans both databases: `LedgerInv` says that a capability a process
holds is for its own command, that only `succeed` makes a row SUCCEEDED, and that commands and
items correspond one to one, over the proved properties of the INSTANCE's table functions.

**Model calls** (`InferenceCallsProofs`; any processes, parts, attempts, faults and batch
sizes). `TypeCorrect`, `EvidenceIsChained`, `OutcomesAgree`, `StoredFactsAreFinal`,
`SettledIsNotRepeated`. The invariant has a part per attempt (`AttemptOK`: every earlier
attempt ended retryably), one for the barrier tables given the ledger (`BarrierOK`), one
per task (`TaskOK`: its attempt has an intent, a success in hand has its bytes stored, what it
is about to submit is final), and one per bucket (`QueueOK`: who is queued waits for this
bucket). Durable state only grows (`Extends`), which carries a task over the steps of
others. A run that is about to append a reduction has read the members in an earlier
transaction; `ReducesOK` says that what it read still stands (`Agreed`).
`SettledIsNotRepeated` holds for runs with one process at a time and needs
`UnsentOK`: a task that is about to send has no terminal yet.

**The lanes** (`StreamLanesProofs`; any numbers of items, threads, attempts, capacities and
any script). `TypeCorrect`, `ScheduledAreHeld`, `CallbacksAreExclusive`, `RenewersAreReleased`. A
notification is a token that enters with an admission, moves between queues and
threads and leaves with `_finish_scheduled`. `TokenInv` counts the tokens of an item over all
queues and threads (as cardinalities of sets of places): never more than one thread in a
callback and, unless the item was durably cancelled, never more than one token, which exists
exactly if the id is scheduled while the runtime is not stopped.
`RenewInv` follows each renewer: one not yet registered belongs to a thread that is about
to register it, and after the last `_stop_all_heartbeats` none but those is alive.

**The outbox** (`OutboxRelayProofs`; any numbers of messages, relays, attempts and crashes, any lease and
retry policy, and either clock). `TypeCorrect`, `NeverLostNeverTwice`, `NoEarlyDeadLetter`,
`SettledRowsAreFinal`, `FencedAnswers`. The invariant adds that a claim in a relay's hand is
never ahead of its row and that one marked published is in the sink: without it an
acknowledgement could record a delivery that never was.

The assumptions are the named ASSUMEs of the modules, and TLC evaluates them in every
run. They say that bounds are natural numbers (positive where the code refuses zero),
that sets of items, threads, runs and processes are finite, that the window
topology has a reduction on which no stage depends, and that `None` (NULL, Python's `None`) is
none of the values it is compared with.

Model-checked only: `NoWorkStranded`, `SuccessIsAccepted`, `DeclaredIsPublished`,
`EveryMessageSettles`, `RunsPublish`, `CallsSettle`, `WorkEnds` and `CloseReturns`. They
are liveness under fairness, which the prover cannot do (it has no rule for ENABLED).
The three properties of the violation runs are refuted, not proved.

## 5. Findings

1. **Hard expiry can stop the whole ledger** (`work_expiry`). A downstream item due in
   the same pass as the upstream it requires is failed by the cascade and then expired
   again; the exception rolls back this and every later maintenance pass.
2. **The last attempt can end without evidence** (`stream_exhausted`). A lapsed lease does
   what `fail_retryable` refuses to do; the recording can then never be finalized.
3. **The repair of a publication fails when it comes late** (`publication_recover`).
   `reconcile` claims a lapsed item but starts it only if it was LEASED before the
   claim; its success is refused, and repeated repairs use up the attempts. The trace has a
   lapsed lease, a commit whose outcome the publisher is not told, the command run again
   and the refused success; a crash after the commit does the same.

`PROJECT.json` quotes the lines on both sides.

Observations made while modelling, outside the runs:

* `adapters/sqlite_work_scheduler.py:1435`: a `now` read before a neighbour's commit can
  write `updated_at` before `created_at`, a row that `queue/models.py:213` refuses to load.
* `application/canonical/local_composition.py:2803` passes a constant clock to the delivery
  authority. With `ClockRuns = FALSE`, TLC refutes `EveryMessageSettles`: a message whose
  relay crashed stays LEASED and one failed publish stays in RETRY_WAIT for ever.
  The publisher judges the same work ledger by the host's clock.
* `application/canonical/stream_scheduler.py:102` has no edge between windows, although the
  repository's README (line 205) speaks of a monotonic chain of reductions.
* `inference/orchestrator.py:295`: a batch deadline that passes after some members' raw
  bytes are stored wants a TIMEOUT terminal that the ledger refuses; the part raises and
  the run must be executed again. Two interrupts use up a two-attempt policy.
* `adapters/sqlite_inference_evidence.py:4110`: after a crash between raw bytes and
  terminal, an endpoint that answers a repeated request with other bytes leaves the
  attempt without a terminal it could ever store. The input of `calls` that does
  not replay is exempt from `CallsSettle` for this reason.
* `queue/stream_runtime.py:663`: an item that is admitted and claimed between the check
  for a tracked notification and the durable cancellation has no cancellation request,
  and its result reaches the publisher although the docstring says the fence prevents
  it. A stale READY slice does the same: its second notification clears the request
  of the first. The success is refused by the ledger in both cases.
* `queue/stream_runtime.py:966`: a close that does not wait fails the claim in hand; on the
  last attempt the item ends in FAILED_PERMANENT, although close "does not discard
  authority state".
* `queue/stream_runtime.py:738`: when drain raises inside close, `_closed` is set and `_stop`
  is not, and a second close that waits joins threads nobody stops. The model has it
  (`CloseAgain`), and `CloseReturns` exempts exactly this case.

## 6. What is not modelled, and the plan

Payload bytes, digests and schema versions are identities; that a replay must match
byte for byte is a guard. Read-only operations are left out, with the hazards they
have noted in `PROJECT.json`. SQLite itself is trusted: a transaction is atomic and
durable. The package has 226,000 lines, most of them computations on media, contracts,
benchmarks and adapters to services, which have no state that outlives a call; the
map covers the durable core and only a few per cent of the whole.

Next, in this order:

1. Proofs: every step of Publication on the work ledger is a step of WorkScheduler, so that
   the theorems about that module hold of the composition (its `TypeOK` is stated and not
   yet proved or checked by a run); the fence of a lease in StreamScheduler as an
   invariant of its own.
2. `Backpressure`: the controller of `queue/backpressure.py` with its owner fence, and the
   throttle between recordings in the stream ledger.
3. The stage dispatcher: weighted lanes, credits and its in-memory leases.
4. `TaskQueue`: the broker projections against the work ledger.
5. The logical-node and artifact registries: promotion, blobs and orphan recovery.
6. `PerceptionScheduler`; the codec and frame caches; the admission ledger; the review
   queue; the PostgreSQL adapters as a variant of WorkScheduler with row locks.

# TLA+ verification of the PI platform

The PI platform (`src/src`, Python) runs chains of analysis agents under
governance: it records what they do in append-only, hash-chained stores, orders
those records across shards, schedules and retries the agents' work, and checks
tenants, approvals and quotas around them.  About a third of its lines are some
250 stateless micro-agents, modelled by what they can answer; the behaviour that
is hard is in the stores, the coordinators and the gates around the agents.
This directory models that logic in TLA+, checks it with TLC on small instances
and proves the most important results with TLAPS for every instance.

## 1. The system

| Part | State | Operations | What is hard | What makes it correct |
|---|---|---|---|---|
| Event bus storage (`pi_event_fabric/bus/core.py`) | SQLite tables `events`, `event_partitions`, `epoch_markers`, `checkpoints`; one RLock per object | `append`, reads, `verify_partition_chain`, `establish_epoch` | several processes on one file; the head is read outside the write transaction | one intact hash chain per partition; heads agree with events |
| Deterministic consumer (same file) | the `checkpoints` rows | `consume` | crash between handler and checkpoint; two workers of one consumer id | nothing skipped, in order, everything consumed in the end |
| Shard coordinator (`pi_event_fabric/ordering/shard.py`) | `shard_sequences`, `epoch_coordinations`, `shard_checkpoints` | `advance_sequence`, `establish_epoch`, `write_checkpoint`, `recover_shard`, `verify_monotonicity` | methods that take the lock two or three times; recovery from a stale tail | no increment lost, answers in the order of calls, no drift from the events |
| Scheduler (`pi_micro_agents/orchestrator/scheduler.py`) | thread pool, priority queue, `active_tasks`, `cancellation_events` | `schedule`, `cancel_task`, `run_speculative`, `shutdown`, `_run_task_wrapper` | cancellation races the worker; timeouts; shutdown | futures resolve and tell the truth; verdicts cover every branch |
| Recovery (`pi_micro_agents/orchestrator/recovery.py`) | breaker state per step | `execute`, `allow`, `record_success`, `record_failure` | late results of calls admitted earlier | state agrees with the failures; calls return; open is not for ever |
| Micro-agents, router (`pi_micro_agents/*.py`, `orchestrator/router.py`) | none that lasts | `execute` of each agent, `register`, `route` | what an agent may answer under its strict flag | a strict agent does not pass what it finds |
| Consensus gate (`orchestrator/consensus.py`, `pi_semantic_radius/consensus_breaker.py`) | three runs of an agent | `run_with_consensus` | threads that raise or time out | a majority carries the answer; no thread is left behind |
| Orchestrator, chain engine (`core.py`, `chain_engine.py`, `shield.py`) | the goal's stage, chain context, traces in the ledger | `execute_goal`, `compile_chain`, `execute_chain` | gates that read one flag three ways; exits with and without a gate | no success with a high risk, no incomplete success, unsafe payloads reach no agent |
| Chain checkpoints (`checkpoint.py`) | `chain_checkpoints` | `save`, `load`, `purge_expired` | expiry decided outside the lock | a fresh checkpoint survives |
| Production storage (`pi_production/storage/engine.py`) | audit log with the last hash in memory, rate windows, snapshots | `AuditLogger.log`, `RateLimiter.check`, `persist` | threads and restarts fork the audit chain | one audit chain per tenant |
| Execution mesh (`pi_interoperability_layer/mesh`) | worker slots, receipts, shard phases | dispatch, receipts, phase barrier | failing workers, late completions | every task has one receipt; phases do not overlap |
| Tenants, execution fabric (`pi_interoperability_layer/platform`) | quotas, leases | check, record, acquire, release | check and record are two calls | quota not exceeded |
| Snapshot registry (`pi_interoperability_layer/snapshot`) | chains of snapshots, clock | `store`, `ordered_now` | validation after the entry is made | linear chains |
| Agent interceptor (`pi_agent_interceptor/proxy.py`) | WAL ledger, pending approvals, rate and spend windows, cache | the four endpoints, `log_event`, `dispatch_human_approval`, `receive_human_review` | the review races the timeout; the ledger raises between decision and effect | no action without an approval in time; every action has its row |
| Agent chain pipeline (`pi_agent_chain`) | artifact registry, state ledger, kernel state | `PipelineDriver.run`, `GovernanceKernel.execute`, `can_promote`, `promote` | crash between promotions; registry shared by runs | what is VERIFIED rests on settled evidence; ledger and registry agree |
| Extension governor, runtime ledger | extension states, ledger rows | install/enable, append | partial failure between stages | stages in order |
| Console, connectors, validators, IDE tools | none that lasts | stateless analysis, I/O | - | not modelled |

Interactions.  The semantic fabric appends to the event bus after trust and
causality checks.  The shard coordinator counts the events of one partition and
recovers from the partition's tail.  The orchestrator takes a goal through its
gates and consults agents through the consensus gate, one by one or as a chain
whose traces go to a ledger; schedulers and recovery policies wrap such calls.
The interceptor stands between a coding agent and its model and shell; the agent
chain pipeline turns captured traffic into verified specifications.  Components share SQLite files, not memory; inside a process
threads share objects guarded by per-object locks.

`PROJECT.json` lists every component with its status, and every hazard with its
line and the properties that would catch it.

## 2. Modules

| Module | Models | Instance |
|---|---|---|
| `EventLog` | abstract: one append-only log per partition | refined by `EventBus` |
| `EventBus` | `EventBusStorage`, `DeterministicConsumer` | `MCEventBus` |
| `EventBus_proofs` | theorems about `EventBus` | TLAPS |
| `ShardCoordinator` | `ShardCoordinator` | `MCShardCoordinator` |
| `ShardCoordinator_proofs` | theorems about `ShardCoordinator` | TLAPS |
| `Scheduler` | `PiCognitiveExecutionScheduler` on a thread pool | `MCScheduler` |
| `Scheduler_proofs` | theorems about `Scheduler` | TLAPS |
| `Recovery` | `CircuitBreaker`, `ChainRecoveryPolicy` | `MCRecovery` |
| `Recovery_proofs` | theorems about `Recovery` | TLAPS |
| `AgentVerdicts` | the scoring rules agents share | used by the next two |
| `ContractAgents`, `PlatformAgents` | every micro-agent as the set of its outputs | used by `Agents` |
| `Agents` | the router's registry | used by `ConsensusGate` |
| `ConsensusGate` | the decision taken from three outputs | used by the next two |
| `Consensus` | `run_with_consensus` as threads | `MCConsensus` |
| `Consensus_proofs` | theorems about the registry and the gate | TLAPS |
| `Orchestrator` | `execute_goal`, `compile_chain`, `execute_chain` | `MCOrchestrator` |
| `Orchestrator_proofs` | theorems about `Orchestrator` | TLAPS |
| `Interceptor` | the proxy's endpoints, approvals and ledger | `MCInterceptor` |
| `Interceptor_proofs` | theorems about `Interceptor` | TLAPS |
| `AgentPipeline` | `PipelineDriver.run`, kernel, registry, validators | `MCAgentPipeline` |
| `AgentPipeline_proofs` | theorems about `AgentPipeline` | TLAPS |

A definition whose comment begins with "Mutant:" is a plausible bug of the
definition that follows it.  Nothing uses it; substituting it must break the
property `PROJECT.json` names.

### EventBus

A *storage* is one `EventBusStorage` object; its lock serialises its threads,
nothing serialises two storages.  `append` is two steps: `AppendRead` takes the
lock and reads the head (the SELECT runs outside the transaction, which Python's
`sqlite3` opens at the first INSERT even with `isolation_level="IMMEDIATE"`),
`AppendCommit` inserts the row and moves the head in one transaction, or
`AppendRollback` ends the call (constraint, busy database, exception, crash).
The unique constraints of the schema are `ConstraintsHold`.  A hash is the
content it covers.  Names are sequences of words because `event_id` joins them, and
distinct pairs of names may join to the same id.  A payload is its canonical text;
`Reloaded` is the text of what `json.loads` returns for it, which differs when the
payload has integer keys.

`consume` is a read of the checkpoint, a read of the batch, one step per handler
call, and the write of the checkpoint; `ConsumeAbort` may end it anywhere.

### ShardCoordinator

One step per acquisition of the coordinator's lock: `advance_sequence` is
`AdvanceCheck` (or `AdvanceFrozen`), `AdvanceCommit`, `AdvanceReturn`;
`recover_shard` is `RecoverRead` (the tail, under the other object's lock) and
`RecoverWrite`.  The bus is the length of each partition.  `Crash` ends a call
anywhere.  `before` remembers, in a call of `advance_sequence`, the numbers that had
been answered when it began; `recovered` the shards that `recover_shard` has written.

### Scheduler

One step per section under `_state_lock` and per call of the pool.  The pool is
external: a FIFO, `MaxWorkers` threads, futures that `cancel` affects until a
worker takes them.  `ScheduleSubmit` joins `queue.put` and `executor.submit`:
nothing reads the queue and the pool together.  `cancel_task` and the
cancellation loop of `run_speculative` share the steps that set the event and
cancel the future.  A task's outcome is `OK` or `FAILED` (an exception, or a
result that reports `success` False).  The counters of `get_stats`, incremented
without a lock, are left out.

### Recovery

One step per breaker method; the end of a `step_fn` call is the step that acts
on its outcome.  `consecutive_failures` saturates at the threshold (the code only
compares it with the threshold) and `opened_at` is kept as the ticks left of the
cool-off; so no bound on time or calls is needed.

### AgentVerdicts, ContractAgents, PlatformAgents, Agents

An agent is a function of its input text and of its strict flag.  Which regular
expression matches which text is left open, so an agent `PiX` is the operator
`PiX(s)`: the set of outputs it can return when its flag is `s`.  An output is the
verdict that `get_verdict` reads, the risk score and whether something was found.
Most agents score each pattern and fail from a threshold on; the few rules they
share (`Strictly`, `AtLeast`, `OverThirty`, `Always`, `Summed`) are taken from one
agent that has them, and each agent gives its own weights.  `Unpriced` marks the
agents whose output envelope drops the risk they compute.  `Routes01` to
`Routes25` are the registrations in the router's order: a name with its class,
`GenericStubAgent` for the playbook placeholders, which always pass.

### ConsensusGate and Consensus

`ConsensusGate` is the decision as operators: which runs agree, which of them
speaks, what risk is reported for the agents whose envelope has none, what the
strict flag overrules.  `Consensus` is the call: three runs in a pool (or in
sequence, or injected), a caller that collects them in order with a timeout, and a
with-block that joins the threads before an exception leaves it.  An injected run may
also be one its output class rejects, or be too few: the call then raises at once.
`Decisions` is the gate's contract for its callers: `AnswerAllowed` shows that the
threads of `Consensus` answer nothing else, and `Orchestrator` uses `Decisions` in
place of the threads.

### Orchestrator

`pc` is the next gate of `execute_goal`; one action per gate, one per exit.
`CoreStrict`, `ChainStrict` and `GateStrict` are the three readings of
`PI_ORCHESTRATOR_STRICT_MODE`.  `Templates`, `Explicit` and `Decomposed` are the
chains `compile_chain` can make; the text that leads to one is left open.  A chain
step is one action: the gate, the agent through `Answers`, the trace, the stop
rule.  `StepRaises` is any exception of the step.  The shields of a step look at the
previous output overlaid by the context, the agent's input is made of the context
overlaid by that output.  No output class has a field that a shield reads (`command`,
`cmd`, `content`, `proposed_content`, `source_code` and their synonyms) or that an
agent's input takes, so in both the payload is the caller's, which is what
`StepBlocked` looks at.

### Interceptor

The handlers of a server share one event loop, so the code between two awaits is
one step, except for the ledger, which other processes share: `LogRead` and
`LogInsert` are two.  `req[r].then` is what the handler does after its rows.
Reviews arrive at any time while a task is registered, also twice, and also
between the expiry of the wait and its handling.  Scores keep the thresholds of
the code (41, 70, 71) and risks are in hundredths; an injection scores 90, 95 or 99.
`OperatorRefuses` is the operator check in front of every endpoint but the chat's.

### AgentPipeline

One action per commit: the kernel's mediation of a node and the row it stores are
one step, a crash may come between any two.  Ids are content hashes, so the same
traffic gives the same ids in each run; `captured` is the run that stored a row.
`find_artifact_by_id` is the set of rows the scan may return, since a promoted copy
keeps its original's time.  `Walk` follows parents as the closure check does.  The
kernel's `execute` is a function of the worker, the two states and the output.  The
validators' verdicts are a choice among those their rules can give; a state machine
with any violation is CONTESTED, and the rules about its edges need two endpoints.

The ledger is a file.  The registry is in memory unless the driver is given a path,
which neither command line does (`pi_agent_chain/cli.py`, `pi_console/cli.py`); the
tests do.  `registry_path` is either, and `ProcessEnds`, by `Exit` between runs or by
`Crash` within one, empties a registry in memory.

## 3. Runs

| Run | Instance | Shows |
|---|---|---|
| `bus_append` | 2 storages, 2 partitions, 2 tenants with joined names, 2 payloads, 1 epoch, 3 events | `ChainIntact`, `HeadMatchesEvents`, `GlobalOrderAgrees`, `OnlyStaleAppendsRefused`, refinement `ImplementsLog` |
| `bus_consume` | 2 workers of one consumer filtered by tenant, batch of 2, 3 events | `NothingSkipped`, `DeliveredInOrder`, `EveryEventConsumed` |
| `shard_callers` | 3 callers, one of which also recovers, 1 shard, 2 events | `NoAdvanceLost`, `CheckpointsReached`, `NumbersFollowCalls`, `SequenceWithinEvents` |
| `shard_checkpoints` (violation) | 2 callers, no recovery | `CheckpointsMonotonic`: two callers write checkpoints that go back |
| `scheduler_tasks` | 2 callers, 3 tasks, 2 workers, threshold 1, 1 cancellation, shutdown | `BackpressureBound`, `CancelledNeverExecuted`, `OnlyCancelledLeak`, `EveryFutureResolves` |
| `scheduler_branches` | 2 branches on 1 worker, 1 task always degraded, cancellation, shutdown, timeout | `PeersUndisturbed`, `VerdictFaithful`, `SpeculationReturns` |
| `recovery_breaker` | 3 threads, 2 steps, threshold 2, cool-off 2, 1 retry | `TripsAtThreshold`, `OpenLastsCoolOff`, `ExecuteReturns`, `OpenIsProbed` |
| `consensus_gate` | 13 agents: those the gate names and one of each family; pool, sequence, injected runs | `AnswerAllowed`, `MajorityCarries`, `HighRiskFailsClosed`, `NoRunOutlivesCall`, `CallEnds` |
| `orchestrator_goals` | one goal; every playbook, chains of 2 and 3 of 4 agents, one target per distinct set of outputs and side of the exemption list; every value of the flags | `StrictNeverPassesRisk`, `ChainSuccessComplete`, `PayloadsScreened`, `NoAgentAfterAlarm` |
| `interceptor_requests` | 2 requests of any kind on one server, 3 prompts, 3 command scores, 2 reviews per request, windows of 1 | `ApprovedByReview`, `ApprovalsCleaned`, `ExecutedIsLogged`, `EveryRequestAnswered` |
| `pipeline_runs` | 3 runs over no, one or two pairs of 3 contents, registry in memory or in a file, exits and crashes, 5 claims, 1 machine node | `VerifiedRestsOnSettled`, `ValidRowsBacked` |
| `pipeline_pairs` (violation) | 1 run | a run over two pairs asks for a transition the table does not have |

Bounds.  Three events on two partitions are enough for a second storage to read a
head, be overtaken, fail, and for a chain of three links to exist.  Tenant `a` in
partition `b_c` and tenant `a_b` in partition `c` have the same ids, and one of the
two payloads does not survive JSON.  In
`bus_consume` a batch is smaller than the log and other tenants' events can fill
a page.  Three callers make a lost update, an overtaken checkpoint and a frozen
check visible on one shard, and let two advances race one recovery.  A pool smaller than the number of tasks lets a
cancellation find a task pending, taken, executing and finished; a second
canceller only repeats what one does.  With three threads in `Recovery` a breaker
can be opened by two while the third is still inside.

Consensus always has three runs; its subjects are the agents the gate names and one
agent of each scoring rule.  `MCTargets` is not a sample: an agent outside it has the
same outputs, and is on the same side of the exemption list, as one inside.  Chains of three contain a scanner that alarms, the healer after it and
the publisher last.  Two equal requests are what the UNIQUE constraint of the
interceptor's ledger could merge, two reviews are what can contradict each other,
and the windows are small enough for a request to be refused.  Two of its three
prompts are clean and as far from their goal as can be (risk 40), one of them bloated
and with a key that is refused; the third is an injection.  The commands are those of
which one passes, one goes to the reviewer and one is blocked.  Three runs of the
pipeline let one be cut off by a crash, a second repeat its traffic and a third
see both in the quorum.  The theorems remove the bounds for what they cover.

`CHECK_DEADLOCK FALSE` appears where the system stops by itself: the tasks are used
up, the call has ended, the goal is answered, the requests are answered, the runs
are over.

### What the runs delimit

The bus.  `consume` writes its checkpoint after the handler calls of a batch and two
workers of one `consumer_id` are not excluded, so delivery is at least once; the
docstring says exactly-once (`bus/core.py:678`).  `event_id` joins tenant and partition
with a character both may contain (`bus/core.py:396`): an append that nobody overtook
is refused when another partition's event has its id, and `OnlyStaleAppendsRefused`
says that this happens then, and only then.  An event whose payload has integer keys
that sort differently as strings (2 and 10) fails `verify_partition_chain` although
nothing was tampered with (`bus/core.py:26`); `ChainIntact` says that no other does.

The shard coordinator.  Two overlapping advances may be answered the same number
(`ordering/shard.py:348`), so `NumbersFollowCalls` orders calls that do not overlap.
Checkpoints written by two callers need not be in order (`shard_checkpoints`).
`recover_shard` writes a tail it read earlier: from then on the sequence is neither
the number of advances nor monotonic, and the first three properties of
`shard_callers` speak of shards that have not been recovered.  `SequenceWithinEvents`
covers recovery: an advance under way comes on top of the tail that was written, so
the sequence can be ahead of the events, but by less than the number of callers
(`Slack`), however often recoveries race.  With one caller, or without recovery, it is
never ahead.  An advance that passed its frozen test before an epoch still moves the
frozen sequence (`ordering/shard.py:318`), and `establish_epoch` freezes only shards
that have a row.

The scheduler.  A task that is cancelled before its function is entered leaves its
cancellation event behind (`scheduler.py:255` returns outside the `try`), which is
why `OnlyCancelledLeak` excludes it.  Nothing is ever taken from the priority queue
(`scheduler.py:148`), so `BackpressureBound` counts the tasks of a lifetime.  A
timed-out `run_speculative` reports success for whatever completed, and `True` if
nothing did; a degraded task's future reports `success: True` where the
repository's README says `success=False` (`README.md:411`, while
`test_cognitive_os_substrate.py` asserts `True`).

Recovery.  With several threads, `half_open` admits every caller, a late success
closes an open breaker before its cool-off, and retries go on while it is open;
the properties that hold regardless are the ones checked.

Consensus and orchestrator.  An agent has one envelope class and a Boolean verdict,
so three real runs score at most 50 of the 60 the divergence alarm needs: the alarm
is reachable with injected runs only.  With the flag unset the gate's own overrule
is off, and what keeps a high risk from passing is the strict gate on the single
route and the engine's stop rule in a chain.  A tripped spend breaker does not stop
a goal: `check_request` returns a status that `core.py:227` does not test.

The interceptor.  Without an injection the risk of a chat is at most 40
(`proxy.py:467`) and the approval gate starts at 41, so drift and entropy alone are
never reviewed.  `_SURPLUS_KEY_RE` asks for more characters than the keys the
server issues have, so metering is not reached.  The response is cached before its
reasoning is scanned.  The webhook goes out before the task is registered, so an
answer that is quicker gets a 404; the timeout then ends the wait.  Only commands reach
the reviewer; were a chat to, it could be approved and still refused for its key
(`proxy.py:619`), which `ApprovedByReview` allows for.  `ExecutedIsLogged` holds in one process only: two
servers on one file can read the same last hash, equal rows then have equal hashes,
and the second IntegrityError is passed over (`proxy.py:344`).

The pipeline.  `CANONICAL_TRANSITIONS` has no rule from a state to itself, so
only runs over exactly one pair can succeed (`pipeline_pairs`); an empty list is
halted too.  A CRITICAL state machine makes the driver read `auth_report.passed`,
which does not exist.  The auth validator has no CRITICAL rule, although the driver
halts on one.  The halt for unfrozen endpoints writes no ledger row.  The quorum
counts the traces of every earlier run in the registry and their promoted copies.
With a registry in memory a valid row of the ledger outlives the artifacts it speaks
of (`pipeline.py:69`): `ValidRowsBacked` asks for a returned success always, and for
the verified graph and specification while the registry is there.  Because a second
pair is refused, one endpoint at most reaches the state machine in `pipeline_runs`,
and the rules about edges have no case there; the theorems cover them.

## 4. Fairness

* `EventBus!Fairness`: a call in progress ends (SQLite has a busy timeout), a
  worker inside `consume` goes on, callers poll.  Strong fairness where a step
  needs the storage's lock: appends release it between calls, and a waiting
  thread gets it in time.  `EveryEventConsumed` is conditional on handlers that
  stop failing.
* `Scheduler!Fairness`: a thread inside a scheduler method or the wrapper goes
  on, a free worker takes work, the clock reaches the timeout.  `execute_fn` is
  *not* assumed to return; `EveryFutureResolves` has that as its hypothesis,
  `SpeculationReturns` does not need it.  Nobody has to call anything.
* `Recovery!Fairness`: the clock moves and `step_fn` ends.  `OpenIsProbed` has as
  hypothesis that some thread keeps calling the step.
* `Consensus!Fairness`: an agent's run ends (agents are pure functions of a text)
  and the caller goes on.  That runs end is needed: after a timeout the with-block
  waits for them without a bound.
* `Interceptor!FairSpec`: the event loop serves a request that can go on.  Each await
  has a timeout (300 s for a review, 60 s for the provider), so some step of a
  waiting request is always possible; reviewers need not answer.

`Orchestrator` and `AgentPipeline` are sequential and have no liveness property.

## 5. Proofs

`EventBus_proofs` proves, for any number of storages, partitions, tenants,
consumers, workers and events:

* `TypeCorrect`;
* `StorageInvariant`: `StorageInv` is inductive.  `HeadMatchesEvents` alone is not:
  the step that matters is a commit based on a head read earlier.  `PendingBehind`
  says such a head is not ahead of the current one and carries its hash when it
  is level; the unique constraint on the offset rules out the rest.  `RowsLinked`
  states the chain by offset, `EmptyHeads` covers the first event, `GlobalBound`
  gives the new row the largest global offset;
* `ChainCorrect`, `HeadsCorrect`, `GlobalOrderCorrect` and `RefusalsCorrect` follow,
  the last for any names, whether or not they join to the same words;
* `ConsumersCorrect` (`NothingSkipped`) and `DeliveriesOrdered`
  (`DeliveredInOrder`), through `WorkersCover`: what a worker in the middle of
  `consume` may rely on;
* `BusImplementsLog`: every step is an append to one log or a stutter.

`Scheduler_proofs` proves, for any sets of callers and tasks, any pool size and
any threshold:

* `SchedulerTypeCorrect`;
* `BackpressureCorrect` (`BackpressureBound`).  The queue length alone is not
  inductive: a caller that passed the check has not put its task yet.
  `OvershootInv` counts those callers too: the queue plus the admitted callers stays
  below the threshold plus all callers;
* `CancellationCorrect` (`CancelledNeverExecuted`), from `TasksInv`: what the event,
  the future and the worker of a task tell about each other at each step of the
  cancellation and of the wrapper;
* `LeakCorrect` (`OnlyCancelledLeak`), from `LeakInv` on top of `TasksInv`: a task
  that was entered and whose wrapper has returned is not registered, and no step
  registers a task that was entered;
* `VerdictCorrect` (`VerdictFaithful`) and `PeersCorrect` (`PeersUndisturbed`), from
  `SpeculationInv`: a finished branch has its result (`OutcomeInv`), what the parent
  collected is final (`CollectInv`), and before a timeout only `cancel_task` cancels
  a branch (`DisturbInv`).  The last is what makes the other two inductive: the
  parent's own cancellation loop starts after its wait.

`ShardCoordinator_proofs` proves, for any shards, callers and numbers of events:

* `TypeCorrect`;
* for shards that have not been recovered, and callers that interleave and die:
  `AdvancesAtomic` (`NoAdvanceLost`), `CheckpointsBounded` (`CheckpointsReached`) and
  `NumbersOrdered` (`NumbersFollowCalls`), from `AdvanceInv`.  It adds what a call in
  progress relies on (`CallInv`): a sequence read for a checkpoint has been reached,
  and the commit of an advance goes past every number answered before it began;
* with any number of recoveries: `SequenceBounded` (`SequenceWithinEvents`), from
  `PendingInv`: the sequence plus the advances still to come stays within the events
  and the slack, and a tail that a recovery holds has been reached.

`CheckpointsMonotonic` is not a theorem: `shard_checkpoints` refutes it.

`Recovery_proofs` proves, for any number of threads and steps and any threshold,
cool-off and retries: `BreakerTypeCorrect`, `TripsCorrect` (`TripsAtThreshold`) and
the action property `CoolOffCorrect` (`OpenLastsCoolOff`).

`Orchestrator_proofs` proves all four properties of `Orchestrator`, for any agents,
chains of any length and any answer of the consensus gate: `RiskCorrect`,
`ChainsComplete`, `ScreeningCorrect` and the action property `AlarmCorrect`.  The
invariant `OInv` adds to the properties how far the counters are at each stage
(`Progress`), what the gates passed so far tell about the payload (`Passed`), and
that an open goal of a strict orchestrator has no receipt of high risk (`Calm`).
`Calm` carries the chain exit, which has no gate: it is kept because the engine
stops at the first such receipt and is strict whenever `execute_goal` is.  Nothing
about the agents is used.

`Consensus_proofs` proves the safety properties of the gate for every registered
agent, where TLC takes 13:

* `RegistryFailsClosed`: each of the 248 registrations returns Boolean verdicts and,
  with its flag strict, fails a vulnerability it scores 80 or more.  One lemma per
  scoring rule, one per agent that has its own, and one per group of registrations;
* `GateInvariant`: `ConsensusInv` is inductive.  `CollectInv` says that the caller is
  past exactly the runs that produced an output, `ResultInv` that the call ended
  with an exception, or with a decision on three outputs that can no longer change;
* `RunsJoined` (`NoRunOutlivesCall`), `MajorityDecides` (`MajorityCarries`),
  `HighRiskStopped` (`HighRiskFailsClosed`, from `RegistryFailsClosed`: of three runs
  two pass and two alarm, so one would do both) and `AnswersAllowed`
  (`AnswerAllowed`), which is the step from the threads to the contract
  `Orchestrator` uses.

`Interceptor_proofs` proves, for any number of servers, requests, prompts, scores and
limits:

* `InterceptorInvariant`: `InterceptorInv` is inductive.  To the tables it adds
  `ReviewInv`: the entry of a waiting request is the last review acknowledged for
  it, and where a request is heading, the rows it still writes included, is where
  that review sent it;
* `InterceptorTypeCorrect` (rate windows within their limits, rows that match the
  answer they precede), `TablesClean` (`ApprovalsCleaned`) and `ReviewDecides`
  (`ApprovedByReview`);
* for one server process (`OneProcess`): `LedgerInvariant` and `ExecutionsLogged`
  (`ExecutedIsLogged`).  `ChainInv`: the ledger is one chain of different hashes and
  the request about to insert is the only one and holds the chain's end; so the hash
  of its row is new (`HashFresh`) and the UNIQUE constraint drops nothing.
  `CountInv` then counts rows against executions.  The hypothesis is the run's, and
  is needed (section 3).

`AgentPipeline_proofs` proves, for any number of runs over any traffic, with exits
between runs and crashes between any two commits, on a registry of either kind: `PipelineTypeCorrect`, `ProvenanceCorrect`
(`VerifiedRestsOnSettled`) and `LedgerCorrect` (`ValidRowsBacked`).  `PipelineInv`
adds that runs are numbered by the clock (`ClockInv`), that the parents of what a run
derived follow from its input (`LineageInv`), and what a run has stored by the stage
it is in (`ProgressInv`): the promotions go from the traces to the specification, so
a row is promoted after its parents.

Assumptions on the constants are the `ASSUME`s of the modules; TLC evaluates them
in every run.  Type correctness is proved, not a property of a run; the inductive
invariants were checked with TLC on the instances of the runs before they were
proved.  Every safety invariant and action property of the passing runs is stated by
a theorem.  Model-checked only: liveness under fairness (`EveryEventConsumed`,
`EveryFutureResolves`, `SpeculationReturns`, `ExecuteReturns`, `OpenIsProbed`,
`CallEnds`, `EveryRequestAnswered`), which is out of the prover's reach.

## 6. Not modelled, and the plan

The components of section 1 without a module, for the reasons in `PROJECT.json`.

Theorems still worth stating: that the overtaken answers of `advance_sequence` are at
most as many as the overlapping calls; `ChainInv` of the interceptor for servers whose
payloads differ; that `Consensus` implements the one-step gate of `Orchestrator` as a
refinement and not only in its answers.

Models, in order:

1. `AuditLog` (`pi_production/storage/engine.py`: the last hash in memory, threads,
   restarts), refining `EventLog` where it does.
2. `Checkpoint`: save, load with expiry and delete; composed with `Recovery`.
3. `MeshKernel`: dispatch, receipts, phase barrier; tenant quota and leases.
4. Algorithms against reference definitions: cross-shard merge, migration graph,
   replay bisection.
5. Composition of the semantic fabric with `EventBus`.

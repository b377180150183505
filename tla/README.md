# Verification of Quest Engineering

TLA+ models of the parts of Quest Engineering that decide what is executed, where, how
often and with what result: the semantic Runtime that interprets a compiled Tactic, the
PostgreSQL authority of the server for one launched Run, the connections of a Worker, and
on the Worker its dispatch registry and executor, its session, the execution environment
with the processes streamed through it, the workspace of a Run from its first export to
its Delivery and removal, the native harness with its prompts, questions, results and
sign-ins, and the client that watches all this. TLC checks the models on small instances;
TLAPS proves the invariants of the server, of the Worker and of the client for every plan
and every bound, as far as section 4 says.

`PROJECT.json` maps every definition to the lines it models and lists the runs, their
mutants, the hazards, the findings and the theorems.

## 1. The system

A Quest is launched with a Squad and a Tactic; the Tactic (`Step`, `Sequence`,
`Parallel`, `Until`) is compiled into an immutable execution plan; the Runtime turns the
plan and external events into execute-step *actions*; the server schedules the actions on
a Worker, which runs each in the Run's execution environment with an agent harness and
reports facts back; when the Run completes, its Git changes are delivered as a pull
request.

| Component | Where | State it keeps | Operations |
|---|---|---|---|
| Compiler | `core/compiler` | none (pure) | lower a Tactic, contract rules, region outputs and carries |
| Semantic Runtime | `core/runtime.ex` | the Run: occurrences, scopes, regions, artifacts (a pure value) | `start`, `transition` with completed, failed, retry and recovery events |
| Runtime persistence | `server/runtime_store.ex` and codecs | `runtime_runs`, `runtime_outbox`, transitions | apply a transition and emit its actions in one transaction, replay an applied one |
| Dispatch ledger | `dispatch_store.ex`, `completion_adapter.ex` | `worker_dispatches`, `workers.active_dispatches` | accepted, running, completed, failed, cancelled, uncertain |
| Scheduling | `scheduling_store.ex`, `dispatcher.ex` | `scheduled_action_executions`, Member and context bindings, slots | claim, deliver |
| Cancellation, uncertainty | `execution_cancellation.ex`, `execution_recovery.ex` | cancellation and resolution columns | request cancellation, retry or fail an uncertain attempt |
| Operational recovery | `operational_recovery.ex` | epochs, attempt attributions, recovery requests | failure policy, fresh and retained recovery, finalization |
| Worker connections | `worker_channel.ex`, `worker_connections.ex`, `worker_store.ex` | the `workers` row, binding rows; routes and monitors in memory | join, register, reconcile bindings, activate, supersede, DOWN, disconnect, ready |
| Reconciliation | `reconciler.ex`, `worker.ts` | the rows of both ledgers | compare the Worker's durable facts with the server's when it connects |
| Worker registry and executor | `bun/src/dispatch` | `dispatches.sqlite`; the promises of the executor | accept, prepare, authorize, prompt, collect, report until acknowledged, cancel, retire, recover |
| Worker session | `bun/src/worker.ts`, `phoenix-channel.ts` | generation, readiness, coroutines | register, reconcile twice, become ready, claim, stop |
| Harness control | `harnesses/control` | requests and completion files on disk; contexts and waiters in memory | bind, ask, wait, answer, deliver; accept, export, publish a result |
| Harness adapters | `harnesses/*`, `session-host` | submission and transport records, native sessions | prepare, prompt, continue, recover, collect |
| Execution environment | `execution-environment/sbx-*`, `store.ts` | environment rows and stop events | ensure, adopt, stop, recover, remove, run, spawn |
| Streamed processes | `streamed-process.ts`, the relay | attachment, buffers, pending writes | spawn, write, read, cancel, retire |
| Run environment, private Git | `sbx-run.ts`, `private-git.ts` | lineage worktrees, checkpoints, exports, host worktree | prepare, checkpoint, export, import, discard, restore |
| Run worktrees and cleanup | `run-worktrees.ts`, `run-cleanup*.ts` | worktree and cleanup rows | provision, retain, remove harness, environment, repository |
| Delivery | `delivery*.ex`, `run-delivery.ts` | the Delivery row; branch and pull request | inspect, publish, create, observe, retry |
| Workspace tool broker | `workspace-tool-broker*.ts` | sessions, requests | prepare, admit, execute, cancel, retire |
| Provider accounts, harness setup | `provider-account*.ts`, `harness-setup*.ts` | login attempts, setup rows | launch a login once, cancel, reconcile, validate |
| Catalogue, launch, HTTP | `product*`, `launch*` | definitions and projections | store, read, validate |
| Clients | `client/src`, `client/src-tauri` | projections, channels; attached terminals | select, command, follow; attach, detach |

**How they interact.** All authority is in PostgreSQL. A Worker fact arrives at a channel
process, is fenced by the *connection generation* of that channel, and in one transaction
changes the dispatch, the schedule, the Runtime snapshot with its outbox, and the cached
occupancy. Operators act on the same rows through the API. The routing process
(`WorkerConnections`) is memory only. On the Worker every subsystem keeps its own SQLite
or JSON store, and they call each other: the executor prepares a lineage's worktree, starts a
harness, has the control authority accept its result, exports the work, and reports; the
session carries reports and commands; cleanup takes what the others left.

**What is hard.** Parallel steps report in any order while remediation loops nest.
Several channels of one Worker live at once. Facts are late, repeated or contradict each
other; an operator's decision races them. An attempt whose outcome is unknown
(*uncertain*) keeps its slot, Member and context and must not be executed twice. The
Worker is one JavaScript thread in which everything happens between two awaits: what was
read before an await is stale after it, a promise outlives the connection or the command
that started it, and a crash may come between any two durable writes. External programs
(sandboxes, native harnesses, Git providers) do what they were asked without saying so.
`PROJECT.json` lists the hazards at their lines.

**What makes each component correct** is the property list of section 3.

## 2. The modules

```
RunLifecycle <--implements-- Runtime       <-- MCRuntime
     ^
     +-------implements----- ControlPlane  <-- MCControlPlane, ControlPlaneProofs
                              | extends                         ^-- ControlPlaneResources
                             WorkerRow
                              ^ implements
                             Connections   <-- MCChannels, ConnectionsProofs

Worker       DispatchExecutor (extends DispatchRegistry), WorkerSession
             RunSettlement composes the worktree and the dispatch step of a registration
Environment  SbxEnvironment, StreamedProcess
Workspace    RunExport, WorkspaceToolBroker, RunDelivery, RunCleanup
Harness      HumanAttention, StructuredCompletion, AntigravityPrompt, ClaudeSdkTurns,
             AccountSetup, HarnessSetup
Client       ClientRuns, LocalObservation            (MCChannels, with Connections)
```

Each of the last five is a *composition module*. It declares the constants and variables
of its components, instantiates them, and names their properties; `MCWorker` and
`WorkerProofs` both extend `Worker` (and so on for the others), so that a run and a
theorem speak of the same definition.

Two abstract specifications join the three detailed ones of the server. `RunLifecycle`
is what the Runtime promises and all that the control plane needs from it: which
occurrences may be completed, retried or failed, and what each does to the Run.
`WorkerRow` is what the connection code promises about the `workers` row. `ControlPlane`
uses `WorkerRow` as its model of connections, and `Connections` is shown to implement it,
so what is established about the control plane holds for the connections as they really
interleave.

The modules of the Worker and of the client are each a specification of their own, with
their own environment. Where one subsystem relies on another, the module's header says
what it takes from it (RunCleanup takes a stop that crosses the provider once from
SbxEnvironment; ClaudeSdkTurns takes acceptance of a result from StructuredCompletion).
They share no variable, so a run of several of them need not interleave them: in the MC
module `Init` chooses a `case` - a component and its bounds - and the others stay in their
initial state, in which their properties hold. The constants of a composition get their
values in the cfg; where one component is checked under a second set of bounds, the MC
module instantiates it again (`Contended`, for a cancelled and retired Attempt; `Lone`, for
one under every fault). `MCChannels` checks the connections and the client this way.

### Runtime (`core/runtime.ex`)

The Run is a record of sequences (`occurrences`, `scopes`, `regions`, `artifacts`); ids
that the code makes from counters are positions. `transition` is the whole handler of an
event followed by `advance` to its fixpoint; operators carry the names of the code's
functions and return `Ok(...)` or `Refused` where the code returns `{:ok, ...}` or
`{:error, ...}`. `outbox` is every action emitted so far. The actions are the four
events: `StepCompleted` (with any well-formed verdict where the step judges),
`StepFailed`, `StepRetryRequested`, `StepRecoveryRequested`. Documents are reduced to
kind, producer, version and what they supersede; text is left out.

### ControlPlane (ledger, scheduling, cancellation, recovery)

One Run, one Worker: the Worker on which the Run's worktree lives. `db` is what the
handlers of facts and decisions change: the Runtime snapshot reduced to its lifecycle,
the dispatch rows, the schedule states and the cached occupancy; the handlers
(`acknowledge`, `mark_running`, `mark_completed`, `record`, `cancel`, `mark_uncertain`,
`resolve_uncertain`, `retire_uncertain_schedule`) are operators from database to
database. The other variables are the slots, Member and context bindings, epochs and
attributions.

An action of the model is one database transaction. A transaction that the code rolls
back changes nothing and is not a step. Which occurrences come after which is the
constant `Needs`, and the Run completes with its last occurrence; whether a completion
exhausts an Until and so fails the Run is a choice of the completion, because the plan
decides it and `Runtime` models the plan. Nothing is assumed of the Worker: any fact may
arrive from any live channel at any time, any number of times.

The scheduler may claim any schedulable action; the code scans in emission order, so its
choices are among these. Left out: capability matching, harness setup, the wait for the
worktree, prompt authorization, adoption of a process that was not prompted yet, the
retention of the worktree and the delivery that a terminal Run triggers, the operator's
same-epoch retry of an attempt that was not prompted, and the earlier-format writers of
bindings.

### WorkerRow and Connections

A channel is named by its generation and goes through `joining` (registered; reconciling
advertised bindings one transaction at a time), `reconciled`, `calling` (its `activate`
call is in the mailbox of the routing process), `active`, `superseded` (told to stop) and
`dead`. `seen` is `last_seen_generation` of the available bindings, `route`, `refs`,
`calls` and `downs` are the state and the mailbox of the routing process. The report of
a binding is two steps, `ReportBinding` (the heartbeat that fences it) and
`RecordBinding` (the write, which is not fenced), as in the code. `RoutingRestarts`
empties the routing process, `ServerRestarts` ends every channel; the rows stay.

### The Worker

One action is the code between two awaits; an `async` method is a phase of a coroutine
(`pc`, `op`, `at`, ...), and every fence the code has after an await is a conjunct of the
action after it. A restart keeps exactly what the code has written to a store and drops
the rest. A refused or failed call is an action of its own.

- **DispatchRegistry / DispatchExecutor** (`dispatch/registry.ts`, `executor.ts`). The
  registry's transactions are operators on its rows, `can_...` their refusals. Five
  operations per action run concurrently as threads: the execution, the prompt gate
  monitor, and the handlers of `authorize_prompt`, `cancel_dispatch` and
  `retire_dispatch_for_recovery`. The native harness and the server's row are external.
- **WorkerSession** (`worker.ts`, `protocol/phoenix-channel.ts`). A generation per
  local connection; registration, state reconciliation, its publication, readiness, claims
  and authorized turns are coroutines that keep running after their connection is lost,
  until their next fence.
- **RunSettlement** (`worker.ts`, `run-worktrees.ts`, `reconciler.ex`). The worktree step
  of a registration, which requires settled dispatches, and the dispatch step, which
  settles them.
- **SbxEnvironment** (`sbx-backend.ts`, `store.ts`, `sbx-client.ts`). The row of one owner
  with the events of its stop attempts, the sandbox of the deterministic name, and the
  lifecycle and lease operations of two processes over one store.
- **StreamedProcess** (`streamed-process.ts`, `sbx-streamed-process.ts`, the relay).
  One attachment with serialized writes, one cancellation, bounded output and retirement,
  and the relay at the other end of two pipes.
- **RunExport** (`sbx-run.ts`, `private-git.ts` and stores). Private worktrees of
  lineages, checkpoints, verified exports and their import into the host worktree; a tree
  is the set of the edits it holds.
- **WorkspaceToolBroker** (`workspace-tool-broker.ts` and store). Sessions of one Action
  and the steps of every tool request on them, with cancellation, timeout, loss and
  restart.
- **RunCleanup** (`run-worktrees.ts`, `run-cleanup*.ts`). Provision, retain and
  remove commands that arrive in any order, the cleanup pass over harness, environment and repository,
  and the scan that resumes it after a restart.
- **RunDelivery** (`delivery_store.ex`, `delivery_coordinator.ex`, `run-delivery.ts`).
  Store, coordinator, Worker, provider and user of one Delivery. A command is sent on every
  poll; at most `|Jobs|` of them are handled or unread at once.
- **HumanAttention / StructuredCompletion** (`harnesses/control`, `registry.ts`). A
  question of an Attempt from the native wait to the durable request, the answer and its
  certainty; a result from the tool call over acceptance, export and verification to the result file; context
  rotation and restarts under both.
- **AntigravityPrompt, ClaudeSdkTurns**. How two adapters get a prompt into a native
  session exactly once, and what they make of it after a restart.
- **AccountSetup, HarnessSetup** (`provider-account-setup.ts`, `provider-account.ts`,
  `harness-setup.ts`). The one login process of an account and of a Run-bound setup.

### The client

**ClientRuns** (`app-store.ts`, `active-run-tracker.ts`, `realtime/client.ts`): a projection is the version
of the Run it was read at; a GET is answered by any version since it was sent.
**LocalObservation** (`app-store.ts`, `src-tauri/main.rs`): the local terminal of a session, from the
store over the native registry to the launcher and its attach client.

## 3. Model checking

| Run | Cases and bounds | Shows |
|---|---|---|
| `runtime` | three plans. `review`: implement; Until review accepts, otherwise repair, at most 2; ship; docs beside it; 1 retry. `nested`: the remediation contains an Until that is tested and debugged. `revision`: the remediation is an Until that revises the outer document | `CompletionsAreNeverRefused`, `AcceptedSubjectIsReleased`, `InputsAreOfThisIteration`, `VersionsNeverFork`, `ContinuationsAreResolved`, `ImplementsLifecycle`, `RunTerminates` |
| `control_single` | one occurrence, 3 attempts, allowance 2, 2 registrations, every failure and uncertainty | `OneLiveAttempt`, `StoresAgree`, `CancellationIsFinal`, `AllowanceHolds`, `FactsAreFenced`, `NeverDuplicatedAutomatically` |
| `control_pair` | two parallel occurrences, 2 slots, 2 Members, 2 attempts | `ResourcesAreExclusive`, `ImplementsLifecycle` |
| `channels` | `connections`: 3 registrations, 1 binding, 1 restart of the routing process. `two`: two Runs of 2 versions, 2 selections. `single`: one Run whose 3 versions are announced and fetched in every order. `observation`: 2 openings, 2 detaches | `UsableBindingsAreTold`, `OneActiveChannel`, `ImplementsRow`, `InterestHasItsChannel`, `AnnouncedChangesAreFetched`, `OverIsShown` |
| `worker_executor` | `contended`: a gated Attempt with activity before its prompt, cancelled, authorized again, retired. `executor`: a second Attempt recovers from the first, every fault. 1 crash, 1 human recovery | `PromptedAtMostOnce`, `OneDriverPerLineage`, `AcknowledgedOrWithdrawn` |
| `worker_session` | `lone`: a gated Attempt, every fault, cancelled, 1 crash, 1 disconnection. `executor`: two unrelated Attempts, retired for a recovery, 1 disconnection. `session`: 2 generations, 1 message | `ReadyIsReconciled`, `AcknowledgedUnlessContradicted`, `EventuallyReady` |
| `environment` | `crashing`, `replacing`: two processes, 2 rows, 1 or 2 sandboxes, 1 stop, 1 or 0 crashes. `output`, `both`, `input`: 1 chunk per stream, buffers of 1, 0, 1 or 2 writes | `NoOrphanedSandbox`, `StreamsAreComplete`, `CertaintyIsTrue` |
| `workspace` | `export`: 3 actions in 2 lineages, 2 edits, 2 incarnations; `restarted`: 2 actions, 1 restart. `cleanup`: 3 commands, 2 restarts. `delivery`: 2 commands at once, 2 changes. `tools`: 2 requests over 2 sessions; `connected`: 1 request, 2 connections | `VerifiedWorkIsKept`, `RepositoryGoesLast`, `CompletedWorkWasPublished`, `MutationsAreAccountedFor` |
| `harness` | `attention`: 2 requests, 4 bindings, 2 restarts. `completion`: 3 bindings, 1 restart, 2 stop enforcements. `antigravity`: 2 Attempts, a human at the keyboard, 2 processes, 2 restarts. `claude`: 3 Attempts, 5 wrappers, 3 restarts. `account`, `commands`: 2 cancellations or 3 commands, 1 restart. `setup`: 6 commands, 2 restarts | `AnswerDeliveredAtMostOnce`, `OneResultPerAttempt`, `RefusalHadNoSideEffect`, `OneWrapperPerSession`, `LoginIsUndisturbed`, `LoginBegunAtMostOnce` |
| `reconciliation` | the two Attempts of `worker_session` alone | violates `AcceptableFactsAreAcknowledged` |
| `control_uncertain` | one occurrence, 2 attempts, uncertainty and fresh recovery | violates `UncertaintyIsResolvable` |
| `run_settlement` | one Run, 2 dispatches, 1 restart, 1 lost connection | violates `EventuallyRegistered` |

What they say, beyond their comments in the modules:

- **Runtime.** A report that follows the protocol is applied, in whatever order parallel
  steps report; a step reads the revision of its own iteration; what an Until releases is
  the very version its verdict accepted; documents have one latest version;
  conversations that a plan continues are found across region boundaries; a Run whose
  work is reported ends.
- **Control plane.** One attempt of an occurrence is alive, whatever retries, recoveries
  and operators do at once; dispatch, schedule and Runtime agree after every fact; only a
  requested cancellation cancels, and a requested one never turns into something else; an
  epoch is charged no more attempts than its allowance; slots, Members and contexts are
  not shared; an old connection cannot change what a newer one has moved on.
- **Worker.** A prompt is sent at most once over crashes and recoveries; one Attempt at a
  time drives a native process. What is marked acknowledged is what the server recorded,
  or it is a completion that was withdrawn (by a retirement, or by activity before the
  prompt) and that the server has as a failure which names no reason. Every terminal fact
  is acknowledged in the end, unless the Worker is away and holds an outcome that the
  server contradicts: then no reconciliation succeeds, and the facts of other Attempts
  stay unacknowledged with it (`reconciliation`, below). A Worker is ready only on the
  connection that reconciled it; the session becomes ready again after every loss if its
  messages are answered and its turns end.
- **Environment and workspace.** No sandbox is left that no row can remove; output is
  delivered whole and in order to a slow reader; a write that is called certain was
  applied and one that is called unsubmitted was not; what was exported and verified is
  in every later export; a mutation whose process may have had its input is never
  recorded as rejected; the host repository is removed after sessions, environment and
  uncommitted work are gone; a completed Quest has a merged pull request with the content
  that was published.
- **Harness and client.** An answer reaches its native wait at most once, an Attempt
  publishes one result, a prompt reported as refused had no effect, one wrapper drives a
  session, one login runs at a time and its environment is left alone; the client shows
  as over what is over, holds exactly the channels it needs, and fetches what was
  announced during a fetch.

Every property has a mutant, a plausible slip in a mapped definition (a dropped fence, an
off-by-one in an allowance, a forgotten refresh, a status that is trusted before it is
read again), under which TLC finds it violated. The mutated forms stand before the
definitions they mutate, marked `Mutant`; nothing uses them.

**Bounds.** `MaxRetries` and `MaxOccurrences` (Runtime): the plans need at most 13
occurrences, so `MaxOccurrences = 20` cuts nothing off; two remediations are the first
number at which a second cycle can confuse its artifacts with those of the first.
`MaxAttempts = 3` with `Allowance = 2`: the least at which an epoch is spent and a human
recovery opens another. `MaxGeneration = 2` for facts (an old and a current connection)
and 3 for connections (a join overtaken by one that is itself overtaken).
`FailureFacts` and `UncertainFacts` restrict what the Worker reports, so that
`control_pair` stays small: one failure that is retried, one that waits for the operator,
and the one uncertainty that a fresh recovery can retire.
On the Worker the hazards are between one thing and the next of its kind, so two is the
number that matters: two Attempts of one lineage, two generations, two incarnations of a
sandbox, two wrappers at once, a write behind another; a third Attempt or action is there
where something is handed on (a continuation of a continuation, an export between two
others). Two Attempts are also what one refused fact needs to keep another from being
acknowledged. One restart is enough for what a single operation leaves behind, because a
restart keeps only durable state; two or three are used where the recovery itself writes
(answers, prompts, cleanup, setups).

**Deadlock** is not an error in any run: a Run ends, a resource is removed, a terminal is
closed, and the bounds run out. That every disjunct of every component's next-state
relation fires was checked for each component on its own with the constants above.

**Fairness.** `Runtime`: work that was dispatched is eventually reported
(`StepCompleted`), which is the assumption the system makes of its performers; no
operator has to act. It is written as `[]<>~Outstanding \/ []<><<Reported>>`, weak
fairness with the enabling condition spelled out. `Connections`: a runnable process runs,
a mailbox is read, a transaction ends; nothing makes a Worker connect or a channel die.
`MCWorker`: the coroutines of the one thread go on (`Execution`, `Handlers`, `Resume`),
the server answers a message on a live connection (`Answer`), the Worker connects again
(`Connect`: its channel rejoins with a timer), and a provider turn ends (`TurnEnds`).
Nothing makes a user or an operator act, and crashes and disconnections stay bounded. Of
an executor it is assumed per Attempt, and not per thread or step, so it is weaker than
`DispatchExecutor.Fairness`: an Attempt with a step to take (its execution, a handler, a
report or its reply) is not left alone for ever while the Worker does not reconcile
either. `EventuallyReady` speaks of a Worker whose last connection meets no further
fault, and it needs `TurnEnds`: see `EventuallyReady` in the table below.
`RunSettlement`: every step of a registration and every notice is taken. The other
properties are safety properties and assume no fairness.

### Findings

Three runs check a statement of the repository that the code does not keep; TLC gives the
sequence of steps.

- `control_uncertain` - `UncertaintyIsResolvable`. `lock_uncertain!` takes the first row
  of an unordered query; after a fresh recovery that may be the retired attempt, and the
  live uncertainty, which keeps slot, Member and context, cannot be resolved.
- `run_settlement` - `EventuallyRegistered`. A verdict given while the Worker is away
  reaches it only in the answer to `reconcile_state`, which the worktree step before it
  prevents: the Worker never finishes a registration again.
- `reconciliation` - `AcceptableFactsAreAcknowledged`. All facts of a reconciliation are
  one transaction. Attempt `b` completes while it is being retired: the Worker has a
  completion, the server a failure. When the connection is lost, the Worker reconciles
  that completion, is refused, and tries again for ever; the fact of `a`, whose reply was
  lost and which the server would accept, is rolled back each time.

The modules state further expectations of the repository that TLC refutes. They are kept
as definitions, each with the comment that quotes its source; to see the
counterexample, check the module with the constants of its case above and the definition
as the only property.

| Module | Property | What the counterexample shows |
|---|---|---|
| Runtime | `VersionsNeverFork` (plan `revision`) | an Until inside an `otherwise` that revises the outer document starts every outer remediation from the document before the first one (`initialize_carries`): the history forks |
| ControlPlane | `ContinuationsAreRoutable` (with retries) | `continuation_worker` uses `Repo.one` over all executions of the source; after a retry there are two and it raises |
| Connections | `AuthoritativeChannelStays` | an overtaken join that activates last stops the authoritative channel |
| Connections | `BindingsAreCurrent` | a registration between the heartbeat and the write of a binding leaves the old generation on it |
| DispatchExecutor | `AcknowledgedIsAccepted` (with `"retire"` or `Observes`) | a turn that completes while it is retired is reported as failed, and the acknowledgement marks the completion |
| DispatchExecutor | `ContaminationPrecedesPrompt` | an authorization sent again takes the authorized turn for native activity, retires its process and fails it |
| DispatchExecutor | `NothingPromptedAfterCancel` | an execution cancelled while its session or prompt is prepared still prompts |
| DispatchExecutor | `ReconciliationIsAccepted` (with `"retire"`) | the completion of a retired Attempt is refused, and the Worker reconnects for ever: the cause of `reconciliation` |
| WorkerSession | `EventuallyReady` (without `TurnEnds`) | readiness waits for the whole provider turn of every authorized dispatch |
| HumanAttention | `ClearedQuestionIsObsolete` | a question the native session replaced stays pending and blocks the next one |
| RunExport | `HostIsAuthoritative` | an export is imported into the host worktree before the fence; a cancellation in between leaves it there, unbound |
| SbxEnvironment | `PendingStopFencesLease` | a command checked before a stop was recorded is submitted after it, and starts the sandbox again |
| SbxEnvironment | `ReopenedCycleIsClosed` | a process waiting at its second fence stops the recovered sandbox under the closed stop |
| SbxEnvironment | `RemoveTargetsStopped` | a sandbox with no stop attempt is removed while it runs |
| RunCleanup | `RemovalIsFinal` | a repeated provision that waited for the source lock creates the removed repository again |
| RunCleanup | `RemovalIsRecorded` | after a restart between the removal and its record, cleanup fails on the stale reference for ever |
| WorkspaceToolBroker | `NotSubmittedStartsNothing` | a repeated request of one that runs is answered as not submitted |
| WorkspaceToolBroker | `CancellationRecordsIntent` | the process is cancelled before the store is told; the exit is recorded first |
| WorkspaceToolBroker | `SessionsAreOfThisConnection` | a prepare that is retried across a disconnection admits a session of the old generation |
| AccountSetup | `SignalledAtMostOnce` | a reconciliation resets an uncertain cancellation, which then signals again |
| AccountSetup | `SettledMeansGone` | an exit whose observation was unavailable settles the attempt as failed |
| AccountSetup | `OutcomeIsFinal` | a failed inspection makes a succeeded login uncertain |
| HarnessSetup | `CancellationFences` | a revalidation sets a cancelled setup to ready |
| HarnessSetup | `InvocationIsNotForgotten` | a failed preparation forgets that the login may have been invoked |
| AntigravityPrompt | `AcceptanceIsOfThePrompt` | a message typed by a person is taken for the acceptance of the prompt |
| AntigravityPrompt | `ContinuationIsAccepted` | the submission file of the first Attempt refuses every continuation |
| ClaudeSdkTurns | `ContinuationStarts` | the first `continue` leaves a record that the second one refuses |
| ClaudeSdkTurns | `ResultIsCollected` | `ready` requires a wrapper that `recover` did not open, so an exported result is not collected |
| ClaudeSdkTurns | `CollectedTurnsExist` | after a stop between intent and submission the Worker waits for a turn nobody started |
| RunDelivery | `PublishedContentIsInspected` | two publications of one Delivery: an edit after the first one's last fingerprint is pushed with it |
| RunDelivery | `MergedReviewsCompleteQuests` | a Delivery that requires attention is never observed again, merged or not |
| ClientRuns | `NewestWins`, `EventuallyCurrent` | the end of a command or of an invalidation puts an older projection back |
| ClientRuns | `EventuallyReleased` | an end between the first read and the join is announced to nobody, and the Run stays tracked |
| LocalObservation | `NativeIsAuthoritative` | the answer of a close overwrites the event that came before it |
| LocalObservation | `OnlyItsChild` | a detach signals a pid that another thread has already reaped |

## 4. Proofs

Every theorem is about the specification of one component, for every value of its
constants that satisfies the component's assumption, which is stated beside the
constants and names all that is assumed:

| Assumption | What it says |
|---|---|
| `ControlPlaneAssumption` | a finite set of occurrences with any `Needs` and `ContinueFrom` over it, positive bounds; no acyclicity of the plan |
| `ConnectionsAssumption`, `BoundsAssumption`, `CompletionAssumption`, `TurnsAssumption`, `PromptAssumption`, `OpeningsAssumption` | bounds are natural numbers, positive where there is always one; `None` is no value |
| `RegistryAssumption` | lineages are positive numbers; the source of an action is an action, and one that retains a lineage has a source; no action has the logical lineage of retired ones |
| `SandboxAssumption`, `AccountAssumption` | `None` is no row |
| `StreamedProcessAssumption` | there is a stream, none of them named like another kind of frame; buffers and pipes hold something |
| `BrokerAssumption` | sessions are numbered, and mutations are requests |
| `ExportAssumption`, `CleanupAssumption` | there is a lineage; `None` is no stage, export or row; bounds are natural numbers |
| `DeliveryAssumption` | the content a Delivery starts from is one of the contents |
| `PageAssumption` | a Run has a version before its terminal one; `None` is no Run |

TLC evaluates all of them. Each proof has an inductive invariant, which a run of TLC
confirmed on the bounds of section 3 before it was proved, one lemma for the initial state
and one for every action or group of actions, and a theorem that combines them.

### The server

**ControlPlane.** The inductive invariant is

    IInv == TypeOK /\ Good(db) /\ ReadinessIsFenced /\ SeenIsPast

where `Good` is `OneLiveAttempt`, `StoresAgree` and `CancellationIsFinal` as predicates
of a database, with two strengthenings. `PendingUntouched` (a pending occurrence has no
attempt): without it a completion that starts its successors could start one that has
executions. `RetiredIn` (an uncertain dispatch whose schedule has failed is a contract
violation that a fresh recovery retired): without it a late `running` could revive
the retired dispatch, which `mark_running` does for an observation timeout only.
`SeenIsPast` (no row was touched by a generation that does not exist yet) makes the
fencing of facts inductive. `OneLiveAttempt` and `StoresAgree` need each other: that only
the current attempt is active is kept because a retry ends the schedule in its own
transaction, and that a terminal dispatch ended its schedule is kept because only the
current attempt can be reported.

`ControlPlaneProofs` first shows, for every handler, which fields it changes (the *shape*
lemmas) and that it preserves `Good` and the fence, then has one lemma per group of
actions and combines them; last, it shows that every step is a `Complete`, `Retry` or
`Fail` of `RunLifecycle` or leaves the Run alone.

**What is held and what is charged** (`ControlPlaneResources`). Two dozen actions change
the database; for slots, Members, contexts and allowances only three things about them
matter, so every action but the claim is summarized once by `Effect(d, u)` (`StepEffect`):
it releases schedules and never activates one, and it only starts occurrences, or
schedules one retry within the allowance, or opens one recovery. Exclusiveness then needs
an argument for the claim alone (`ClaimExclusive`: what it takes is free of every active
schedule) and for releasing (`EffectExclusive`). The allowance is not inductive as it
stands: `Allotted` adds that an emitted attempt is charged when it is scheduled, that the
current epoch counts what was scheduled in it, and that an attempt which was emitted and
not yet scheduled still fits (`EmittedFits`); the last is what a retry has to leave room
for. `NeverDuplicatedAutomatically` is read off `Effect`.

**Connections.** The inductive invariant adds to the properties that no generation of the
future has a channel (`FutureIsNone`), that a `DOWN` comes from an ended channel
(`DownsAreDead`: the monitor never disconnects a live one) and that a channel reconciles
and records only what it was told (`WorkIsTold`). `RowRefinement` maps every step to one
of `WorkerRow` or to a stutter, with the live channels as its `channels`.

### The Worker

**Session** (`WorkerProofs.SessionInv`). `ReadyIsReconciled` is not inductive: a coroutine
of a lost connection may be anywhere behind its last fence. The invariant says of *every*
generation that the phases behind the worktree report have its answer
(`AnswersArePresent`), that a generation registers once (`RegistersOnce`: nothing of its
registration has run before it is the active one), and what is announced is current.

**Executor** (`ExecutorInv`). That a prompt is sent once rests on the durable intent:
`IntentPrecedesPrompt` ties the number of prompts, the intent in the registry and the
place of the execution thread together, and `NothingBeforeAcceptance` says that no thread
and no server row knows of an action before the registry accepted it, which is what a
redelivery after a crash needs. Most of the proof is that no transaction of the registry
removes an intent.

**Outcomes and lineages** (`WorkInv`). That what is acknowledged is what the server recorded
has to be true of every reply under way, and of every report, which was read from the row
some steps before it arrives. `FactsInv` therefore says that an outcome of the server is the
row's (`OutcomesAgree`), that a report under way still is (`ReportsAreOutcomes`), and that
only what the server cancelled is being cancelled (`CancelIsPending`): that is why a
cancellation may overwrite a completion the server has not seen. Two operations do fail a
row that completed, the fence of native activity and the retirement for a human recovery.
With them the theorem is `AcknowledgedIsRecorded`: the server then has a failure that names
no reason, the divergence of the table in section 3; the run `worker_executor` checks the
same statement, `AcknowledgedOrWithdrawn`, with both operations. Without them (`~Observes`, no `"retire"`
in `Commands`; `WithdrawalsAreAsked`) it is `AcknowledgedIsAccepted` itself.

For `OneDriverPerLineage`, `LineagesAreLogical` says that the rows of one lineage ask for one
logical lineage, and that whatever is at work has a lineage; `WorkIsOpen` that what is at work is not
over unless it is cancelled; and `SourcesAreOver` that the actions an action continues, however
many steps back, are over before it is dispatched. What is missing is not the Worker's to
say: it accepts whatever it is given. The theorem's hypothesis `Chained(P)` is that of
any two actions of one logical lineage one continues the other, directly or through others.
The scheduler sees to it: a context is given only when no execution of its
logical lineage is active (`available_context`), which is part of `ResourcesAreExclusive`,
proved for ControlPlane. A cancelled action is never continued (`Dispatchable`), and the
theorem needs that too: its execution drives the lineage until it reaches its fence. Withdrawals are excluded because
they end a turn whose execution may be at work still.

The lemmas about the handlers have one conclusion, `Moves`: what a step may do to a row of
the registry, to the server's row and to the threads of an action, and how lineages are
given. `FactsKept`, `LineagesKept` and `SourcesKept` take it from there, without a handler in
sight; `AcknowledgedStays`, an action property, comes with the first of them.

**Harness** (`HarnessProofs`). `AttentionInv`: the delivery state says whether the answer
was handed over. `CompletionInv`: once a result is published, the newest context is past
the point where it could publish, and one bound since was told so at once
(`PublishedIsKnown`). `TurnsInv`: a living wrapper that was given a turn is the one the
registry names, and the execution in memory differs from it only when that one is gone.
`PromptInv`: text in the native session implies the intent, and from then on only native
evidence refuses the dispatch (`ReachedInTurn`). `SetupInv`: a setup that forgot a login it
had begun is in a state from which no preparation starts (`Remembered`). `AccountInv`: a
launch under way has its row, and the environment's operations and the launch exclude one
another.

**Environment** (`EnvironmentProofs`). `SandboxInv`: whoever creates the sandbox of a
record holds its token (`CreatorHasTheToken`), and whoever works on one found it bound
(`WorkersFoundIt`); with that no step of one process orphans what another created.
`InputInv`, for what a caller is told of its writes: writes leave the queue one at a time and in
order, at most one is in the pipe, and every answer in the pipe back or being made is true
of the write it names (`TrueAnswer`). `OutputInv`, for what a reader is told of the end of its
stream, says of each stream that for some `n` the Worker took the first `n` chunks out of the
pipe and they are, in order, what was read followed by what is buffered, with only ends of stream
behind them (`Passed`); and that the pipe holds the chunks from `n + 1` on, each once, in order
and before the end of the stream, all of them as long as the launcher lives or once the
target has exited (`Piped`). A step that moves a chunk moves `n`; a disconnection, which drops what is
buffered, lowers it.

**Workspace** (`WorkspaceProofs`). `ToolsInv` (`Accounted`): how far a request is, what its
record says and how often it took effect. `DeliveryInv`: while the provider is asked, the
row names a publication the Worker made, and a merged review is asked about no more.
`CleanupInv`: what the cleanup row says of sessions and environment stays true
(`RowIsTrue`), because a settled Run opens neither again. `ExportInv`: what a row holds as
verified is in the host worktree and in the worktree of its lineage (`RowIsKept`), a
completion carries an export built on it (`ExportIsBuiltOn`), and a prepared action restores
it before it runs (`PreparationRestores`).

### The client

`PageInv` is a predicate of the state of the store, a record that the signals and answers
transform: `ChannelsOf` (exactly the tracked and the selected Run have a channel) and
`AskedAgain` (a change announced during a request is marked, and its request is still
under way); every operator of the store keeps both (`KeptAside`, `FetchKeeps`, ...).
`ObservationInv` says what the store cannot know of an opening yet (`UnopenedIsUnknown`,
`OpeningIsApart`), who waits for a close (`ClosesAreKnown`), and that an event which
overtakes the answer of its own opening is on its way or kept (`EarlyEventIsKept`).

### The theorems

| Theorem | For every plan and bound |
|---|---|
| `TypeCorrect` | the rows keep their types and ranges: slots, Members, allowance |
| `AtMostOneLiveAttempt` | `OneLiveAttempt` |
| `StoresAlwaysAgree` | `StoresAgree` |
| `CancellationAlwaysFinal` | `CancellationIsFinal` |
| `ReadinessAlwaysFenced` | `ReadinessIsFenced` |
| `FactsAlwaysFenced` | `FactsAreFenced`, an action property |
| `NeverDuplicated` | `NeverDuplicatedAutomatically`, an action property |
| `ResourcesAlwaysExclusive` | `ResourcesAreExclusive` |
| `AllowanceAlwaysHolds` | `AllowanceHolds` |
| `Refinement` | the control plane implements `RunLifecycle` |
| `UsableBindingsAlwaysTold` | `UsableBindingsAreTold` |
| `OneChannelActive` | `OneActiveChannel` |
| `RowRefinement` | the connections implement `WorkerRow` |
| `AnswerAlwaysDeliveredAtMostOnce` | `AnswerDeliveredAtMostOnce` |
| `OneResultAlways` | `OneResultPerAttempt` |
| `OneWrapperAlways` | `OneWrapperPerSession` |
| `RefusalNeverHadSideEffect` | `RefusalHadNoSideEffect` |
| `LoginNeverBegunTwice` | `LoginBegunAtMostOnce`, an action property |
| `LoginAlwaysUndisturbed` | `LoginIsUndisturbed` |
| `InterestAlwaysHasItsChannel` | `InterestHasItsChannel` |
| `AnnouncedChangesAlwaysFetched` | `AnnouncedChangesAreFetched` |
| `OverAlwaysShown` | `OverIsShown` |
| `ReadyIsAlwaysReconciled` | `ReadyIsReconciled` |
| `PromptedAlwaysAtMostOnce` | `PromptedAtMostOnce` |
| `AcknowledgedIsRecorded` | `AcknowledgedOrWithdrawn`, with every command and harness |
| `AcknowledgedIsAlwaysAccepted` | `AcknowledgedIsAccepted`, without withdrawals |
| `AcknowledgedAlwaysStays` | `AcknowledgedStays`, an action property |
| `AcknowledgedIsAlwaysFinal` | `AcknowledgedIsFinal`, an action property, without withdrawals |
| `OneDriverOfEveryLineage` | `OneDriverPerLineage`, without withdrawals, of chained actions |
| `NoSandboxEverOrphaned` | `NoOrphanedSandbox` |
| `CertaintyIsAlwaysTrue` | `CertaintyIsTrue` |
| `StreamsAlwaysComplete` | `StreamsAreComplete` |
| `MutationsAlwaysAccountedFor` | `MutationsAreAccountedFor` |
| `CompletedWorkWasAlwaysPublished` | `CompletedWorkWasPublished` |
| `RepositoryAlwaysGoesLast` | `RepositoryGoesLast`, an action property |
| `VerifiedWorkIsAlwaysKept` | `VerifiedWorkIsKept` |

**Only model-checked.**

- The liveness properties (`RunTerminates`, `AcknowledgedUnlessContradicted`,
  `EventuallyReady`, and the refuted `EventuallyRegistered` and
  `AcceptableFactsAreAcknowledged`): fairness and `ENABLED` are out of the prover's reach.
- Everything about `Runtime`: `advance`, and resolution over nested scopes, are recursive
  operators, and what they compute is proved by an induction over data.
- `OneDriverPerLineage` and `AcknowledgedIsAccepted` with withdrawals: the second is then
  false (see the table of findings), and the first depends on when a recovery of the
  retired Attempt is dispatched.

## 5. Not modelled

Left out on purpose, with the reason:

- **Compiler** (`core/compiler`, `product/tactic_resolver.ex`). Pure functions; the plans
  of `MCRuntime` are written as they make them.
- **Catalogue, launch, HTTP API** (`product*`, `launch*`, controllers). Definitions and
  projections stored and read back in one transaction each: validation and I/O with
  little state of their own.
- **Live execution sessions of the server** (`execution_session_store.ex`). The rows that
  show a session and its questions to users. Their source, the question and its answer on
  the Worker, is HumanAttention.
- **Row locks.** A transaction is one step. That reconciliation locks the Worker before
  the Run and every other fact the Run before the Worker is a deadlock PostgreSQL resolves
  by aborting one of them. No property is about it.
- **The operator's retry before a prompt** (`operational_recovery.ex:196-361`): a recovery
  of a prepared process, and another attempt in the same epoch when that one failed over a
  false ownership conflict. Both turn on sessions and prompt authorization, which
  ControlPlane leaves out.
- **A user who edits the worktree during its removal**, between the status command and the
  deletion of the files (`workspace/run-worktrees.ts:377-392`). `RepositoryGoesLast` is about the
  steps of the system; nothing in the code could fence that edit.
- **Codecs and decoding** (`protocol/codec.ts`, `client/src/api`, the schemas of stores).
  Messages are records; that malformed ones are refused is assumed. A quarter of the
  TypeScript is of this kind.
- **Pi, Claude Code and Herdr** (`harnesses/pi`, `harnesses/claude-code`, `session-host`). They submit prompts
  with the protocols of AntigravityPrompt (a submission file and a transcript) and
  ClaudeSdkTurns (wrappers and turn records), over programs of which the source says little.
- **Verifier probes and version policy of SBX, forensic tools, manual scripts,
  fixtures.** They decide once whether an environment is usable, or are never part of a
  Run.
- **Rendering, forms and the world of the client.** They keep no state another component
  relies on.

The map names about one line in seven of the TypeScript and most of the Elixir that
changes state. What remains is the list above; raising the share would mean models of
decoding and layout, about which there is nothing to check.

## 6. Plan

1. The Pi adapter, beside AntigravityPrompt, with prepared-process adoption.
2. Locks as steps: Worker and Run rows in ControlPlane, for the lock order.

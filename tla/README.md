# Heimdall Launchpad: TLA+ models and proofs

This directory holds TLA+ models of the Launchpad server (`src/apps/server/src`), the TLC
configurations that check them on small instances, and proofs, checked by TLAPS, of their main
safety properties for every value of their constants.

The server is one Node.js process. It lets users create Agents, talk to them (each message
starts a *run* of a coding agent), watch the events of a run, and let several Agents take turns
in a coordination session. Around each run, Heimdall compares what the Agent declares it will do
with policy, grants a permit, enforces it through a proxy and a broker, and records it in a ledger.

Paths below are relative to `src/apps/server/src` unless they start with another directory.

## 1. Inventory

| Component | State it keeps | Operations | Talks to |
|---|---|---|---|
| **JsonStore** `store.ts` | `data` (agents, messages, runs, principals), `queue` (a promise chain), the file | `load`, `mutate` (serialized: copy, change, persist, swap), `snapshot` | every mutation of AgentService |
| **AgentService** `agent-service.ts` | the maps `activeExecutions`, `cancellationRequests`; Agents and runs in the store | create, update, start, stop, delete an Agent; send, retry, cancel; `executeRun`; `applyRunEvent`; the watchdog `sweepStuckRuns`; `initialize`; `runCoordination` | JsonStore, an AgentRunner, WorkspaceManager, RunEventBus, Coordinator, IdentityDirectory |
| **Coordinator** `heimdall/coordination.ts` | sessions in memory: status, next number, committed messages, the turn in flight with its deadline, rejections | `create`, `claim`, `commit`, `fail`, `stop`, `verify` | called by `runCoordination` and the HTTP routes |
| **RunEventBus** `events.ts`, **timeline** `timeline.ts` | ring buffers of recent events per run, subscribers; the stored stage list of a run | publish, subscribe, complete; `applyEventToTimeline`, `finalizeTimeline` | fed by runners, read by the event stream of `app.ts` and by AgentService |
| **HTTP API** `app.ts` | none | authentication, validation, the routes, the event stream | AgentService, RunEventBus, Heimdall's routes |
| **CodexRunner**, **ContainerCodexRunner** `codex-runner.ts`, `container-codex-runner.ts` | one child process per Agent, its timers and output buffers | `run`, `cancel` (SIGTERM, then SIGKILL), timeout | AgentService; the operating system |
| **WorkspaceManager** `workspace.ts`, **files** `files.ts` | Agent directories | create, write instructions, archive; snapshots and their diff | AgentService |
| **IdentityDirectory** `heimdall/identity.ts` | principals: active, rotated, revoked | mint, activeFor, revoke, rotate, restore | AgentService, HeimdallRunner, HTTP API |
| **HeimdallRunner** `heimdall/runner.ts` | active containers, pending approvals, cancellations | `run` (plan, recon permit, manifest, decide, approve, execute, reconcile), `decide`, `cancel`, `stop`, `reapOrphans` | planner, engine, broker, proxy, HeimdallStore |
| **Permit engine** `heimdall/engine.ts` | none (pure) | scoring, tiers, hard rules, conditional decisions, precedents, permit hash, approvals | HeimdallRunner |
| **Broker** `heimdall/broker.ts` | none (pure) | parse events, check actions, reconcile a run with its permit, container arguments | HeimdallRunner |
| **Egress proxy** `heimdall/proxy.ts` | a request log | decide, forward or refuse each request | the Agent's container |
| **HeimdallStore** `heimdall/store.ts`, `heimdall/index.ts` | policy, approvals, precedents, run records, a hash-chained ledger | mutate, append, verify, invalidate, metrics | HeimdallRunner, HTTP API |
| **Planner, manifest, termsheet, trace** | none | the digest of the workspace, prompts, parsing and normalising a manifest, the weights of the score, the spans of a trace | HeimdallRunner |
| **Configuration and errors** `config.ts`, `errors.ts` | none | the environment's schema, the provider, codex's settings; the chain of causes | everything |
| **Process entry** `index.ts` | the process | boot order, shutdown, unhandled rejections | everything |
| **Web client** `src/apps/web` | view state; per watched run a stream or a polling interval | `useRunEvents`, `runEventStream`, the timeline's reducer, the diagnosis of a silent run; presentation | HTTP API |

`src/heimdall` is a copy of `apps/server/src/heimdall` (about 4000 lines) that the server does not
compile. It is not modelled, and nothing is mapped to it.

### What is hard here

* **Gaps around awaits.** Node.js runs one callback at a time, so a step of every model is what
  runs between two waits. A mutation is enqueued in one step and applied in a later one; in
  between, other requests, executions and the watchdog enqueue theirs. Every decision taken before
  an await may be stale after it.
* **Late answers.** The watchdog closes a run that is too old while its runner goes on; the
  runner's answer arrives when the Agent may be executing another run. A coordination turn has the
  same race with its deadline.
* **Partial failures.** A write of the store can fail between any two steps; an execution can
  reject outside its `try` block; archiving can fail in the middle of a delete.
* **Crashes.** The file survives the process; the queue, the executions and the sessions do not.
* **Waiting on others.** Stop, delete and cancel wait for an execution; a claim waits for the turn
  in flight.

The hazards, with the line each bites at and the properties that cover it, are in
`PROJECT.json` under `hazards`.

### What makes each component correct

* *AgentService and JsonStore*: one active run per Agent; a busy Agent has an active run; a closed
  run keeps its verdict; a run has its one reply exactly when it completed; a deleted Agent leaves
  no run; no error is shown on a working Agent; a cancellation flag dies with its request; every
  request returns if the runner answers; every run ends; interrupted runs are cancelled after a restart.
* *Coordinator*: the committed messages are the countdown, in rotation, whatever Agents answer and
  however late; a turn in flight always has a holder that will give it back; the loop ends if the
  runs it waits for do.
* *Event bus and timeline*: a subscriber sees each event once, in order, and its stream ends; a
  closed run has a finished timeline with one terminal entry.
* *Runners*: a run settles exactly once; a cancelled or timed-out process is gone.
* *HeimdallRunner*: nothing executes without a permit that covers it; a cancelled run starts no
  container; no container outlives its run; the recorded outcome agrees with what happened.
* *Ledger*: the chain verifies after any interleaving of appends; a revoked approval is not reused.
* *Engine, broker, proxy*: a permit never grants what a hard rule forbids; what the proxy lets
  through is what the permit names; reconciliation reports every action outside the permit.
* *Identity*: at most one active principal per Agent; a revoked principal acts no more.

## 2. Plan

| # | Module | Subject | Status |
|---|---|---|---|
| 1 | `Launchpad`, `LaunchpadProofs` | AgentService over JsonStore | done |
| 2 | `Countdown`, `Coordination`, `CoordinationProofs` | Coordinator and its drivers, refining the abstract countdown | done |
| 3 | `RunnerContract`, `HeimdallRun`, `HeimdallRunProofs` | the phases of `HeimdallRunner.run` with cancel, stop, approval, timeouts, container and proxy lifetimes, crash and reaping, refining the contract of an AgentRunner | done |
| 4 | `TermSheet`, `Engine`, `Broker`, `Egress`, `Ledger`, `Planner`, composed by `Adjudication`; `AdjudicationProofs` | the data of a Heimdall run: what is planned, scored, asked, let through, reported and remembered | done |
| 5 | `Timeline`, `Trace`, `EventBus`, `Identity`, `CodexProcess`, composed by `RunStream`; `RunStreamProofs` | a run from message to screen with the plain runners | done |
| 6 | `Workspace`, `WorkspaceProofs` | the Agent's directory as the server reads it, and a run's changes | done |
| 7 | `Accounts`, `AccountsProofs` | Agent principals across crashes and failed writes | done |
| 8 | `Failures`, `PureProofs` | what is stored of an error, and the diagnosis of a silent run | done |
| 9 | `HashChain`, `PureProofs` | the ledger's chain of hashes | done |
| 10 | `Streams`, `Journal`, `Globs`, `Launch`, checked by `PureChecks` | pure algorithms, against reference definitions | done |
| 11 | `App` | the client's selection and refreshes in `App.tsx`, whose answers may overtake each other | open |

`HeimdallRun` and `Launchpad` are composed through the AgentRunner contract that `Launchpad`
states (a run settles with one of three outcomes; it reports "cancelled" only if told to), so that
each is checked against the contract rather than in one large product. `Adjudication` and
`HeimdallRun` are two views of `HeimdallRunner.run`: one has its data and the durability of what
it writes, the other its containers and cancels; neither needs the other's half. `RunStream` is
what `Launchpad` leaves out of AgentService: the events, the identity check and a real process.
Runs are kept few: one per question, with bounds of two or three runs or requests and one fault.

## 3. Launchpad: Agents and runs

### State

The database is decomposed into one function per field: `agentStatus`, `lastError` (the Agents
that show one), `runStatus`, `replies` (assistant messages per run). Agent ids that have not been
minted are "unborn", those of deleted Agents "deleted"; the same for runs ("unused", "removed").
`queue` is the store's promise chain: a FIFO of tickets saying who awaits the mutation (a request,
an execution, the watchdog). `exec` is where each run's `executeRun` is: its first mutation pending
("starting"), before the cancellation check ("checking"), inside `runner.run` ("running"), its
closing mutation pending ("closing"), settled. `phase`, `job` and `waits` say the same of a
request. `told` are the runs whose runner has been asked to cancel.

### Actions

A request arrives up to its first await (`CreateAgent`, `SendMessage`, `RetryRun`, `UpdateAgent`,
`StartAgent`, `StopAgent`, `DeleteAgent`, `CancelRun`): it makes the checks the code makes on a
snapshot, then either enqueues its mutation or raises the cancellation flag and calls
`runner.cancel`. The store applies the head of its queue (`Apply...`, `AcceptSend`, `RefuseSend`)
with the checks the mutation itself makes, and the caller goes on to its next await in the same
step. `CheckCancellation` and `RunnerSettles` are the two other points where `executeRun` goes on.
`Sweep` is the watchdog, for any run that is active; `StoreFails` a write that throws; `Restart` a
crash and the following boot.

Two things deserve a word. `runner.cancel` may reach the run or not (`\E hit`): a CodexRunner has
nothing to kill before its process is spawned, and HeimdallRunner nothing while it plans. And
`Quiet` makes an await of a settled promise resume before anything else does.

`SeedsBeforeLoad` is the boot order. `index.ts` calls `seedIdentities`, which writes the store,
before `initialize`, which loads it (TRUE); the tests of AgentService, and its own `initialize`,
have the store loaded first (FALSE). The theorems hold for both. `Watchdog` says whether a run may
outlive `runMaxAgeMs`; `Offered` are the operations the clients of an instance call.

### Properties and runs

* `launchpad_lifecycle`: two runs and two concurrent requests of one Agent, with every operation,
  the watchdog and one fault. Type invariant, `BusyHasActiveRun`, `AnsweredOnce`,
  `NoOrphanRuns`, `NoStaleError`, `FlagsHaveOwners`, `ClosedRunStaysClosed`.
  Two runs let an old execution meet a new one; two requests let a send race a delete or a cancel
  race a stop; one fault places a crash or a failed write at every point. Agents do not interact
  except through the queue, so one is enough. Runs and requests are interchangeable (symmetry).
  `ClosedRunStaysClosed` exempts a run whose execution has not recorded its start: that first
  mutation overwrites the status without looking at it (`agent-service.ts` 512), and a watchdog
  kill of a run still queued is undone. That takes a store stalled for the whole of `runMaxAgeMs`.
* `launchpad_fair` (`MCLaunchpadFair`) explores two servers, each an instance of `Launchpad`, under
  fairness.
  The *calm* one has three runs and two requests, with create, send, retry, update, start and
  cancel, and one fault. The *watched* one has runs that may outlive `runMaxAgeMs`, two runs and one
  request, with create, send, stop, delete and cancel, and one fault. `OneActiveRun`,
  `CancelledRunIsClosed` and `EveryRequestReturns` hold of both, `WatchedRunsClose` (`EveryRunCloses`
  of the watched server) of a runner that may never answer.
  Three runs are needed for a third to be admitted beside a second. The operations and the runs are
  restricted because `OneActiveRun` is false with the others: see the findings for the watchdog; with
  stop and start, a stop's mutation can mark an Agent stopped while a newer run of its is active, and
  start then makes it ready. `CancelledRunIsClosed` exempts a run whose execution was rejected
  because its own write failed. `EveryRequestReturns` has a hypothesis, `RunnerAnswers`: the runner
  settles what it is given and answers each cancel. `CHECK_DEADLOCK FALSE`: nothing is left to ask of
  an Agent that was deleted; `launchpad_lifecycle` checks deadlock.
* `launchpad_two_active` and `launchpad_restart` show the two findings below.

### Fairness

`ServerFairness`: the event loop serves every queued continuation, so a mutation at the head of
the queue is applied or fails (`WF(Commit \/ StoreFails)`), an execution goes past its flag check,
an awaited settled promise resumes its awaiter, archiving ends, and the watchdog's interval finds a
run that stays too old. No strong fairness is assumed, and nothing of the runner. That the runner
answers is a hypothesis of `EveryRequestReturns`, not a fairness, since the code does not ensure
it: CodexRunner has a timeout and follows SIGTERM with SIGKILL, but the HeimdallRunner that
`index.ts` wires by default removes a container under a name it does not have (finding 4), and its
run never settles if the container does not end. A stop, delete or cancel that waits for such a run
is never answered; the run is closed all the same (`WatchedRunsClose`).

### Proofs

`LaunchpadProofs` proves the type invariant and five safety invariants, and
`ClosedRunStaysClosed`, for any sets of Agents, runs and requests, any number of faults, any
offered operations and both boot orders, from `ConstantsAssumption` alone. The safety invariants
are not inductive. `IInv` adds:

* `MintsAreFresh`: a request that will store a run or an Agent holds an id nobody else holds and
  the database has never seen (uuids, in the code). Without it a mutation could reuse a run id and
  the replies of `AnsweredOnce` would not start at zero.
* `StartingIsNotCompleted`: the unguarded first mutation of an execution never meets a completed
  run. Without it `ApplyRunning` would reopen a run that has its reply.
* `QueuedOnce`: a request waits in the queue at most once and only while it is storing; without
  it a request's mutation could be applied twice, or after its answer.

Each action has a lemma; the invariance theorem combines them by PTL.

`OneActiveRun` and `CancelledRunIsClosed` are false in general (see the findings, and
`launchpad_fair` above). They are proved (`OneRunWhenCalm`, `CancelsCloseWhenCalm`) under `Calm`: no
watchdog kill, and clients that stop Agents or start them, not both. Deleting, retrying, faults of
the store and any number of runs and requests are allowed; `launchpad_fair` leaves deletes and stops
out of its calm server only because of the size of its state space. `CalmInv` adds to `IInv`:

* `OnlyOffered`: requests are among those offered and the queue holds no mutation of the watchdog.
* `ActiveIsHeld`: the Agent of an active run is busy or stopped, hence admits no other run; where
  starts are offered it is not even stopped.
* `ExecutionsAreOpen` and `ActiveIsExecuting`: an execution under way has its run open, and an
  active run is the one its Agent executes, unless its own closing write failed. With them two
  active runs of one Agent would be two values of one entry of `activeExecutions`; without them a
  closing mutation could set the Agent ready while another run of it is active.
* `RemovedWithItsAgent`: a run disappears only with its Agent, so the exception in the previous two
  never concerns an Agent that can be sent a message.
* `CancelsAwaitTheirRun`: a cancel that waits does so for the execution of its own run, or that run
  is closed already. Without it the end of the wait would say nothing about the run.

## 4. Coordination: turns and drivers

`Coordination` models one session and the `runCoordination` loops on it. The route that creates a
session starts one loop; the Coordinator's own contract (and its tests) speak of any claimant, so
the number of `Drivers` is a parameter. A driver is "offering" from the end of one `runner.run` to
the start of the next (`claim`, the checks, `fail` for a deleted Agent), which runs without
interleaving (`Quiet`), or "running" inside `runner.run`. A reply is any number near the countdown
or none: parsing is abstracted to what `commit` tells apart. A deadline is a flag that the clock
may set at any time. `DeleteAgent` is AgentService's deletion as the driver sees it.

The map's lines for `claim`, `commit`, `fail` and `stop` cover every assignment they make; of the
recorded rejections only the number of entries and the last one are kept.

* `Countdown` is the abstract specification: From, From - 1, ... , To in this order, over as soon
  as To is reached, or given up. `CountsDown` is the refinement, by the values of the committed
  messages and "the session is not running".
* `coordination`: two drivers, three numbers, and a participant list that names an Agent twice (the
  schema allows it), so that "it is the Agent's turn" does not identify the turn. `TurnIsCurrent`,
  `RoundRobin`, `TurnHasDriver` (no claim waits for a holder that has left), `TurnsOnRecord` (every
  claimed turn is committed, rejected or in flight), `LeftOverOrSpent`, `CountsDown`, and, under
  weak fairness of what a driver does between two runs (`LoopStep`), `DriversLeave`: the drivers
  leave if each run they wait for settles (`RunsSettle`). Attempts are bounded by the code's own
  `maxTurns`; three numbers let the rotation wrap.
* `coordination_reoffer`: the third finding.

`CHECK_DEADLOCK FALSE` in these configurations: a session ends.

`RunsSettle` cannot be dropped. `coordination.ts:16` says that a turn past its deadline is reclaimed,
"so one unresponsive Agent cannot wedge the session forever". It is the next `claim` that reclaims
it, and a driver makes its next claim when its `runner.run` has settled. A session has one driver,
the one its route started: if the runner never answers (see finding 4), nobody claims.

`CoordinationProofs` proves type correctness, `TurnIsCurrent`, `RoundRobin`, `TurnHasDriver`,
`TurnsOnRecord` and the refinement of `Countdown`, for any participants, bounds and drivers, and
`LeftOverOrSpent` for at least one driver. `TurnsOnRecord` counts the turns in flight as the size of
a set of `Claims`, whose finiteness follows from `turns` itself, so no bound on the drivers is
assumed. The inductive invariant
adds `CountsSoFar` (the messages are the countdown so far and `next` follows them; without it
`commit` could append any number) and `RunningHasTurn`.

## 5. HeimdallRun: permits, approvals and containers

`HeimdallRun` models `HeimdallRunner` with Heimdall on and the container runtime, as
`npm run poc` starts it: every call of `run`, from planning to the record, and the container engine
it drives. Runs of one Agent may overlap: a coordination turn calls the runner without looking
whether the Agent is busy, and the watchdog frees an Agent whose run goes on.

### State

`pc` is where each call of `run` is. "proxying", "polling", "running" and "closing" are the awaits
of `spawnCodex`: starting the sidecar, waiting for its log, waiting for the container, and the
`finally` block. `spawn` says what the current spawn is for (two reconnaissance attempts, or the
execution; it keeps "exec" once the run has come to it), `result` how it ended, `halted` why it was
told to end: the flags `timedOut` and `outputExceeded` ("limit"), `entry.cancelled`, and
`entry.killed` of a blocked action. When a spawn is over, the last two are reset, as its closure is
garbage. `pending` and `active` are the runner's two maps, `recorded` and `outcome` the stored run
record: `saveRun` stores the object itself, so a later assignment shows in it at once.

`containers` is what the engine runs. Containers have names, and the names are built as the code
builds them, with the prefixes it cuts standing for whole ids: a run id begins with its Agent's id,
so runs of one Agent share every prefix, and all reconnaissance uses one permit id. `RunName` is
what `broker.ts` 479 starts the agent's container as, `EntryName` what `runner.ts` 829 removes.
`strays` are the containers the engine failed to remove or started on its own; `late` what it will
start although the client's command timed out.

### Actions

Planning, adjudication and approval are one action per outcome (`PlannerAnswers`, `PlannerFails`,
`Deny`, `Park`, `Grant`, `Approved`, `Refused`); `Throws` is any of their awaits rejecting, with
the outcome the record had by then. Awaits between which only the run's own data changes (appends
to the ledger, files, snapshots) are merged. `Decide` and `ApprovalExpires` race. Each ending of a
spawn does its `finally` block (`TearsDown`, `Forgotten`) and what `run` does next in one step.
`Fallback` is the set of values of the `degradedFallback` option considered, so that one run checks
both. `Cancel` marks the entry it finds; `CancelReturns` is the end of its two removals.
`Shutdown` reaps and `Exit` ends the process, with runs in flight going on in between;
`Boot` reaps (or fails to) and closes the records that awaited approval. What a permit grants, and
which actions are refused, is left to the modules of the engine and the broker: here a container's
action may be refused at any time of an execution (`Blocks`).

The composition with `Launchpad` is by contract: `RunnerContract` is what `Launchpad` assumes of
an AgentRunner, and `KeepsContract` that `HeimdallRun` implements it under the mapping `Stage`.

### Properties and runs

* `heimdall_overlap`: two overlapping runs of one Agent, one cancel at a time (it may be repeated),
  one fault (a crash, a shutdown, a start whose client gives up, or a failed removal at the end of a
  spawn; the reaping at the next boot may fail besides), both settings of the fallback, direct planning that may fail. Two runs suffice for every conflict of names and
  entries, since those are pairwise; the runs are interchangeable (symmetry). Type invariant;
  `ContainersHaveRuns`; `ApprovedFirst`; `DecisionStands`; `RefusedNeverRan`; `ActiveIsSpawning`;
  `CutShortNeverResolves`; `KeepsContract`. `CHECK_DEADLOCK FALSE`: all runs may have settled.
* `heimdall_cancel` and `heimdall_recon`: one run, no fault; findings 4 and 5. `heimdall_recon` checks
  `MCHeimdallRecon`, which adds a history of the runs one of whose reconnaissance containers ended
  after a cancel, so that `spawnCodex` threw `RunCancelledError`; a cancel that comes when the
  container has already ended is not among them.

Liveness of a run is not claimed. The time budget removes a container by a name nobody has
(finding 4), so a container that does not end of itself is never ended, and its run never settles;
that a run's Agent is freed all the same is the watchdog's work (`WatchedRunsClose`).

### Proofs

`HeimdallRunProofs` proves the type invariant, all five safety invariants, the action property
and the refinement, for any number of runs, Agents, cancels and faults. The inductive
invariant `IInv` adds:

* `SpawnInv`: where a run is determines what its spawn is for; a result "ok" excludes a limit and a
  blocked action, "cancelled" requires that cancel found the run. Without it the verdict read in
  the `finally` block would not be related to the causes recorded before.
* `PermitInv`: a decision is taken once, while the run awaits it; an execution has a permit that was
  granted or approved behind it. Without it an approval could be one taken after an expiry.
* `Placed`: a container that is no stray has exactly the name its run would give it now. Without it
  the removal by name at the end of a spawn would not be known to remove the spawn's own sidecar.

Each group of actions has a lemma; `PlacedBut` and `ActiveBut` reduce a step of one run to what it
does to its own containers and entry.

## 6. Adjudication: what a run is allowed, and what is remembered

`Adjudication` follows `HeimdallRunner.run` with its data: the planner's reply, the context, the
permit, the approval, the actions, the report. The store and the policy file are shared by all
runs and survive the process.

### Modules

* `TermSheet`: the weights and tiers (`termsheet.ts`), the classes of targets and the blast radius
  (`engine.ts`), over sets of paths, hosts and commands. What a regular expression says of a path
  or a text (its kind, whether it holds a secret, whether it reads like an instruction) is a
  constant.
* `Engine`: the fingerprint, the score of a capability axis by axis, the hard rules, the conditional
  band, the precedents, `BuildPermit`, `Doors` (what the permit opens), the approval and the
  integrity check.
* `Planner`: what is kept of a reply of the model, what is dropped and when planning gives up.
* `Broker`: the events of codex turned into actions, paths and commands compared with the grants,
  and the report. A command has two readings, `text`, its words between spaces, and `segs`, what a
  shell runs: `npm test>/dev/null` and `cd x&&npm test` have segments their text does not show. The
  broker compares the segments, the report the text (`TextBegins`).
* `Egress`: the sidecar's copy of the permit and its decision for each form of request.
* `Ledger`: the database of HeimdallStore and its mutations, `MaxRuns` being how many run records it
  keeps (500 in the code). An event is its run and type.

### State and actions

`db` is the memory, `disk` the file, `queue` the store's promise chain; `stage` and `call` are where
each run is and its local variables. One action is one step of `run` between two awaits:
`LoadPolicy`, `Plans`, `Context`, `Adjudicates`, `Parks`, `Decide`, `Launch`, `Acts`, `Asks`,
`Collected`, `Reconciles` and the failures of each. `Commit` and `WriteFails` are the store's turns:
a mutation changes the memory before it is flushed, so after a failed write the memory is ahead of
the file. `Crash` loses memory and runs, `Boot` loads the file, possibly with another term sheet. A
file that cannot be read, is no JSON or is of another version becomes an empty database, which is
written over it (`store.ts` 64 and 69): `Boot(FALSE)`. All the denials and records are gone then,
although the comment at line 128 says that denials are permanent.
`PutPolicy` and `PolicyWritten` are an operator's rewriting of the policy file, which is torn in
between.

### The run

`adjudication`: two runs of one Agent, which may overlap. The world of `MCAdjudication` holds one of
each kind of path, host and command that the rules tell apart, and four replies of the model; the
first run takes at most one action (`mcMaxActs`), the second none, since one action of each kind is
enough to compare the broker with the report. One trouble happens in a behaviour (`MaxEvents`): a
failed write, a crash, a policy being rewritten, a journal or a launch that fails. Two versions of
the term sheet. One record is kept (`MaxRuns` = 1), so that the second run's drives out the first's;
the other half of the case, a record that stays, is that of a run that is alone.
`CHECK_DEADLOCK FALSE`: runs end. `TypeOK`, and

* `RefusalStands`: what was refused to an Agent when a run of it is judged is not granted to that run,
  across runs, restarts, failed writes, policies and term sheets. A refusal that comes between a
  run's judgement and its approval does not stop it: that run executes with what was refused
  meanwhile, and the property leaves it out.
* `DoorsAreEarned`: a door that opens without asking is one the score opens by itself (`earned`, the
  tiers without the approvals that hold), or one an approval opens that held when the run was
  judged: of this Agent and term sheet, not expired (`vouched`; `approvals` forgets what expires).
* `MemoryOnlyTightens`: no step takes a denial out of the file, or puts a holding approval into it
  that nobody gave; except the start that cannot read the file.
* `RunsWhatWasDecided`: the permit a run executes with is the one that was decided, after two
  legitimate alterations and any wait.
* `ReportAgreesWithBroker`: two pieces of code that read the same permit agree, but for a file only
  the diff knows of and a command whose text does not begin, word by word, with its own first
  segment: `a; b`, `a&&b`, `a>/dev/null` or `2>/dev/null a`, where the broker lets the segments pass
  and the report calls the text undeclared.
* `AnswersAreOnDisk`, `DenialsAreCounted`: what was answered survives, and a contained run counts
  as one, as long as their record is kept and the file was not lost at a start. The second exempts
  a run an operator approved and that then failed: its record is not saved again.

`policy_change` (`MCPolicyChange`): the same world, with a history of the approvals that a change of
policy found; finding 6.

### Assumptions

Besides the types of the constants: an entry of a reply names known paths and hosts
(`RepliesAssumption`) and a reply is too long or not (`LongAssumption`); an item of codex stands
for finitely many actions (`ItemsAssumption`), since each is an entry of a list in the code; a
command that is there has a text (`ScriptsAssumption`); and some record is kept
(`LedgerAssumption`). Nothing is assumed of how the text of a command and its segments correspond.
They say nothing about which paths, hosts, commands or replies there are. TLC evaluates them on the
world of `MCAdjudication`.

### Proofs

`AdjudicationProofs` proves the type invariant, the six invariants above and the action
property for any Agents, runs, replies, policies, items, and any number of actions, failed
writes, crashes and term sheets. `IInv` has, beside `TypeOK`:

* `Locals`: what a run carries. Its verdicts are those of the adjudication (`Judged`): a capability
  that was refused before is forbidden, one that is let through earned it by its score or by an
  approval that was given. Without it the doors of a permit would be unrelated to the memory
  the permit was made from.
* `AllPlaced`: what holds at each stage, and will hold when the mutation a run awaits is done: which
  entries the ledger has of it, whether it may have been decided, that no forbidden capability is
  left once it is asked for an approval, and that an approval stands behind what it executes with.
* `Queued`: a mutation in the queue fits what its run will do next (`PlacedOK` of the stage to come,
  after the mutation), and a run awaits one at most. Without it the answer given when a
  mutation is flushed could belong to another stage.
* `Idle`, `Down`: a run that has not begun carries nothing; a stopped server has no queue.
* `Sound`, `Memory`, `Answers`: until a first trouble the memory is the file; the memory is never
  behind the file (a failed write leaves it ahead), a refusal that was answered is in the file, no
  approval is held that was not given, and what was answered is in both. Without them a crash could
  take back what was answered. A start that loses the file empties the histories with it: the
  theorems speak of what was answered since.
* `NotesCount`, `NotesFirst`: an entry about a refused action, on the ledger or still in the queue,
  belongs to a run that has such an action; and it stands in the queue before the report of its
  run. `DenialsAreCounted` needs both: an entry is written without being awaited, and only the order
  of the queue puts it before the record.

The lemmas before the invariance show what the operators of `Engine`, `TermSheet`, `Broker`,
`Egress` and `Ledger` preserve: which tiers an adjudication gives, that `RecordPrecedent` and
`InvalidateApprovals` keep denials, that `SaveRun` keeps every record but the oldest, and that the report finds an action outside the permit exactly
when the broker would have refused it, apart from the two exceptions stated.

Left out: the degraded mode (in `HeimdallRun`), recon containers, cancels, what the report lists as
declared and unused, tunnels that outlive the permit. No liveness is claimed.

What reading the code showed besides, without being a violation of a stated property: a failed append of a taint event is swallowed by the
catch of `buildContext`; two commands with the same first word have one fingerprint, so an
approval of one covers the other.

## 7. RunStream: from message to screen

`RunStream` has `HEIMDALL=off` and the runners of `codex-runner.ts` and
`container-codex-runner.ts`. Its parts:

* `CodexProcess`: one active process per Agent, its exit, time-out, output limit, SIGTERM and the
  SIGKILL timer, and for a container the `rm --force` that is remembered per run. `Verdict` is how
  `run` settles. A child whose pipes are held open has exited without settling.
* `EventBus`: numbering, the ring buffer of each run, the eviction of whole runs, listeners.
* `Timeline`: the server's reducers, and the client's `reduceTimeline`.
* `Trace`: the spans of a finished run and their status.
* `Identity`: `mintAgentPrincipal`, `activeFor`, `revoke`, `rotate`, in the order of the map's keys.

### State and actions

The store's queue holds the mutations of admissions, starts, events, closings, watchdog kills and
principals; `ApplyNext` takes the head and the caller goes on in the same step. `Publish` is one
turn's `emit`s: the service's own listener enqueues the event for the stored timeline, and each
stream writes it out and ends itself at a terminal event. `Watch`, `OpenStream`, `Deliver`,
`EndOfStream`, `Refetch`, `Break` and `Poll` are the client's hook. `SendMessage` looks the principal
up before its mutation is enqueued. No write fails and the server does not restart: `Launchpad` and
`Accounts` have both.

### The run

`run_stream` explores six scenarios of `MCRunStream`, each a combination that may interfere: a
watched local run that may be cancelled, swept and timed out; a watched container that is swept or
outgrows its buffer; two messages with overlapping cancels, local and in a container (both runs
share its name); two messages and two revocations; two watched runs of which the second evicts the
first's buffer. `MaxBuffered` is 3 and `MaxTracked` 1, so that both limits are reached; one client.
`CHECK_DEADLOCK FALSE`: messages are spent.

* `ToldWhatIsKept`: what listeners are told of a run's end is the status on record; the pipeline and
  the trace end up agreeing with it, however far behind the store was. A run the watchdog closed is
  exempted from the second part: its late execution may reopen its timeline.
* `StreamsAreFaithful`: a stream is gapless and in order, buffer and eviction aside, and a client
  that joined in time shows what the server has.
* `CancelMeansStopped`: a cancel that answers has ended the child this server started, and its run is
  cancelled on record. In a container the child is the engine's client: when `rm --force` fails the
  client is sent signals (`container-codex-runner.ts` 132), and the container, which the code no
  longer looks at and which has no state here, may run on. `RevocationHolds`: no message
  is admitted after every principal's revocation was answered.
* `SeesTheOutcome` (liveness): a client that stays with a run the watchdog sweeps learns that it is
  over, even if the process never ends, by stream, last
  fetch or polling.

Fairness: the event loop applies the head of the queue (`WF(ApplyNext)`), the sweep runs every
fifteen seconds and finds a run that stays too old (`WF(Reap(r))`), and a client that stays gets the
answers to its requests (`WF(Client(w))`). Nothing is assumed of the process or of the container
engine.

Seen on the way: a run the watchdog closes before its runner starts is executed all the same; the
closing mutation sets the status and the terminal event's own mutation the timeline, so a client
that fetches in between shows an open pipeline of a finished run; `rm --force` of a container that
is not there yet is not repeated; a poll answered late shows a finished run as active again, after
polling has stopped; a revocation does not end the run in flight, which the comment at
`identity.ts` 111 says it does.

### Proofs

`RunStreamProofs` proves, for any runs, watchers, scenarios and bounds of the buffers:

* `RevocationIsKept` (`RevocationHolds`), `CancelsStop` (`CancelMeansStopped`), `WhatIsToldIsKept`
  (`ToldWhatIsKept`) and `StreamsShowTheLog` (`StreamsAreFaithful`), each as the run checks it.

The invariant is `IInv`. Its parts, and why each is there:

* `ProcessIsAwaited`: the entry of the active map is that of an execution at `runner.run`, and a child
  is there exactly when the entry is. A cancel could otherwise mark an entry nobody settles.
* `MovesInOrder`: a mutation in the queue is the next move of its execution, which has one at most, and
  the watchdog's stands behind the start of its run. Without it a start could come after the kill
  and set the run to running again.
* `StatusFollows`: a run the watchdog left alone has the status of its execution's stage; one it
  closed is failed. It ties the store to the executions, and is how `Close` knows that a run
  it finds open is its own.
* `CancelsWait`: a cancel waits for a process that it marked, or the run of that process has settled
  as cancelled. `CancelMeansStopped` is the last line of it, and is not inductive alone: what makes
  the verdict "cancelled" is the mark, set long before.
* `TablesInOrder`, `MessagesHavePrincipals`: the tables of principals on their way to the store only
  ever add revocations, each later than the one before; and a queued message has a principal that no
  table ahead of it takes away. `SendMessage` reads the directory before it enqueues, so that both
  orders of a revocation and an admission are in the queue, and neither may be wrong.
* `Announced`, `EndsAreRecorded`: the end of a run is in the log once, with the run's status, and
  last unless the watchdog closed the run; and it is the last of its events in the queue until it
  is recorded, after which nothing of the run is queued. They are the two halves of
  `ToldWhatIsKept`, before and after the store has caught up.
* `ServiceListens`, `Buffered`: the service listens to a run as long as it is executed, so that the
  run's buffer is not evicted, and the buffer holds the newest events, all of them until it is full.
* `Streaming`, `WatchedAreUsed`: what was handed over, followed by what is under way, is a stretch of
  the log; the two together reach to the newest event as long as the stream is served. A client
  that joins gets the buffer: only `ServiceListens` and `Buffered` say that nothing is missing in it.

`StreamsAreFaithful` has two parts. `CarriesTheLog`, what a stream has carried, follows from `IInv`.
`ShowsWhatIsKept` compares two pipelines, the store's and the client's, that were built from the
same events at different times and from different beginnings: the store applies each event when
its mutation comes up, the client whichever events it was handed to whatever the store held
when it fetched. No induction over the events is needed, because each pipeline is described without
reference to how it was built (`ShowsLast`, `ShowsNone`): an entry is as the last event about it left
it, or passed by a later one, or, when no event is about it, as it was at the start. That is kept
step by step, as a second invariant, `Faithful`, on top of `IInv`:

* `Stores`: while no terminal event is in a run's log, its events in the queue are the newest of the log, in
  the order of their numbers (`Numbers`, `Follows`), and the stored pipeline shows all the others
  (`ShowsRecorded`). The numbers are what tells two events of the same content apart.
* `Listening`: a stream that is served listens to a run that is not over. Only then do the two
  pipelines have to agree: an end closes what is open, in the store and in the client at
  different moments.
* `ShowsHanded`: what a client shows of an entry is as the last event it was handed about it left it. Of
  an entry without any event in the run, what it fetched may already have been passed by an event
  that it is yet to be handed; so that it shows it as at the start, or as passed, and if passed
  then by an event of the run.

A client that was handed the whole log then has, entry by entry, what the store has once the queue
holds nothing of the run.

The lemmas before the invariance are about the operators: what `Capped`, `EvictIfNeeded` and `Emit` make
of a bus, what `PublishOne` makes of the buffers and the streams (`Grown`), and how a step that
serves the head of the queue, or adds to its end, keeps the orders in it (`Serves`). A turn says
three things at most, so that `Publish` is `PublishNth` three times and needs no induction.

## 8. The other parts

### Accounts: principals across restarts (proved)

`Accounts` has `createAgent` in its three steps, the revoke and rotate routes, `deleteAgent`'s end,
the store's queue with writes that fail, and `Restart`: a crash and a boot. `SeedsBeforeLoad` is the
boot order, as in `Launchpad`: with that of `index.ts` (TRUE) the principals are restored from a
store that has not loaded its file, and an empty table is written over it (finding 2). Between the steps of one creation
other requests change the directory and write the whole table. `promised` is history: the
principals whose revocation was answered. `AccountsProofs` shows for any number of Agents, humans
and requests that

* an Agent has one principal in force at most, in memory and in the table (`OneInForce`);
* an answered revocation is never taken back (`RevocationsLast`), if the store is loaded first
  (`~SeedsBeforeLoad`); with the other boot order no principal survives a restart;
* every stored Agent has a principal (`StoredAgentsHavePrincipals`).

The first and the third hold for both boot orders.

None is inductive: a table on its way to the disk could undo any of them. `IInv` adds that tables in
the queue are in order too (`TablesInOrder`: nothing in them is yet to be drawn, and an Agent being
created has in them its new principal at most), that an Agent is stored once by the request that
drew its id (`Creations`), that each table in the queue has the revocations of the ones before it
(`Revocations`) and the principals of the Agents stored by then (`Owned`). It needs no assumption
but that a UUID is not drawn twice, which is the guard of `Mint` and `Rotate`.

What it does not promise is deliberate: a revocation whose write failed holds in memory, a repeated
request answers 409, and a restart undoes it.

### Workspace: files and a run's changes (proved)

`Workspace` has a directory as data and the functions of `files.ts`, the runner's listing and the
planner's digest as operators. The order in which a directory is read is the file system's, so
`IsSnapshot`, `IsSearch` and the like say which results some order gives. `WorkspaceProofs` shows
that `diffSnapshots` is exact and lists a file once, that changes accumulate over runs, that a
snapshot within MAX_WALK_ENTRIES is whole, and hence that a run's recorded changes are exactly the
reachable files that differ in presence, size or time. A change that keeps size and time is not
seen; that is what `Differs` says.

### Failures: errors and silence (proved)

An error is the chain of its causes, finite or leading back to itself. `PureProofs` shows that
what is stored is an unbroken beginning of at most nine causes, that the output of the first cause
which carries any reaches the closed run, that a run is shown as stuck exactly when it is open and
silent beyond the threshold or waits for an approval, and that it stays so while nothing more is
heard. The clock of the client is any number, so nothing is assumed of its agreement with the
server's.

### HashChain: the ledger's hashes (proved)

`HashChain` is `append` and `verify`, with the hash an uninterpreted operator. `verify` finds the first
broken link and no other; an append keeps a chain valid; two valid ledgers of one length with the
same last hash are equal (`PureProofs`), if the hash is injective (a hypothesis of that theorem); and a ledger cut
short verifies, so that missing last events do not show. The induction over the ledger is carried
out with the least-element principle of the natural numbers (`WFMin`), which has no operator
parameter: of the positions where two ledgers differ there would be a least distance from the end.

### Streams, Journal, Globs, Launch (checked)

`PureChecks` states, as named assumptions that TLC evaluates before `run_stream`, that these
operators agree with reference definitions on every small input:

* `PathsResolve`: `resolveWorkspacePath` gives the file a path leads to, name by name, or refuses it.
* `PicksAreTheFirst`, `ExcerptsFit`: which files the planner is shown, and how much of them.
* `StreamsArriveWhole`: the lines of codex and the repaired stream of a provider do not depend on
  how the bytes are cut into chunks, as long as no character is cut. When one is, it is lost: each
  chunk is decoded on its own (`codex-runner.ts` 171, `proxy.ts` 85).
* `UsageIsRepaired`: the usage codex needs is complete, and the repair is idempotent.
* `JournalsAreKept`: the journal is bounded and its entries stay.
* `GlobsMatch`: `*` and `?` stay within a name. `src/**/x` also matches `src/foox`: `**/` becomes `.*`.
* `LaunchesAreApart`: container names of one server's Agents are distinct, those of two servers when
  their instance ids fit the 32 characters kept of them (the schema allows 48).

## 9. Findings

1. **Two active runs of one Agent** (`launchpad_two_active`). `docs/ARCHITECTURE.md:32` says "One
   Agent can have only one active Run." After a watchdog kill the killed execution's own closing
   mutation still writes the Agent's status (`agent-service.ts:593`). If a message was accepted
   in between, the Agent becomes ready or error during its run, and the next message is admitted.
2. **A restart empties the database** (`launchpad_restart`). `docs/ARCHITECTURE.md:42` says
   interrupted runs become `cancelled` after a restart. `index.ts:19` seeds identities, which
   persists the store's initial empty data, before `initialize` loads the file.
3. **A failed turn is re-offered to the same participant** (`coordination_reoffer`).
   `coordination.ts:202` says "The number is re-offered to the next participant."; the next
   participant depends only on the number of committed messages.

4. **A cancel does not remove the agent's container** (`heimdall_cancel`). `HEIMDALL.md:241` says
   "Cancelling a run tears down its containers". `runner.ts:829` remembers the container under a
   name with the permit's id, `broker.ts:479` starts it under one without: `removeContainer` of the
   remembered name removes nothing. The sidecar does go, so the container is cut off, but it runs
   on until it ends of itself. The time budget, the output limit and a blocked action use the same
   name.
5. **A cancel during reconnaissance is swallowed** (`heimdall_recon`). `HEIMDALL.md:243` says "A
   cancel now reports as `cancelled`". The cancel finds the entry of the first reconnaissance
   container and answers true; when that container ends, `spawnCodex` throws `RunCancelledError`, and
   the `catch` around the attempt (`runner.ts:468`) takes it for a failed attempt. The second
   attempt knows nothing of the cancel; the run is granted its permit and executes.
6. **A policy change invalidates no approval** (`policy_change`). `heimdall/index.ts:152` says "a policy
   change invalidates approval precedents — that is the point". `invalidateApprovals` drops the
   approvals of another `TERM_SHEET_VERSION` (`store.ts:148`), a constant of the build: an approval
   given under the old policy still opens its capability under the new one.

## 10. Proved, model-checked, not modelled

*Proved for all constants*: the theorems listed in `PROJECT.json`, in the eight modules `LaunchpadProofs`,
`CoordinationProofs`, `HeimdallRunProofs`, `AdjudicationProofs`, `RunStreamProofs`, `WorkspaceProofs`,
`AccountsProofs` and `PureProofs`. `Accounts`,
`Workspace`, `Failures` and `HashChain` have theorems and no run.

*Model-checked only*: the liveness properties (`EveryRequestReturns`, `WatchedRunsClose`,
`DriversLeave`, `SeesTheOutcome`) and everything under fairness, which are out of the prover's
reach (`EveryRequestReturns` and `DriversLeave` suppose that the runner answers); and what folds and recursive functions compute (`PureChecks`), since induction over data is out of
the prover's reach. Every safety invariant and action property that TLC finds to hold is stated by a
theorem, `OneActiveRun` and `CancelledRunIsClosed` under `Calm`.

*Not modelled yet*: row 11 of the plan. Of HeimdallRunner: the host-process mode and the
preflight checks of images. Of the egress proxy: sockets, and tunnels that outlive the permit. Of
the store: the metrics, except which runs count as contained. Of IdentityDirectory: humans and their
tokens, and with them the ownership checks of the routes. A write that fails or a restart in the
middle of a streamed run, which `Launchpad` and `RunStream` have apart.
*Not to be modelled*: prompts, wording and presentation, generated or deployment code, and the
second copy of Heimdall. Identity checks in `sendMessage` are left out of `Launchpad`: a refusal
there has no effect on its state; `RunStream` has them.

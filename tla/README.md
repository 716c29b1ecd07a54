# DuraSH: a TLA+ development

DuraSH is an agent harness. Its own addition to the harness it is built on is
*reliability*: an implementation is carried out by one agent, judged by another
and reworked at most once, with every transition durable, so that a restart
continues where the last process stopped. This directory models that core, the
storage it stands on and the machinery its stages run on (workflow runs, agents,
tool calls, background jobs), checks the models with TLC and proves with TLAPS, for
every value of the constants, each safety property that TLC checks and each
refinement between the modules.

All paths below are relative to `src/packages/`. `loop/` abbreviates
`reliability/durash-reliability-loop/src/`.

## 1. Inventory

| Component | State it keeps | Operations | Interaction |
|---|---|---|---|
| Loop driver (`loop/driver.ts`, `checks.ts`, `types.ts`) | cancel flag, current run, last acceptance status, result promise; the loop's record lives in storage | `drive`, `cancel`, `dispose`, one stage per iteration | awaits the acceptance store, `git diff`, the workflow engine and `table.put`; cancelled from outside at any await |
| Loop runtime (`loop/index.ts`) | maps `live`, `liveByOwner`, `owners`, `waiters` | `start`, `handoff`, `resume`, handle `cancel`/`park`/`dispose`, teardown | calls of one session overlap at awaits and share one driver |
| Acceptance store (`loop/acceptance-store.ts`) | tasks with requirements, receipts, reviews; a queue per task and per session | `plan`, `run`, `inspect`, `review`, `drain` | runs commands in the shared workspace; called by tools and by the driver |
| Acceptance evaluation (`loop/acceptance.ts`) | none | which checks pass for the current identities | pure |
| Storage domain (`storage/storage-domain/src/`) | in-memory tables, one write chain, open/closing/closed | `open`, `put`, `delete`, `update`, `close` | one backend unit; emits `domain/changed` |
| JSON backend (`storage/storage-json/src/`) | files; the single-file unit also a copy of the tables | `loadAll`, `putRecord`, `deleteRecord`, `backupRecord`, `close` | file system: temp file, fsync, rename, directory fsync |
| Reliability policy, tool (`reliability/durash-reliability-policy`, `durash-tool-reliability`) | switch and model routes per session | enable, select, the handoff tool | the tool is the caller of the runtime |
| Workflow run (`workflow/workflow-ptc/src/`) | host: children, pending startups, live agents, abort signal; guest: slots, progress queue | `cancel`, `dispose`, `startChild`, `childResult`, `disposeChild`, `progress`, the script's `agent()` | executes a stage of the loop; host and guest exchange messages; a provider starts children |
| Agent loop and inbox (`core/agent-loop/src/agent.ts`, `inbox.ts`) | phase with its abort signal and latched wake; two pending lists | `send`, `cancel`, `runMaintenance`, claim and remove, the driver's turns and steps | listeners may reject, rewrite and call back at every await |
| Tool call scheduler (`core/agent-loop/src/tool-calls.ts`), recovery (`core/session/src/repair.ts`), checkpoints (`session/session-checkpoint-policy`) | one step's calls, slots and pool; the session log | grouping, start, commit, abort, failure; flush before a body; closers of an open turn | called by a step of the agent loop; recovery reads what a crash left of the log |
| Background jobs (`jobs/jobs-local/src/`) | store of records, output rings, owner cleanups | `start`, `append`, `kill`, `read`, `wait`, `remove`, teardown of an owner and of the registry | producers, a polling pump, agents' scopes |
| Goals, schedule, session persistence, subagents, approvals, controller, clients | own state machines | | not modelled |

What is hard here is never a computation. It is what may happen between two
awaits of one handler: a cancel, an edit of the workspace, a second caller, a
rejected write, the teardown, the death of the process. `PROJECT.json` lists
each such place as a hazard with its line and the property that watches it.

The properties that make the components correct:

* driver: at most one rework; settled attempts and terminal outcomes are final;
  a cancel is respected wherever it arrives, and settles; a gated loop completes
  only on a candidate that was reviewed, is unchanged and passes;
* runtime: one driver per loop, released by its last waiter, its slot freed by
  nobody else; teardown waits for every driver; teardown and disposal end;
* acceptance: an approval stands only over the receipts and the plan it was given
  for; receipts are immutable once settled and exist before their command runs;
  user requirements survive every revision; every call settles;
* storage: atomic durable writes in call order, memory equal to the medium (also
  for its users: what is read is what is stored), no trace of a rejected write, a
  close that drains;
* workflow run: no child outlives the result, an accepted cancel is the outcome,
  announcements pair up and come while the child is registered, disposal ends;
* agent loop: a message has one place or one fate, the log is balanced at every
  exit, an abort only unwinds, no wake is forgotten;
* tool calls: one answer for each request, in order, also after a failure (unless
  recording it fails too) or a crash; "not run" is never said of a call that ran; exclusive calls run alone;
* jobs: every owned job has somebody to tear it down, settlement comes once,
  after all output, and keeps what was not read.

## 2. Modules

| Module | Models |
|---|---|
| `LoopRecord` | the stored record, `assertReliabilityLoopRecord`, and the record each transition writes |
| `BoundedLoop` | abstract: an outcome and the number of settled attempts |
| `LoopDriver` | one loop, its driver, the storage beneath it, runs, gate and workspace |
| `LoopRuntime` | ownership of loops by overlapping callers, and the teardown |
| `Acceptance` | requirements, receipts and reviews of one session under overlapping calls |
| `TableWrite` | put, delete and update as functions of the current record |
| `DurableTable` | abstract: each write commits at one instant between call and answer |
| `StorageDomain` | one domain over the JSON backend in either layout |
| `RunHandle` | abstract: what the holder of a workflow run relies on |
| `WorkflowRun` | one run, host and guest |
| `AgentLoop` | one agent's driver and inbox |
| `ToolCalls` | one step's tool calls, their checkpoints, and crash recovery |
| `OutputRing` | the bounded output ring, as the offsets of its chunks |
| `Jobs` | the job registry with its pump and teardowns |
| `LoopDriverProofs`, `LoopRuntimeProofs`, `AcceptanceProofs`, `StorageDomainProofs`, `WorkflowRunProofs`, `AgentLoopProofs`, `ToolCallsProofs`, `JobsProofs` | the theorems about the module each is named after |
| `MC*` | the instances TLC checks |

JavaScript runs a handler to its next `await` without interruption. So in every
module an action is one synchronous segment of a handler, and a program counter
(`pc`, `call[c].pc`, `call[c].state`) names the await it is suspended at.
Everything else may happen in between.

**LoopDriver.** `mem` is what `table.get` returns and `disk` what a restart
would load; `putDurable`, `putReturns` and `putRejects` are the three outcomes
of `table.put`. `driveStages` is one iteration of the loop up to its first
await; an implementation stage reaches `engine.start` in that segment, a review
stage first awaits `acceptance.inspect` (when the loop is gated) and the diff.
`StageCannotStart` is the `catch` around all of it. `runSettles` and
`runDisposed` are the two awaits of the run, `applySettled` and `applyReport`
what follows them in one segment, `reviewInspects` and `reviewReturns` the two
halves of `acceptance.review`. A record is reduced to what the stage machine
tells apart: stage, the rounds of the two attempt slots, the verdict, and
whether it is gated, settled and failed. A candidate identity is a member of
`Keys`, and `edit` changes the workspace and the state of its checks at any
time. `shown`, `vouched` and `faulted` are history variables.

**LoopRuntime.** The drivers are reduced to what a handle shows. One session
owns all loops, since `liveByOwner` keeps owners apart. A call that throws
leaves the state unchanged and is therefore not a step, except after an await
(`proceed`, `putReturns`). Loop ids are numbered in creation order, which is the
order `unsettledOwned` compares, and drivers in the order `own` made them.
`putLands` is the moment a new record is in the table and `putReturns` the rest of
`start()`, which may find that a `resume` was faster. `driverWrites` does not come
between the two: the continuation of `start()` is a few microtasks away, and a
driver's first write is behind the start of a run and the publication of a file.
A driver's put may be rejected (state `rejected`); it leaves the record open, and
another driver may then be made for the loop.

**Acceptance.** `Tools` are calls of `dsh_acceptance` (`plan`, `run`), `Drivers`
are loop drivers (`inspect`, then `review` with the key they were shown); a
status read by a tool is an inspection that is dismissed. `planTail` and `tails`
are the chains of unsettled promises, and `Turn` is what `queue` guarantees. A
row is computed in one segment and lands in another (`Put`, `putReturns`), as in
`LoopDriver`. `tasks` is what reads return and `stored` what a restart loads. They
are two variables because `run()` has one receipt object, which the row in memory
holds by reference from its first put on (`domain.ts:307-313`,
`single-unit.ts:79`): `Writes` changes it in `tasks`, and in the snapshot of an
inspection under way, in the segment that computes the next row; only a put that
returns brings it to `stored`, and a restart takes it back. The unit is one file, so
a put of one row also publishes what memory has of the others; `late` are the rows
changed while the file was already serialised. It may be any set of other rows,
which is more than the code shows. A put that is rejected by the directory fsync
after its rename (`StorageDomain`, `DirSyncFails`) is left out here. A requirement keeps its origin, whether it is required and its
executable part; the first two stand for all that `requirementPromise` fixes.
`work[k]` is the content of the scope of check `k`, and `diff` is all of `work`,
read later than the single scopes, so an inspection may be torn by an edit.
Failed, unverified and cancelled receipts are one outcome, `"rejected"`, because
nothing in the store tells them apart; a candidate with a problem has the key
`Unknown`, because it is never approved whatever its key.

**StorageDomain.** `files` is what the running system reads, `synced` what a
power loss would leave. `PowerLoss` chooses whether a crash is the death of the
process or of the machine; `PerRecord` chooses the layout. The transform given
to `update` is an increment, so that a lost update shows. The global slot is one
more key of the same chain and is not modelled apart.

**WorkflowRun.** The host's `drive()` is `drive`, a child's record in the host is
`child[c]` and the script's `agent()` call is `call[c]`; the call id the host
counts and the sequence number the guest counts are one number here. A message
between the two is not a variable: a request is handled, and its reply received,
at any later step, so that replies overtake each other freely. Only the progress
channel has an order of its own (`inFlight`, `queued`). `Pending` is the host's
`pending` set reduced to startups, because the other tracked tasks end with the
abort. The script is arbitrary: it may drop calls and return at any time. Once
the signal is aborted every binding throws, so what the guest does from then on
cannot reach the host and is left out.

**AgentLoop.** `phase`, `abort` and `wakeRequested` are the fields of `Phase`;
`at` names the await, or the event whose listeners may call back, at which the
running driver stands. The places are `open` (before `turn/start`), `claim`
and `claimTurn` (before the first and the second splice of `claim()`), `preStep`
(assembly and the pre-step listeners), `step`, `admit` (the request-context
listeners), `request` (the model and its tools), `stopping`, `turnEnd` (the observers
of `turn/end`, before `hasPending` is read and the controller replaced) and `retire`
(between `turn()` returning and the `finally` of `kick()`). At `claim`, `claimTurn`
and `turnEnd` (`Publishing`) only the observers of the driver's own append run. The
session refuses an append that reenters (`session/src/index.ts:862-868`), so they
can cancel with `keepInbox` or over empty lists, and do nothing else. What the
observers of a *caller's* append do happens before or after that caller's action.
`Failures` selects what listeners and steps may do. `fate` is a history of every message:
`dropped` is one that was claimed by a turn that then threw or was rewritten.

**ToolCalls.** `pc` is where `executeToolCalls` and `runGroup` are suspended;
`call[i]` is the state of a call: `preparing`, dispatched (`checkpoint`,
`running`), or settled (`slot`, `rejected`). `log` holds the events of one step,
and `durable` the prefix that a flush has made durable; a crash keeps any prefix
from `durable` on. `Closers` is `openTurnClosers` with `ToolCallRecovery`, used by
`Resume` after a crash; its first part, `results`, is what `DrainEnds` records for a
batch that failed, as the `catch` around `step()` does. An append may reject wherever
a batch appends, and `executionMode` may throw (`PlanFails`, `StartFails`,
`CommitRejects`); it may also reject in the `catch`, and then the step ends with the
answers recorded so far and `unrecorded` is set. Only the append of `step/end` is
taken to succeed. Call ids are positions, so model order is number order.

**OutputRing and Jobs.** A chunk is the absolute byte offset it starts at, and ends
where the next one starts or at the ring's `total`; so every position and length the
code computes is a difference of offsets, in UTF-8 bytes. `TailBytes` is the
set of lengths `utf8Tail` may leave, since a cut moves past up to three
continuation bytes. A job record keeps status, owner, settle cause, whether its
`done` settled, the pump's state and a waiter. `owner[o]` is the scope of an
agent: it unwinds, runs the attached cleanup and is gone when every effect of it
is. `sweeps` are the teardowns suspended at `await Promise.all(settled)`; when the
registry closes, the cleanup it detaches from each owner is a sweep of its own, with
more interleavings than the effects of a scope show.

## 3. Runs

| Run | Result | Question |
|---|---|---|
| `loop_driver` | passes | does one loop, under crashes, faults, cancels and edits, keep every promise of the driver? |
| `loop_runtime` | passes | who can take the slot of a loop from a driver that has not settled, is the waiter count exact, and do disposal and teardown end? |
| `loop_runtime_overlap` | `OneUnsettledLoop` violated | does `handoff` never start a second loop? |
| `acceptance_review` | passes | does a stored approval match the stored plan and receipts when edits, runs and revisions race the review? are commands on record? |
| `acceptance_tools` | passes | do overlapping tool calls, rejected puts, restarts and the teardown keep limits, the session's task and its user requirements, and does drain cover them? |
| `acceptance_runs` | passes | are settled receipts final when two runs of one task overlap, puts are rejected and the process restarts, and does every call settle? |
| `storage_single` | passes | does a single-file domain give atomic durable writes, also under power loss? |
| `storage_per_record` | passes | does a per-record domain, over any medium an older version left, serve valid records only, agree with the medium and close drained? |
| `workflow_run` | passes | does a run release every child, pair every announcement and settle, and is it the handle its holder relies on? |
| `agent_loop` | passes | do sends, cancels, removals and failures at any await lose or double a message, unbalance the log or forget a wake? |
| `tool_calls` | passes | is every requested call answered once, in order and truthfully, under aborts, failures and crashes? |
| `jobs` | passes | do overlapping starts, settlements and teardowns leave an orphan, a lost byte or a second outcome, and does teardown end? |

Each property of a passing run has a mutant: a definition marked `Wrong` beside
the one it replaces, wrong in the way the code could plausibly be wrong, under
which TLC finds the property violated.

Distinct states of the passing runs, in thousands: `loop_driver` 428, `loop_runtime`
522, `acceptance_review` 3140 and `acceptance_tools` 584 (both with symmetry),
`acceptance_runs` 108, `storage_single` 46, `storage_per_record` 1795, `workflow_run`
306, `agent_loop` 148, `tool_calls` 677, `jobs` 387.

Some properties are conjunctions. Where a type invariant is not listed by itself
it is the first conjunct of another one: `WaitersAreHandles`, `OwnedJobHasKeeper`,
`BalancedLog` and `AnsweredInOrder` include the `TypeOK` of their modules;
`Acceptance!TypeOK` includes that the active pointer names a stored task,
`StorageDomain!TypeOK` that a closed domain is drained, `WorkflowRun!TypeOK` the
bound on concurrent children, `LoopRuntime!TeardownEnds` that disposal ends, and
`ApprovalRestsOnEvidence` that a command runs only with its receipt on record.

### What the violated run shows

`loop_runtime_overlap`: `handoff` looks for an unsettled record and then awaits the
put of a new one. A second handoff in that window sees no record and no driver. Both
start.

### Known deviations without a run

These were found with the same models. Each is reproduced by checking the named
property instead of the listed ones in the configuration of a passing run of that
module (where there are several, the one that is named), with the constants changed
where some are named.

* `LoopRuntime!NeverTwoDrivers` with `MaxDrivers = 3`: `releaseDriver` deletes
  `live[loopId]` (`loop/index.ts:312`) whichever driver is registered there. It takes a
  rejected put, which leaves the record open under a settled driver, and two
  overlapping releases of that driver: the first frees the slot, another call gives
  the loop a second driver, the second release frees *its* slot, and a resume gives
  the loop a third one beside it. `loop/index.ts:8-9` says resume "never lets two live
  drivers own one loop". `FirstDriverKeepsSlot` is what remains true.
* `LoopRuntime!QuietBeforeClose`: `stopLiveLoops` takes the drivers that are live,
  awaits them, and clears the map. A driver registered meanwhile is neither cancelled
  nor waited for, and drives on over a closed domain, where the package's
  `README.md:94` says that teardown "awaits every live driver's quiescence before the
  domain closes".
* `Acceptance!ReadsMatchMedium` (`Acceptance_runs.cfg`): `run()` sets the outcome of a
  receipt that the row in memory holds by reference, and then puts the row
  (`acceptance-store.ts:196-202`). When that put is rejected, reads show a settled
  receipt, the medium has it running, and the next restart reverts it;
  `storage-domain/src/domain.ts:5-7` promises "no divergence between reads and the
  medium". `ReceiptsAreFinal` says what remains: on the medium a settled receipt is
  final, and in memory until a restart. An approval is not affected, because a run
  drops the approval before it changes the receipt (`ApprovalRestsOnEvidence` is about
  memory and medium both).
* `StorageDomain!MemoryMatchesMedium` with `DirSyncFails = TRUE`
  (`StorageDomain_perrecord.cfg`): after the rename only the directory fsync can fail
  (`storage-json/src/atomic.ts:35`), and then the write is rejected and present. For a
  loop this means that a driver resumed in the same process runs a settled attempt
  again; the theorems that need it exclude this fault.
* `StorageDomain!CrashKeepsResolved` with `PowerLoss = TRUE`
  (`StorageDomain_perrecord.cfg`): the per-record unit removes a document with `rm` and
  does not sync the directory (`per-record-unit.ts:228`), so a power loss brings it
  back; `storage/storage/src/backend.ts:80-82` says "durable once resolved".
* `StorageDomain!LegacyIsImported`: documents of a legacy unit are
  copied one at a time, and the first one suppresses the bootstrap of the next
  open (`per-record-unit.ts:100`); `per-record-unit.ts:111-112` says "Every
  declared-table record is copied".
* `Acceptance!ReviewSawReceipts`: the candidate key lists receipts by id
  (`acceptance-store.ts:262`). A check that is running when the candidate is shown
  may settle before `review` inspects again; the keys agree, and an approval is
  recorded over an outcome the reviewer did not see. For an optional check it may
  be a failure; a required one must have passed (`ApprovalRestsOnEvidence`).
* `AgentLoop!LiveDriversClaim` with `Failures` and `Causes` empty: a turn whose proposal
  is empty and gets no context returns at `agent.ts:326-328` without reading
  `hasPending`. A prompt sent while that turn awaited the assembly or the pre-step
  listeners found the phase running and its signal not aborted, so `wakeDriver` left it
  to the live driver, which retires; `agent.ts:217` says "live drivers claim queued work
  themselves". The prompt stays pending until the next wake. (The same can happen in the
  microtask between `hasPending` at `agent.ts:392` and the `finally` of `kick()`. The
  repository knows that gap and accepts it:
  `.agents/notes/archived/bug-fix/2026-08-07-cancel-convergence-wake-latch.md:30`.
  `LiveDriversClaim` speaks of the driver's decision and does not count it.)
* `AgentLoop!DisposalParksWakes`: `AbortController.abort` keeps the first reason. An
  activity cancelled by the user and then by disposal still reads "user", so a
  later wake is latched and a driver starts on a disposed agent, where
  `agent.ts:218` says "disposal never latches".
* `Jobs!TeardownIsAnnounced`: a `kill()` during the teardown's wait overwrites
  `settleCause` (`jobs-local/src/index.ts:491`), and the settlement announces
  `kill`, where `:697-699` says that it announces `teardown` "whatever settles
  this job from here on".

`drain` waits for the calls queued when it is called and refuses no later one. So
`DrainCovers` says nothing of a call made during the teardown, which may still be
under way when its domain closes. The same holds of an *unowned* job started while
`disposeAll` awaits its settlements: no cleanup is attached for it, and
`OwnedJobHasKeeper` speaks of owned jobs only.

Two things that the models show are as intended, and the properties allow them. An
abort by an observer of `turn/end` does not stop the next turn, which gets a fresh
controller (`agent.ts:393`); the notes of the repository say so
(`.agents/notes/archived/architecture/2026-07-16-explicit-turn-cancellation.md:20`).
And a failed step whose recovery cannot be recorded ends with requests unanswered:
`core/agent-loop/tests/tool-calls.spec.ts:725-747` tests exactly that, and
`core/agent-loop/README.md:217` says that such history is not repaired later, while
`README.md:130` there speaks of "each unanswered assistant tool call".

### Bounds

* `LoopDriver` has no bounds of its own: stages, rounds and flags are finite,
  crashes and resumes unlimited. Two candidate identities are enough because the
  gate only compares two of them.
* `LoopRuntime`: two callers, two objectives, two loops, two drivers
  (`MaxLoops`, `MaxDrivers`). Two callers give every overlap of two calls; the
  second driver is the successor in every hand-over, also of a rejected driver that
  two calls release one after the other, so that it does lose its slot; the second
  objective reaches the refusal and the release of a settled predecessor.
* `Acceptance`: one check, which a plan declares as a user requirement or as an
  optional one. `acceptance_review` has one tool, one driver, two contents, two
  attempts (`MaxAttempts`) and two plans (`MaxRevisions`), so that an edit, a run
  and a revision each meet a pending review and a stored approval.
  `acceptance_tools` has two tools and two task ids (`MaxTasks`), because a
  session gets a second id only after losing the pointer of its first.
  `acceptance_runs` has one task with two attempts for two tools, so that two runs of
  it wait for each other. Teardown is off in the first, where it would only multiply
  states.
* `StorageDomain`: two writers, two keys, values `0..1` (`MaxValue`). Two writers
  overlap in every way the chain allows, the second key distinguishes a
  whole-file publish from a document's, and with two values a lost increment is
  visible. Crashes, re-opens and closes are unlimited.
* `WorkflowRun`: four `agent()` calls (`MaxTotalAgents`) on two slots
  (`MaxConcurrentAgents`), so that two calls wait for slots while two run, and one
  may start late while another is being disposed.
* `AgentLoop`: three prompts and one note, each sent once. The first prompt starts
  the driver, the second meets it at any place, the third meets what the second
  left (a latch, a queued turn). Turns, cancels and maintenance are unlimited.
* `ToolCalls`: three calls in every mix of modes, a pool of two (`MaxParallel`), one
  change of mode (`MaxSwitches`), two crashes (`MaxCrashes`), the second one after a
  recovery. Three calls over a pool of two give a call that waits while one is in
  flight and one is settled out of order. An instance with four calls and one
  crash (2.4 million states) was checked once with the same result.
* `Jobs`: two jobs, one agent; the first job streams (`MaxBytes` 3, chunks of 2, and
  one byte staged by the starter) over caps of 2 and 1 bytes, so that both trims,
  the cut of a single chunk and unread output happen; the second may be unowned.

Deadlock is checked except in the `LoopRuntime`, `Jobs` and `ToolCalls` runs, where
callers may be done, the registry closed or the step ended for good.

### Fairness

* `LoopDriver!Fairness`: the driver's own awaits settle (the store's queue moves,
  `git diff` has a timeout, storage answers, disposal of a run is bounded by the
  engine's grace). A stage run may take forever *unless* it was asked to cancel.
* `LoopRuntime!Fairness`: pending calls go on, a cancelled driver settles (that
  is `LoopDriver!CancelSettles`), a teardown that began continues. No caller has
  to dispose and no driver has to settle by itself.
* `Acceptance!Fairness`: each call's next await is answered: commands and probes
  are bounded by the executor, puts by storage. No call has to be made and no
  reviewer has to reach a verdict.
* `WorkflowRun!Fairness`: the runtime stops an aborted program and returns a
  finished one (it holds the process), a provider honours the signal it was given
  at startup and ends a disposal. The script, and a child, may run for ever until
  cancelled.
* `AgentLoop!LiveSpec`: the driver's awaits and a maintenance task settle; nobody has
  to send or cancel.
* `ToolCalls!Fairness`: policies, flushes and bodies settle. `tools/src/index.ts`
  awaits a started body to its end even when aborted, so this is what the code
  itself relies on. No abort and no recovery after a crash is assumed.
* `Jobs!Fairness`: continuations run, a disposing scope runs its effects, and a
  producer whose cancel returned reports in the end; the code says of one that
  never does that teardown may stall (`jobs-local/src/index.ts:689-693`).
* `StorageDomain!Fairness`: file operations answer; a close that began ends. No
  re-open and no call is assumed.

## 4. Proofs

Every module that models a component has a module of proofs about it. All theorems
are about the `Spec` that the runs check, quantify over all constants that satisfy
the `ASSUME`s of the module, and have proofs checked to the last leaf.

| Theorem | States | Assumes |
|---|---|---|
| **LoopDriverProofs** | | |
| `TypeCorrect` | `TypeOK` | |
| `RejectionNeedsFault` | `RejectsOnlyOnFault` | |
| `CancelIsRespected` | `CancelWritesOnlyCancelled` | |
| `SettledAttemptsAreFinal` | `NeverRerunsSettled` | no directory sync failure |
| `DriverImplementsBoundedLoop` | `ImplementsBoundedLoop` | no directory sync failure |
| `GatedCompletionIsVouched` | `CompletedWasVouched` | no directory sync failure |
| **LoopRuntimeProofs** | | |
| `OnlyPredecessorsFreeTheSlot` | `FirstDriverKeepsSlot` | |
| `WaitersCountHandles` | `WaitersAreHandles` | |
| **AcceptanceProofs** | | |
| `RowsWithinLimits` | `TypeOK` | |
| `ApprovalsRestOnEvidence` | `ApprovalRestsOnEvidence` | |
| `SettledReceiptsStay` | `ReceiptsAreFinal` | |
| `UserPromisesStay` | `UserPromisesKept` | |
| `DrainForgetsNobody` | `DrainCovers` | |
| **StorageDomainProofs** | | |
| `TypeCorrect` | `TypeOK` | |
| `ReadsMatchMedium` | `MemoryMatchesMedium` | no directory sync failure |
| `ResolvedWritesSurvive` | `CrashKeepsResolved` | power loss only with the single file and no directory sync failure |
| `DomainImplementsTable` | `ImplementsDurableTable` | no directory sync failure; power loss only with the single file |
| **WorkflowRunProofs** | | |
| `TypeCorrect` | `TypeOK` | |
| `RunSettlesClean` | `SettledIsClean` | |
| `AnnouncementsNameLiveChildren` | `AnnouncedWhileLive` | |
| `RunImplementsRunHandle` | `ImplementsRunHandle` | |
| **AgentLoopProofs** | | |
| `MessagesAreConserved` | `MessagesConserved` | |
| `LogIsBalanced` | `BalancedLog` | |
| `AbortUnwinds` | `AbortedOnlyUnwinds` | |
| **ToolCallsProofs** | | |
| `ExclusiveCallsRunAlone` | `ExclusiveAlone` | |
| `NothingStartsAfterFailure` | `FailureStopsDispatch` | |
| `RequestsAnsweredInOrder` | `AnsweredInOrder` | |
| `NotStartedMeansNotRun` | `NotStartedNeverRan` | |
| **JobsProofs** | | |
| `OwnedJobsAreKept` | `OwnedJobHasKeeper` | |
| `SettlementLosesNoOutput` | `OutputComplete` | |
| `JobsSettleOnce` | `SettlesOnce` | |
| `SettlementKeepsUnread` | `UnreadSurvives` | |

The third column is not a convenience. Each excluded case is one of the deviations
of section 3, or what follows from it in the module that relies on it: with that
case allowed the property is false of the code. What remains includes every other
fault of the module: rejected writes, crashes, restarts, torn media, aborts,
teardowns. Two properties state such a limit themselves. `FirstDriverKeepsSlot`
excepts a driver that succeeds a rejected one. `WaitersAreHandles` ends with the
first rejected driver, because from then on a handle on that driver counts down the
waiters of its successor, and its release deletes them.

The `ASSUME`s that the proofs added to the modules are what the code gives: there
are finitely many callers (`Acceptance!CallsAssumption`,
`LoopRuntime!CallersAssumption`), an absent waiter count is no number
(`LoopRuntime!NoCountAssumption`: `waiters.get` is `undefined`), limits are
positive.

### The arguments

None of the properties is inductive by itself. What makes them so, per module:

* **LoopDriver**, in four layers. `TypeInv` adds to the types what `pc` says of the
  control state: a driver suspended before a put has a non-terminal record, a run
  exists only around `running`. `CoherentInv` adds that the records in memory, on
  the medium and in the pending put satisfy `assertReliabilityLoopRecord`, and that
  a pending record is a legal successor of memory; so the assertion never fails,
  and a rejection needs a fault. `AgreeInv` relates the copies: memory and medium
  are equal except between `putDurable` and `putReturns`, where the medium equals
  the pending record. Every durable write is then a step of `BoundedLoop`, and a
  run starts only from a record equal to the medium's. A failing directory fsync
  breaks exactly this. `VouchInv` carries the judgement of the gate through the put.
* **LoopRuntime.** Two arguments, over `Names` (what a call or a map names exists).
  Who may take a slot: the registered driver of a loop is its newest (`Numbered`); a
  driver past its terminal record has none to hand on (`Recorded`); so a loop is given
  a second driver only after a rejected one (`Succession`), since `own` needs a free
  slot and an open record, and only the release of a settled or rejected driver frees
  a slot. With these `FirstDriverKeepsSlot` is inductive. How many wait: as long as no
  put was rejected and the teardown has not started (`Calm`), `Owned` holds: a loop has
  at most one driver, ever; the driver's state shows in its record; `live`, `owners` and
  `liveByOwner` agree on it; and `waiters` is the cardinality of the handles on it
  (`Holders`).
* **Acceptance.** The queue is the argument. `QueueInv` says that a call at any
  await past its turn (`Holding`) is the head of its task's queue, and a plan past
  its turn in `planTail` is the head of that. So between the segment that computes a
  row and the put that lands it nobody else changes the stored row, and `PutOK` (the
  row keeps promises and settled receipts, its receipt is the last one, an approval
  in it names the row's own receipts) still holds when it lands. What `run()` writes
  into memory before its put is one step of the same order: the medium `Trails` memory
  by settlements of receipts only, and the receipt of the run under way is the last of
  its row (`OnRecord`), so a put that returns, one that is rejected and a restart each
  leave settled receipts of the medium alone. At most one plan is
  past `planTail`, which is why the pointer is set once. `DrainInv` says that a call
  owed at the drain is not behind the tails it awaits: a settlement takes heads only.
* **StorageDomain.** `Chained`: the chain holds each unsettled write once and only
  its head runs. `Stored`: memory, the files and the unit's copy are equal but for
  the running write, whose state tells which of them has it. The refinement maps a
  write to committed when its rename is on the medium, or, where power may fail, when
  its directory is synced. `Synced` says what a power
  loss leaves of the single file.
* **WorkflowRun.** `SlotInv`: calls with a slot are at most the limit, the waiting
  ones are queued once. `ChildInv` relates a child of the host to its call in the
  guest, `LifeInv` says what each place of `drive()` has already done to the signal,
  the result and the children, `EventInv` that events under way before the abort
  name live children.
* **AgentLoop.** `Control` and `LogShape` say at which awaits a turn and a step are
  open; with `Mail` (where messages may be in hand) conservation becomes inductive.
  That a splice moves exactly one message is a lemma about `RemoveMessage`.
* **ToolCalls.** `GroupInv`, `RoomInv`, `CommitInv` describe the group: its calls
  are consecutive, an exclusive one is alone, `committed` has passed only settled
  calls. `LogInv` says that the answers are exactly the calls up to `committed`, in
  order; recovery's closers complete them (`ResultsLemma`, `ClosersLemma`), and where
  recording them fails only the closed step of a failed batch lacks them (`LostInv`). `RanInv`: a call that ran is in the durable part of the log.
* **Jobs.** `Kept`: a job in the store of an owner has that owner's cleanup or a
  teardown that counts it. `Records`: a source is exhausted once its pump stopped.
  `WholeChunks`: a reader that is past a chunk's start is past its end. A read may
  end only at a chunk's end, and this is what makes "the trim evicts nothing unread"
  true although the trim cuts inside a chunk.

`AcceptanceProofs!Inv` was also checked by TLC as an invariant of the acceptance
instances before it was proved.

### What is only model-checked

* Liveness: `CancelSettles`, `TeardownEnds`, `WritesSettle`, `CallsSettle`,
  `RunSettles`, `LatchedWakeReplays`, `BatchEnds`, `AgentTeardownEnds`. The prover has no support for
  fairness and `ENABLED`.
* What the violated run shows, and the deviations of section 3. TLC's counterexample is
  the evidence; nothing is proved about the cases the assumptions exclude.
* What a definition by recursion or a fold computes. None of the modules needs one
  any more: loops, filters and sums are written with positions and set comprehensions
  (`WorkflowRun!OnProgress`, `Acceptance!Only`, `OutputRing!KeptFrom`,
  `ToolCalls!AnsweredIn`), because the induction theorems of the library take an
  operator as a parameter, which no installed prover can instantiate. Where an
  induction over numbers was needed (the newest event of a kind, the least
  position) it is a least-element argument about a concrete set.

## 5. Plan

Done: the loop (`LoopDriver`), its ownership (`LoopRuntime`), the gate it asks
(`Acceptance`), the storage beneath them (`StorageDomain`), the runs its stages are
(`WorkflowRun`), the agents and tool calls in those runs (`AgentLoop`, `ToolCalls`),
the jobs they start (`Jobs`), and the proofs about each. Next:

1. Proofs: that a stored approval saw the receipts it rests on, but for those still
   running when it was shown (the part of `ReviewSawReceipts` that the code meets);
   what a per-record unit keeps under power loss, whose deletes are not synced.
2. `AcceptanceEval`: which checks pass, by recursion over build and skip
   dependencies, against a reference definition; TLC only.
3. Goal rounds, schedule and the session lease.

## 6. Not modelled

Prompt and diagnostic text, schema parsing, key path-safety, logging, the SQLite
backend (its durability is SQLite's), the storage hub's registry, user
interfaces and protocol plumbing. The repository is an agent harness of some
500,000 lines, most of them clients, providers, generated catalogues and
adapters; the models cover the stateful core listed above. `PROJECT.json` gives
the reason for each component.

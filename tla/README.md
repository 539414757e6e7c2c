# TLA+ models of the orchestrator

The orchestrator is a Go program that drives a long software-building *run*:
a planner (an LLM behind the OpenAI Responses API) decides, an executor (a
Codex app server) works in the repository, a human or an operator steps in.
State lives in one SQLite file per repository; a control server and an
Electron shell are optional windows on the same state. The source paths below
are relative to `src/`.

This directory holds models of the parts of it where order, concurrency and
failure matter, the TLC configurations that check them on small instances, and
proofs that TLAPS checks for every instance.

    tlc -workers 2 -config CycleLoops.cfg MCRunCycle.tla
    tlapm RunCycleProofs.tla
    tlapm WorkerRegistryProofs.tla

## 1. Inventory

### Components, their state and operations

| component | code | state | operations | right when |
|---|---|---|---|---|
| bounded cycle | `internal/orchestration/cycle.go`, `stop_reason.go` | a copy of the run row, the planner turn in memory, the message it read | plan, save, reload, consume a message, drift review, intervention, ask_human, collect_context, execute, continue an executor turn, second planner turn | each planner turn is recorded once, from the response before it; each response starts at most one executor turn; a message is consumed only when answered |
| foreground loop | `internal/cli/auto.go` | the copy of the run, the result of the last cycle | resume, next cycle, stop flag, stop reason | it reaches its safe point; it leaves a reason when it stops; a completed run stays as it is |
| run store | `internal/state/store.go`, `control.go` | tables runs, checkpoints, pending_actions, control_messages | create, save a planner or executor turn (one transaction each), executor columns, stop reason, pending action, messages | the checkpoints are one line; writers with stale copies cannot fork it |
| operator | `internal/cli/runtime_control.go`, `runtime_control_approval.go`, `executor.go`, `workers.go` | the stop flag file; a command in flight | inject a message, set and clear the flag, approve, deny, interrupt, kill, steer the executor, answer a worker | messages in order; a held action is not carried out; an approval the run waits for is named |
| control run manager | `internal/cli/runtime_control_runs.go` | one reservation under a mutex, per process | start_run, continue_run, the goroutine of the loop and its deferred calls | one loop per server; no path leaks the reservation |
| active run guard | `internal/cli/runtime_control_recovery.go` | `active-run-guard.json` | write, inspect, remove, recover_stale_run | a guard that names a living server is that of its loop; recovery leaves a live loop alone |
| build time | `internal/state/build_time.go` | one row per repository | start and end a session | the total has every session once |
| event broker, stream | `internal/activity/broker.go`, `internal/control/server.go`, `console/v2-shell/electron/main.js` | numbered history, subscriber channels, mutex; the window's last number | publish, subscribe with replay, cancel; connect, deliver | nothing skipped between replay and live; order; no send on a closed channel; it never hangs |
| worker registry, worktrees | `internal/state/workers.go`, `internal/workers/manager.go`, `internal/cli/workers.go`, `runtime_control_worker_actions.go` | table workers, git worktrees | create, dispatch, continue, approve, deny, interrupt, steer, kill, remove | every worktree has a row; an active row has somebody who takes it further; completed means a turn did complete |
| worker plans | `internal/orchestration/cycle.go` (2141–3906) | the plan in the run row | create, dispatch concurrently, continue, integrate, apply | no worker is left queued; a plan reported completed stands on completed turns |
| integration | `internal/workers/integration.go`, `apply.go` | files of worktrees and repository | conflict candidates, apply in two modes | a conflicting file is not applied; applying again completes the merge |
| app server client | `internal/executor/appserver` | one turn over JSON-RPC; the executor columns of the row | start, resume, observe, answer, interrupt, steer | a result is that of the turn that was asked for; an end that is heard ends the call; a decision reaches the item it was about |
| runtime configuration | `internal/runtimecfg/manager.go` | the configuration, its file | patch, verbosity, reload | file and memory agree when nobody writes |
| planner client | `internal/planner` | none | one request, schema and validation | an invalid document is refused |
| journal, artifacts | `internal/journal`, `internal/orchestration/artifacts.go` | append-only files | append, read recent | diagnosis only |
| drift watcher, plugins, ntfy, autofill, updater, models | one package each | none of the run | called inside a step | their result is an input |
| side chat, dogfood issues | `internal/state/side_chat.go`, `dogfood.go` | append-only tables | record, list | nothing acts on them, but notes that become control messages |
| commands init, setup, doctor, status, history, gui, launcher | `internal/cli` | files, environment | one-shot | |
| shell: backend manager, terminals, renderer | `console/v2-shell` | process metadata, terminals, view models | restart the backend, terminals, render | |

`PROJECT.json` lists every one of them with its status.

### Interactions

- A loop calls the cycle; the cycle calls planner, executor, human and store.
  Every store call is a transaction of its own; between two of them anything
  may happen to the row, so the loop's copy is stale by default.
- The CLI and the control server run the same loop in different processes; no
  lock excludes them, and the stop flag, the guard and the SQLite file are all
  they share. Only the primary key `(run_id, sequence)` of `checkpoints` tells
  them apart.
- The operator's handlers run in goroutines of the control server, or in
  another process, while the loop is anywhere.
- The cycle's goroutines for workers, the `workers` commands and the control
  server's worker handlers share one table; each reads a row once and writes it
  back whole.
- A cycle and the operator's commands each open a session of their own on the
  executor's thread; the app server tells every session what happens there.
- The cycle publishes events to the broker; handlers of `GET /v2/events` copy
  them to the shell, which reconnects whenever it likes.

### What is hard here

Interleavings of loops on one run; crashes between two store calls; a store or
journal call that fails after another took effect; approvals answered from a
copy of the row; messages that arrive anywhere in a cycle; read-then-remove on
the guard file; deferred calls in reverse order; a blocking send under a mutex;
reconnection against a server that began to count anew; whole rows written
back from stale copies; several goroutines whose verdicts make one status; files
that change between the plan of a merge and the merge; notifications that name
another turn than the one a call waits for. `PROJECT.json`,
"hazards", has each at its line with the properties that watch it.

## 2. Modules and the plan

| module | content | status |
|---|---|---|
| `RunCycle` | run, loop, cycle, store, operator | done |
| `RunHistory` | abstract: what the store promises of a run's turns | done |
| `RunCycleHistory` | the refinement mapping RunCycle → RunHistory | done |
| `MCRunCycle` | symmetry for two loops | done |
| `ControlRuns`, `MCControlRuns` | control run manager, guard, recovery, build time | done |
| `EventBroker` | broker, stream handlers, shell | done |
| `WorkerRegistry`, `MCWorkerRegistry` | worker rows, worktrees, all requests on them | done |
| `WorkerPlan`, `MCWorkerPlan` | what a cycle does with workers; EXTENDS `WorkerRegistry` | done |
| `Integration`, `MCIntegration` | candidates and apply modes over files | done |
| `AppServer` | a call of the executor and the operator's sessions over one thread | done |
| `RunCycleProofs` | any number of loops: history, refinement, dispatch, messages | proved |
| `RunCycleAloneProofs` | one loop, restarted at will: pending action, executor turn, stop reason | proved |
| `ControlRunsProofs`, `EventBrokerProofs`, `WorkerRegistryProofs`, `WorkerPlanProofs`, `IntegrationProofs`, `AppServerProofs` | every safety property of the module | proved |

Order: the cycle first, since every promise of the product rests on it; then
what starts it and what shows it; then workers and the executor. `RunCycle` sees
planner, executor and human only through their results, so the other modules
attach to it without changing it. No module uses a RECURSIVE operator.

The proofs follow the same order (section 10). Every safety property and action
property of a passing run is a theorem. What is left of the plan: the operators'
lemmas that more than one module could share, and shorter proofs.

## 3. RunCycle

**State.** `run` is the row of table `runs` as far as control depends on it:
status, stop reason, runtime issue, previous response, sequence and turn counts
of the latest checkpoint, executor turn. `checkpoints`, `pending`, `consumed`
are the other tables, `injected` the messages in the order of `created_at`,
`stopFlag` the file. `control` is a command of the operator between its read of
the row and its write (one at a time): an approval, an interrupt, kill or steer of
the executor, an answer to a worker. `mem`, `hand`, `phase`, `msg`, `cyc` are the locals of a loop: its copy
of the row, the planner turn it holds, which of the cycle's planner turns that
is, the message it read, and flags of the cycle. `pc` says before which call
the loop is.

**Actions.** One per call that changes or reads shared state, in the order of
the code: `BeginCycle` (or the continuation of an active executor turn),
`Plan`, `SavePlannerTurn` / `SaveConflict`, `ReloadAfterTurn`,
`ConsumeControlMessage`, `PersistPendingAction`, drift review, `Intervene`,
`BeginAction`, the three actions, the executor's four ways to end,
`RefreshAfterAction`, and at the safe point `ConsumeStopFlag`, `StopLoop`,
`NextCycle`. With `HasWorkers`, a cycle may wait for turns of workers: at its
start (`ContinueWorkerPlan`), where `WorkerTurnsReturn` leads to
`WorkersNeedApproval` or `WorkersSettled`, and in collect_context (`AskWorkers`), which
`WorkersReport` ends. `StoreFault` and `SafePointFault` are a store or journal call that
returns an error, `Crash` the end of the process anywhere. `Resume` starts a loop
in one of three modes: `unbounded` (run, auto, continue), `limited` (`continue
--max-cycles`, which grants one more cycle to a run that could complete), `once`
(resume and run `--bounded`); the last two never look at the stop flag.
`ExecutorUnavailable` is an app server that cannot be launched: the code saves an
empty result over the executor columns, so a turn that still runs is forgotten.

The commands of the operator (`Operator`) are those of the side chat
(`SideChatAction`: inject, set and clear the flag; the `control` command of the
same name does the same), `AnswerApproval`, `ControlExecutor` (interrupt, kill,
steer) and `AnswerWorker`. The last three read the row, talk to an app server, and
write: `SaveExecutorControl` saves the executor columns that were read and clears
the stop reason with them (`SaveExecutorState`), `RefreshWorkerRunStopReason`
sets or clears the reason by an answer that was read before. Responses of the
planner are numbers in the order of their production; what the planner says is
one of five outcomes. Executor turns are numbers too: an id from the app server
is never reused.

**What is left out.** The rows of workers and of the plan (they are `WorkerPlan`;
here a cycle with workers only waits for them, finds one that needs an approval, or
goes on); plugin hooks, events and
artifacts; a prompt that cannot be rendered (it ends like a store fault before
the dispatch). An answer to ask_human may come or fail; the fallback from ntfy to
the terminal is inside that one call.

### Runs

| run | instance | shows |
|---|---|---|
| `CycleSingle` | 1 loop, unbounded or one cycle, 5 outcomes, drift review, 4 turns, 1 message, 1 crash, 1 fault | the pending action is held and cleared when it must; an active executor turn is continued first; executor checkpoints are earned; a completed run is final |
| `CycleOperator` | 1 loop, unbounded or limited, planner errors, workers, operator with 1 message, 1 command that writes the row, 1 stop request, 2 turns, fairness | pending action, approvals and stop reasons on disk when the loop rests; a cycle ends or waits for somebody |
| `CycleLoops` | 2 loops, 2 turns, 2 messages, 1 crash | one history, one conversation, one dispatch per response, messages in order; refinement of `RunHistory` |

*Bounds.* A cycle has at most three planner turns (first, drift or
intervention, second), so four turns reach into a second cycle, and a crash in
it finds all that the first left. Two turns are enough for two loops to collide
on every write: each collision is between one turn of each. Two messages are
the least that can be out of order. One cycle is a limit that is reached, and
with its grace a second follows. Two turns are enough for an operator: the
first is executed or not, the second follows its message or its result; one
command (`MaxCommands`, of any kind) is between any two steps of both. The
other two runs have no command and no workers: what they check does not depend
on them. `DriftReview = TRUE` covers the watcher being
switched off as well: `NoDriftReview` is always possible. `CHECK_DEADLOCK FALSE`: the run may be
complete, or the bounds reached, and the loops at rest.

*Fairness.* `FairSpec` has weak fairness on `Step(l)`, the steps of a loop that
wait for nobody: a goroutine that can run does. There is none on `Human`,
`Executor` and `Workers`: people answer when they do, and an executor turn, of the
run or of a worker, has no time limit by default (`executor_turn_timeout` and
`human_wait_timeout` are "unlimited", `internal/config/config.go:112`). `CycleEnds`
names these places (`Waiting`) in its conclusion: a cycle comes to its safe point or
is waiting at one of them. Nor is there any on the operator, on crashes and on
`Resume`. The planner call is in `Step` because it has a time limit by default (2
minutes, `config.go:111`; with "unlimited" only a broken connection ends it).
collect_context without workers reads files and calls plugins that are built in,
and is in `Step` too.

*What is not promised.* `ApprovalVisible` says that a loop that stopped over a
waiting approval says so on disk, after any approval that was answered, and it stops
there: `executor interrupt`, `kill` and `steer` save the columns they read and
clear the reason while the turn still waits (`executor.go:249`, `store.go:936`),
and an answer to a worker clears it from what it read before the loop stopped
(`workers.go:1299`). The property is stated for runs without such a command
(`commands = 0`), and `StopReasonPersisted` without any.

## 4. ControlRuns

Backends are control server processes; handlers are their concurrent requests,
each of which turns into the goroutine of its loop. `backend` is the state of
`controlRunManager` under its mutex; `guard` the file; `build` the durable row
of build time. Time is not modelled as a number: the row's total is the set of
sessions whose time it has, and its start the session since which it counts.
`StartRun` and `ContinueRun` tell a new run from one that is found again
(`ResolveRun`). Each of the deferred calls of `runForeground` is an action, in the order in
which Go runs them. `removeActiveRunGuard` is a read and a removal;
`RecoverStaleRun` is a check of the manager, an inspection, and a removal of
whatever guard is there then. The loop itself is one action here:
`RunCycle` is what happens inside. A restarted backend has another epoch
(`backend_started_at` and pid of the guard).

`ControlRuns.cfg`: two backends, one with two handlers, two loops, one crash.
Two loops are the least for an old loop's end to meet a new loop's start, and
the crash leaves a stale guard for either backend. `GuardNotStolen` is about
loops of one backend; between backends, which share no lock, the code promises
nothing and the property says so. A recovery that was begun before
a launch removes whatever guard is there when it ends: the run has that too, and
`GuardNotStolen` is about loops that end. `ControlRunsBuildTime.cfg` (violated)
is finding 1. Deadlock is not
checked: with all loops done and no session left, nothing needs to happen.

Not modelled: errors of the file system on the guard file, and the checks of
the repository before a launch, which come before the reservation.

## 5. EventBroker

`Publish` is one action since it holds the mutex throughout and never blocks.
`Subscribe` is three (take the mutex, send one event of the history, register
and release), because its sends can block. `Cancel` and `CloseChannel` are
apart, as in the code. A stream is a handler of `GET /v2/events`; the shell's
current stream is one of them, and an aborted one may still be subscribed. What
is in flight between the handler and the window is taken to be in the channel.
An event is its number; `lost` are those that found the channel full, which the
code skips on purpose.

`EventBroker.cfg`: two streams, a history of 3, channels of 2, 4 events, one
restart. History larger than the channel, as in the code (256 and 64), and more
events than history, so that it is cut. `EventBrokerReplay.cfg`
(violated) is finding 2; it is checked under strong fairness of the handlers, since a Go mutex does not starve its
waiters, and with one stream.

Not modelled: the filter on `run_id`, and a change of address, which resets the
window's number.

## 6. WorkerRegistry

`rows` is table workers as far as it decides anything (status, worktree path,
executor turn), `trees` the worktrees on disk, `turns` what the app server knows.
A request is a `workers` command, a handler of the control server (the same code)
or a goroutine of a cycle; `job` holds the copy of the row it read. `Create` is
insert, `git worktree add`, the deletion of the row when that fails, and the save
as idle; `Dispatch` is read and check, save as active, start, wait, save of the
result; `Approve` covers deny; `Interrupt`, `Steer` and `Kill` write their note
over the row that was read; `Remove` takes away the worktree, then the row.
`Abandon` ends a request anywhere: its process dies, or its client goes away.

`WorkerRegistry.cfg`: two requests, each of any kind and used again and again, one
path, two rows, two turns, one early end. One path is what makes a row and a
worktree of different workers meet; a second turn is what a stale copy can
confuse with the first. `list` and `integrate` change no row.

What the model shows and no property claims: two dispatches may both read a
worker as idle and start two turns in one worktree; a removal that read a worker
as idle takes away the worktree of a turn that was started since; a note of a
kill or steer restores the status the row had when it was read; a worktree path
that was freed and used again is removed by a request that still means the first
worker.

## 7. WorkerPlan

It EXTENDS `WorkerRegistry`: the cycle (`Cycle`) and its goroutines (`Lanes`, the
slots of the semaphore) are requests, and each of their steps is one of the
registry's, with what the cycle keeps beside it. `step` is where the cycle is: it
continues the turns that are left (one goroutine per worker), sets the plan's
status and the stop reason from the rows; then the planner's worker actions, or
its plan: create, queue, dispatch concurrently, reload, integrate, apply, finish.
`CycleStops` and `FailTurn` cut off a cycle or a goroutine at any point.

`WorkerPlan.cfg`: two cycles, two slots, two workers, two turns, and *one*
disturbance: a request of the operator of any kind at any point, or a loss. Two
workers are the least of which one can fail and one wait; the second cycle takes
up what the first left. One disturbance at every point, with everything that two
goroutines do at once, is what 5 minutes allow (two disturbances are the
registry's own run). An answer of the planner with actions and a plan is taken as
two cycles. Of the actions of one answer at most two do something (`MaxActions`;
those that are refused or only list are not counted): a worker is made and
dispatched, or dispatched and removed, and a second answer goes on from there.

Known limits that `PlanSettles` names: workers of a cycle that was cut off after
they were queued stay pending, and no command takes them up; so does a worker
whose worktree was removed while it was queued. When waiting turns are continued,
the plan's status comes from the rows alone: it says completed although the
integration it asked for never ran. A dispatch refused because the worker
is completed already counts as completed.

## 8. Integration

A path holds nothing, what was committed, or what somebody wrote; the main tree
and each worktree map paths to that. One path is special: `Git`. In a worktree
`.git` is a file that names the repository (`Checkout`), in the repository it is a
directory, and only the directory is left out of a snapshot. So it is in every
worker's differences. `SelectWorkers`, `SnapshotBase`, `SnapshotWorker` and
`SaveArtifact` compare worker after worker with the main tree as it was when the
build began; `ConflictCandidates` are the paths, and top-level directories, that
more than one worker changed; an apply goes path by path (`ApplyFile`, `SkipFile`,
or `SkipFailed`, as it is for `.git`, which cannot be written over a directory),
while workers and the main tree change. `Integration.cfg`: two workers, two files
below one directory, three changes, two applies, one file that cannot be written.
That is a shared file and a shared directory, a change between build and apply, and
an apply that completes a failed one. `IntegrationCandidates.cfg` (violated) is
finding 3. Symmetry is in the workers and the files; both runs check safety only.

`ApplyMerges` is about the files people work on. In the mode
apply_non_conflicting the main tree ends as the merge of the workers; in
abort_if_conflicts it does so for one worker, and of two nothing is ever written,
because the `.git` of their worktrees is always in conflict. What the model shows
and no property claims: an apply of one worker writes its files and reports
failed, because of `.git`.

The repository is taken to be an ordinary clone: were it a linked worktree or a
submodule itself, its `.git` would be a file that an apply replaces by the one of a
worker. Executors are taken to leave `.git` alone. Directories that a deletion
leaves empty are not represented, nor is the content of a file beyond its author.

## 9. AppServer

The server is external: a thread with one active turn, `ask` its open request for
an approval. `inbox` is the stream of a client. A call of `Execute` (an
`Executor`) makes or joins a thread, starts a turn unless it continues one, and
takes notifications until the turn ends or asks; `Unavailable` is a server that
cannot be launched, `WaitFails` a broken connection, a deadline or a
cancellation. `Command` is `approve`, `deny`, `interrupt`, `kill`, `steer`: it
reads the row, opens a session of its own, and writes the row it read.

`AppServer.cfg`: one loop, one operator, two turns, two approvals about two items,
one fault. Two turns are the least for the end of one to be heard while the other
is started; two items are the least for a decision to reach the wrong one.
*Fairness* is weak, of `ExecuteStep` only (a goroutine that reads a pipe does
read what is there). The server and the operator need never act, and there is no
deadline: `executor_turn_timeout` is unlimited by default.

What the model shows and no property claims: a continued turn that ended while
nobody was connected has a status but no end, and the call waits for ever; when
the thread's status says that an approval is awaited before the request comes, or
a waiting turn is continued, the call returns without the request, the row has no
item, and no `approve` can answer it (only continuing or interrupting helps); two
requests about one item cannot be told apart. Not modelled: the probe (Execute
with another policy), the text of messages, and the exit of the child process when
it is blocked on a full pipe after an early return.

## 10. What is proved

Every invariant and action property that a passing run checks is a theorem of
its specification, for every value of the constants: TLC shows it on the
instance, TLAPS for any number of loops, backends, streams, workers, files,
calls, turns, messages, crashes and faults. `PROJECT.json` ("theorems") pairs
them. A theorem has no hypothesis but the named assumption of its module, and,
in `RunCycleAloneProofs`, that there is one loop. The assumptions say that the
bounds are natural numbers and that names which must differ do. Three ask for
more: `IntegrationAssumption` that there are finitely many workers (they are counted),
`PlanAssumption` that there are finitely many paths (a plan of the planner names
finitely many workers) and that the cycle and its goroutines are requests, and
`RunsAssumption` that a handler is a pair with its backend.

All proofs are laid out alike. An inductive invariant is a conjunction of
named parts, each with its own lemmas about groups of actions. Most actions do
not touch what a part is about: a predicate on the step (`Quiet`, `KeepsHands`,
`CarriesTurns`, `CarriesMessages`, `HandsOn`, `GuardStays`, `QuietStep`,
`PlanDriveStep`, `Hears`) says what is enough to keep it, one lemma shows that it is, and
the actions are shown to be such steps; only the few others have a proof
of their own.

**RunCycle, any number of loops** (`RunCycleProofs`, assumption
`ConstantsAssumption`).
- `CheckpointsStayLinear`, `ConversationNeverForks`. The properties are not
  inductive: a loop writes from `mem`, which may be anything as far as they
  know. `HistoryInv` adds that each loop's copy is a *snapshot*: there is a
  checkpoint with the copy's sequence, and copy and checkpoint agree on the counts and
  the response. A save passes only if the number after the copy is free
  (`SequenceFree`); all numbers up to the run's are taken; so the copy is the
  latest (`FreeMeansLatest`) and the new row continues it.
- `HistoryRefined`: every behaviour is one of `RunHistory`, under the mapping that
  lists the checkpoints by sequence. It needs `FreshInv` too: a response about to be
  saved is in no checkpoint and in no other hand.
- `ExecutorStartsOnce`, `ExecutorStartIsRecorded`. `TurnsInv`: two loops never
  hold the same planner turn, one that can still be dispatched was not, and it is on
  disk with its outcome from the save on.
- `ConsumedMeansAnswered`, `MessagesGoInOrder`, `ActionsWaitForMessages`.
  `MessagesInv`: every message before the one in a loop's hand is consumed, and
  that one is on disk as the input of a turn before it is consumed itself. An
  intervention always has one.

**RunCycle, one loop** (`RunCycleAloneProofs`: `ASSUME NEW l, Loops = {l}`). The
loop may crash and be restarted in any mode any number of times; the operator
stays concurrent. Nothing in the code locks a run against a second process, and
these properties are about the row that a loop works on alone. `CopyInv` is
what being alone gives: between two saves the loop's copy is the run's row (as
long as no command of the operator wrote to it). On it rest `PendingInv` (what is pending is held,
gone, or of the latest turn, by the place of the loop), `TurnInv` and `WorkInv` (an
executor checkpoint is of a turn that was started, and the turn that goes on has
none yet), `NumberInv` (the latest turn started is in the row or in the loop's
hand), `ApprovalInv`, `DoneInv` (a loop that completed the run only goes to its end) and
`ReasonInv` (a cycle that ended well has heard of a planner turn or has a reason). The
limits in the properties themselves (no answer, no command, no fault) are needed: sections 3
and 11.

**ControlRuns** (assumption `RunsAssumption`). `ReservationInv`: the requests that hold a
reservation are one per backend, and their session is the manager's, so that
`ReservationIsHeld` follows and giving back is the holder's alone. `GuardInv`:
a guard is of an epoch that was, and a loop between the read and the removal of
its guard finds its own, none, or another backend's; `GuardIsNotStolen` follows,
since one backend's next loop cannot have written one before the slot is free.

**EventBroker** (assumption `BrokerAssumption`). `HistoryInv`: the history is the
consecutive numbers that end with the last. `StreamsInv`: a channel is ascending; while a
stream is replayed the mutex keeps everything else out, and the channel has what was
replayed. `ShellInv`: what the window has seen is behind its channel, or behind what
it asked for. `HandoverSkipsNothing` and `EventsComeInOrder` follow; a replay that
blocks for ever (finding 2) skips nothing.

**WorkerRegistry** (assumption `RegistryAssumption`). `NoWorktreeIsOrphaned`:
`WorktreeInv` adds that a path belongs to one row (`OnePathEach`), that copies have
the path of their row (`CopiesAgree`), that nobody else holds a worker that is
being created (`CreatorsAlone`: it is active and has no turn, so every other request
refuses it), and that a row about to be deleted has nothing at its path
(`NothingLeft`). `VerdictsAreEarned`: the copies that may be written back are earned
too (`VerdictInv`), and a completed turn stays completed (`TurnsStay`).
`ActiveWorkersAreDriven`: `DrivenInv` says of each row that is not lost that it is
*safe* (not active, or with a turn to continue) or that a request *drives* it
(will write a safe row over it); an active row that is not safe has not been read for
another save. That no worker is pending or assigned is in it because only a cycle makes one so.

**WorkerPlan** (assumption `PlanAssumption`; the module EXTENDS
`WorkerRegistryProofs`). The cycle's and goroutines' steps are steps of the
registry with more: the first part shows that they keep `RegistryInv`, and all that the
plan needs to know of anybody else's step is `Goes` (rows do not come back,
completed turns stay). `LocalInv` is the plan's: where the cycle and its goroutines are in
each step (`PlaceInv`), what the plan holds then (`HoldsInv`), that the worker
made last is the newest (`NewestInv`), that every worker asked for is made, being made or to
be made unless one failed (`CountInv`), that every worker made waits for a slot, has a goroutine,
has a completed turn, or it is known why not (`HonestInv`). `PlansAreHonest`
follows at `FinishPlan`. `PlansSettle` adds `PlanDrivenInv`, the plan's form of
`DrivenInv`, with the slots that a worker can wait for and the pending row whose worktree is gone.

**Integration** (assumption `IntegrationAssumption`). `ApplyIsMerge`: as long as nobody else changes a
file (`quiet`), `MergeInv` says that the summary lists the differences there
still are, that every file holds what it held or what the merge gives it, and that those an
apply is through with hold the merge. The count of owners of a path in the summary is then the
number of workers that changed it, and there are candidates exactly when more than one worker
was selected (`ConflictsAreWorkers`): all of them have changed `.git`.

**AppServer** (assumption `AppServerAssumption`). `DecisionReachesItsItem`: a command
answers the request that its session was shown, and an identifier names one
request (`AnswerInv`). `ResultIsEarned`: `OrderInv` follows a call from its thread to
its return. What it waits for goes on, or its end is the first end in its inbox (`EndsFirst`);
because a thread has one active turn, the end of another cannot come before.

*Only model-checked*, for they rest on fairness, which this prover cannot treat:
`CycleEnds` and `EndReported`. The properties of the runs that must be violated
are not theorems, of course. No property rests on induction over data: the model
has no recursive definition.

*What the proofs changed in the models.* `LoopStopReason` and `CycleStopReason` were a
`CASE` whose guards overlap, which TLC takes in order and TLA+ does not: they are
`IF ... ELSE` in the order of the code now. The finiteness in two assumptions was
missing.

## 11. Findings

Each is a run that TLC must find violated.

1. `BuildTimeKept`: the README promises durable build time. The deferred
   `store.Close` runs before the deferred `EndBuildSession`: the session is
   never closed in the row, and the total stays 0.
2. `SubscriptionReplays`: the README says replay is limited by the history
   window. With more than 64 events to replay, `Subscribe` blocks for ever with
   the mutex held, and so does every `Publish`.
3. `CandidatesTruthful`: the protocol document says that integrate_workers returns
   truthful conflict candidates. Two workers that changed nothing, of a main tree
   where nothing changed, are listed as having both added `.git`, the file that
   `git worktree add` made in each. Uncommitted changes of the main tree have the
   same effect on files: the comparison is with them, while worktrees are made from
   the commit.

`CheckpointsEarned`, `ActiveTurnFirst` and `ExecutorWorkRecorded` are stated for
runs without an approval answer, interrupt, kill or steer (`Uncontrolled`): each
writes back the executor columns that it read before a slow call, which can bring
back a turn that ended meanwhile. The
documents promise nothing about it, so it is a limit and not a finding. Limits of
the same kind, which the models show and no document speaks of: a cycle reads one
message for its intervention, so a second one does not hold the action; a
loop that stops over a failed call may leave the stop reason empty; a
recovery begun before a launch can remove the new loop's guard; the shell asks a
restarted server for events after a number of the old one.

## 12. Not modelled

`PROJECT.json` lists each part with its reason. In short: the runtime
configuration (one record, one mutex, one file; the loop's limits are constants
here), the planner client (stateless), the journal, artifacts, plugins, the drift
heuristic (their results are choices of a step), the side chat's and dogfood's
own tables (append-only, read by nobody who acts), rendering, one-shot commands,
the updater, model probes, and the shell beyond its place in the event stream.

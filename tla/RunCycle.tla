------------------------------ MODULE RunCycle ------------------------------
(***************************************************************************)
(* One durable run driven by foreground loops (`orchestrator auto`, `run`, *)
(* or the control server's Start / Continue).  A loop repeats the bounded  *)
(* cycle of internal/orchestration/cycle.go: planner turn, optional drift  *)
(* review, optional operator intervention, at most one action, and one     *)
(* more planner turn about the action's result.                            *)
(*                                                                         *)
(* The SQLite rows are the only state that survives a crash.  Each loop    *)
(* works on the copy of the run row it loaded last (mem), so every store   *)
(* call is a step of its own: another loop, the operator, a crash or an    *)
(* I/O error may come between any two of them.  Nothing in the code stops  *)
(* two processes from driving the same run, hence the set Loops.           *)
(***************************************************************************)
EXTENDS Integers, Sequences

CONSTANTS Loops,          \* foreground loops that may drive the run
          Modes,          \* the commands they may be started with
          MaxCycles,      \* bound: the greatest --max-cycles
          DriftReview,    \* whether the drift watcher is switched on
          HasWorkers,     \* whether workers may have a part in the run
          PlannerChoices, \* the outcomes the planner chooses from
          PlannerErrors,  \* failures of a planner call, by their stop reason
          MaxTurns,       \* bound: planner responses ever produced
          MaxMessages,    \* bound: control messages ever injected
          MaxCommands,    \* bound: executor and worker commands given
          MaxStops,       \* bound: times the operator asks for a stop
          MaxCrashes,     \* bound: loop processes killed
          MaxFaults       \* bound: store or journal calls and launches that fail

Outcomes == {"execute", "collect_context", "ask_human", "pause", "complete"}

\* run, auto and continue; continue --max-cycles; resume and run --bounded.
AllModes == {"unbounded", "limited", "once"}

ASSUME ConstantsAssumption ==
  /\ Modes \subseteq AllModes
  /\ MaxCycles \in Nat \ {0}
  /\ DriftReview \in BOOLEAN /\ HasWorkers \in BOOLEAN
  /\ PlannerChoices \subseteq Outcomes
  /\ PlannerErrors \subseteq {"planner_validation_failed",
                              "missing_required_config",
                              "transport_or_process_error"}
  /\ MaxTurns \in Nat /\ MaxMessages \in Nat
  /\ MaxCommands \in Nat /\ MaxStops \in Nat
  /\ MaxCrashes \in Nat /\ MaxFaults \in Nat

VARIABLES
  run,          \* the row of table runs
  checkpoints,  \* the rows of table checkpoints, key (run_id, sequence)
  pending,      \* the row of table pending_actions, or NoPending
  injected,     \* control_messages 1..injected, in created_at order
  consumed,     \* the control messages with status consumed
  stopFlag,     \* the auto stop flag file exists
  control,      \* a command of the operator between its read of the run and
                \* its write: what it will write and the turn it read
  issued,       \* planner responses produced so far
  dispatched,   \* executor turns started, in order: the response that asked
  answers, commands, stops, crashes, faults,
  pc,           \* where each loop is
  mem,          \* the copy of the run row each loop works on
  phase,        \* which planner turn of the cycle a loop is in
  hand,         \* the planner turn a loop has in memory
  msg,          \* the control message a loop has read, or 0
  cyc           \* the rest of a loop's cycle-local state; its field due only
                \* remembers how many messages existed at its last save

durable == <<run, checkpoints, pending, consumed, stopFlag>>
world   == <<injected, control, issued, dispatched>>
limits  == <<answers, commands, stops, crashes, faults>>
local   == <<mem, phase, hand, msg, cyc>>
vars    == <<durable, world, limits, pc, local>>

Phases   == {"first", "drift", "intervention", "human", "context", "executor"}

StopReasons == {"", "planner_complete", "planner_ask_human",
                "operator_stop_requested", "executor_failed",
                "executor_approval_required", "planner_validation_failed",
                "missing_required_config", "transport_or_process_error",
                "max_cycles_reached", "planner_pause",
               "planner_collect_context", "planner_execute"}

Places == {"off", "begin", "rejoin", "rejoined", "settle", "plan", "save",
           "reload", "consume", "pending", "drift", "intervene", "act", "ask",
           "collect", "workers", "dispatch", "continue", "executing",
           "refresh", "approval", "issue", "end", "decide"}

NoTurn     == [id |-> 0, status |-> "none", approval |-> "none"]
NoPending  == [resp |-> 0, kind |-> "none", held |-> FALSE]
NoControl  == [kind |-> "none", turn |-> NoTurn]
EmptyHand  == [outcome |-> "none", resp |-> 0]
FreshCycle == [mode |-> "unbounded", left |-> 0, grace |-> FALSE,
               first |-> "none", drift |-> "none", last |-> "none",
               failed |-> FALSE, stop |-> FALSE, approval |-> FALSE,
               reason |-> "", due |-> 0]

\* createAutoRun: checkpoint 1, nothing planned, nothing executed.
NewRun == [status |-> "initialized", stop |-> "", issue |-> "", resp |-> 0,
           seq |-> 1, planner |-> 0, exec |-> 0, turn |-> NoTurn]

Bootstrap == [seq |-> 1, stage |-> "bootstrap", planner |-> 0, exec |-> 0,
              prev |-> 0, resp |-> 0, outcome |-> "none", msg |-> 0]

Init ==
  /\ run = NewRun
  /\ checkpoints = {Bootstrap}
  /\ pending = NoPending
  /\ injected = 0
  /\ consumed = {}
  /\ stopFlag = FALSE
  /\ control = NoControl
  /\ issued = 0
  /\ dispatched = <<>>
  /\ answers = 0
  /\ commands = 0
  /\ stops = 0
  /\ crashes = 0
  /\ faults = 0
  /\ pc = [l \in Loops |-> "off"]
  /\ mem = [l \in Loops |-> NewRun]
  /\ phase = [l \in Loops |-> "first"]
  /\ hand = [l \in Loops |-> EmptyHand]
  /\ msg = [l \in Loops |-> 0]
  /\ cyc = [l \in Loops |-> FreshCycle]

-----------------------------------------------------------------------------
(* Reading and writing the store.                                          *)

Queued == (1..injected) \ consumed

\* Mutant: whichever message comes up first.
AnyQueued(m) == m \in Queued \/ (Queued = {} /\ m = 0)

\* NextQueuedControlMessage: the oldest queued message, 0 when there is none.
IsNextQueued(m) ==
  \/ Queued = {} /\ m = 0
  \/ m \in Queued /\ \A n \in Queued : m <= n

\* The columns every checkpoint, reply, context and executor write resets.
Cleared(r) == [r EXCEPT !.stop = "", !.issue = ""]

\* SaveRuntimeIssue.
WithIssue(r, reason) == [r EXCEPT !.stop = reason, !.issue = reason]

\* Mutant: every turn that did not fail counts as active.
NotFailedTurn(r) == r.turn.id # 0 /\ r.turn.status # "failed"

\* hasActiveExecutorTurn.
ActiveTurn(r) == /\ r.turn.id # 0
                 /\ r.turn.status \in {"in_progress", "approval_required"}

\* Mutant: a table of checkpoints without its primary key.
AnySequence(s) == s > 0

\* insertCheckpointTx fails on the primary key when the sequence is taken.
SequenceFree(s) == \A c \in checkpoints : c.seq # s

\* The row savePlannerTurn inserts: one more than the loop's own copy.
PlannerRow(l) ==
  [seq |-> mem[l].seq + 1, stage |-> "planner",
   planner |-> mem[l].planner + 1, exec |-> mem[l].exec,
   prev |-> mem[l].resp, resp |-> hand[l].resp,
   outcome |-> hand[l].outcome, msg |-> msg[l]]

\* BuildExecutorCheckpoint.
ExecutorRow(l) ==
  [seq |-> mem[l].seq + 1, stage |-> "executor",
   planner |-> mem[l].planner, exec |-> mem[l].exec + 1,
   prev |-> run.resp, resp |-> run.resp,
   outcome |-> "none", msg |-> 0]

\* Mutants: something is pending after every outcome; nothing is ever held.
AlwaysPending(turn, held) ==
  [resp |-> turn.resp, kind |-> turn.outcome, held |-> held]

NeverHeld(turn, held) ==
  [resp |-> turn.resp, kind |-> "execute", held |-> FALSE]

\* BuildPendingAction: pause and complete leave nothing pending.
BuildPendingAction(turn, held) ==
  IF turn.outcome \in {"execute", "collect_context", "ask_human"}
  THEN [resp |-> turn.resp, kind |-> turn.outcome, held |-> held]
  ELSE NoPending

\* The row is written, or deleted when nothing is pending.
SavePendingAction(action) == pending' = action

Goto(l, place) == pc' = [pc EXCEPT ![l] = place]

\* The cycle returns an error: the loop goes to its safe point with it.
Abort(l) == /\ Goto(l, "end")
            /\ cyc' = [cyc EXCEPT ![l].failed = TRUE]

\* A planner, human or executor call failed: there is an issue to persist.
Fails(l, reason) == /\ Goto(l, "issue")
                    /\ cyc' = [cyc EXCEPT ![l].reason = reason]

\* The loop process is gone, and all it held in memory with it.
Leave(l) == /\ Goto(l, "off")
            /\ mem' = [mem EXCEPT ![l] = NewRun]
            /\ phase' = [phase EXCEPT ![l] = "first"]
            /\ hand' = [hand EXCEPT ![l] = EmptyHand]
            /\ msg' = [msg EXCEPT ![l] = 0]
            /\ cyc' = [cyc EXCEPT ![l] = FreshCycle]

-----------------------------------------------------------------------------
(* Starting a loop and a cycle.                                            *)

\* LatestResumableRun, or the run just created: never a completed one.
Resumable == run.status # "completed"

\* A command takes the run up, for a number of cycles if it is limited.
Take(l, mode, limit) ==
  /\ pc[l] = "off"
  /\ mode \in Modes
  /\ Resumable
  /\ Goto(l, "begin")
  /\ mem' = [mem EXCEPT ![l] = run]
  /\ cyc' = [cyc EXCEPT ![l].mode = mode, ![l].left = limit]
  /\ UNCHANGED <<durable, world, limits, phase, hand, msg>>

RunOrAuto(l) == Take(l, "unbounded", 0)
ContinueLimited(l) == \E n \in 1..MaxCycles : Take(l, "limited", n)
ResumeOnce(l) == Take(l, "once", 0)

Resume(l) == RunOrAuto(l) \/ ContinueLimited(l) \/ ResumeOnce(l)

\* Mutant: the active executor turn is not looked at.
BeginCycleByPlanning(l) ==
  /\ pc[l] = "begin"
  /\ Goto(l, "plan")
  /\ UNCHANGED <<durable, world, limits, local>>

\* The oldest queued message becomes the planner's input.
PlanWithMessage(l) ==
  /\ Goto(l, "plan")
  /\ \E m \in 0..injected :
       /\ IsNextQueued(m)
       /\ msg' = [msg EXCEPT ![l] = m]

\* RunOnce up to the planner call: an active executor turn goes first, then
\* the turns of workers that go on (activeWorkerTurns; any worker may have one).
BeginCycle(l) ==
  /\ pc[l] = "begin"
  /\ \/ ActiveTurn(mem[l]) /\ Goto(l, "continue") /\ msg' = msg
     \/ ~ActiveTurn(mem[l]) /\ HasWorkers /\ Goto(l, "rejoin") /\ msg' = msg
     \/ ~ActiveTurn(mem[l]) /\ PlanWithMessage(l)
  /\ UNCHANGED <<durable, world, limits, mem, phase, hand, cyc>>

\* continueWorkerPlan: clear the pending action, wait for the workers' turns.
ContinueWorkerPlan(l) ==
  /\ pc[l] = "rejoin"
  /\ SavePendingAction(NoPending)
  /\ Goto(l, "rejoined")
  /\ UNCHANGED <<run, checkpoints, consumed, stopFlag, world, limits, local>>

\* Every turn has ended.  syncRunWorkerPlanState: a plan on record is saved
\* with its workers' new states, like collected context; the copy is reloaded.
WorkerTurnsReturn(l) ==
  /\ pc[l] = "rejoined"
  /\ run' \in {run, Cleared(run)}
  /\ mem' = [mem EXCEPT ![l] = run']
  /\ Goto(l, "settle")
  /\ UNCHANGED <<checkpoints, pending, consumed, stopFlag, world, limits,
                 phase, hand, msg, cyc>>

\* A worker waits for an approval: that is saved, and the cycle ends well.
WorkersNeedApproval(l) ==
  /\ pc[l] = "settle"
  /\ run' = [run EXCEPT !.stop = "executor_approval_required"]
  /\ mem' = [mem EXCEPT ![l] = run']
  /\ Goto(l, "end")
  /\ UNCHANGED <<checkpoints, pending, consumed, stopFlag, world, limits,
                 phase, hand, msg, cyc>>

\* No worker waits: a stop reason that says so is cleared, unless it is the
\* executor's, and the cycle goes on to its planner turn.
WorkersSettled(l) ==
  /\ pc[l] = "settle"
  /\ \/ /\ mem[l].stop = "executor_approval_required"
        /\ mem[l].turn.approval = "none"
        /\ run' = [run EXCEPT !.stop = ""]
        /\ mem' = [mem EXCEPT ![l] = run']
     \/ /\ \/ mem[l].stop # "executor_approval_required"
           \/ mem[l].turn.approval # "none"
        /\ UNCHANGED <<run, mem>>
  /\ PlanWithMessage(l)
  /\ UNCHANGED <<checkpoints, pending, consumed, stopFlag, world, limits,
                 phase, hand, cyc>>

-----------------------------------------------------------------------------
(* One planner turn: call, save, reload, record the pending action.        *)

\* Mutant: the message is consumed as soon as the planner was given it.
PlanConsuming(l) ==
  /\ pc[l] = "plan"
  /\ consumed' = consumed \union ({msg[l]} \ {0})
  /\ issued' = issued + 1
  /\ hand' = [hand EXCEPT ![l] = [outcome |-> "execute", resp |-> issued + 1]]
  /\ Goto(l, "save")
  /\ UNCHANGED <<run, checkpoints, pending, stopFlag, injected, control,
                 dispatched, limits, mem, phase, msg, cyc>>

Plan(l) ==
  /\ pc[l] = "plan"
  /\ issued < MaxTurns
  /\ issued' = issued + 1
  /\ \E o \in PlannerChoices :
       hand' = [hand EXCEPT ![l] = [outcome |-> o, resp |-> issued + 1]]
  /\ Goto(l, "save")
  /\ UNCHANGED <<durable, injected, control, dispatched, limits,
                 mem, phase, msg, cyc>>

\* The planner call fails, or its output does not validate.
PlanFails(l) ==
  /\ pc[l] = "plan"
  /\ \E reason \in PlannerErrors : Fails(l, reason)
  /\ UNCHANGED <<durable, world, limits, mem, phase, hand, msg>>

\* SavePlannerTurn or, for the outcome complete, SavePlannerCompletion.
SavePlannerTurn(l) ==
  /\ pc[l] = "save"
  /\ SequenceFree(mem[l].seq + 1)
  /\ checkpoints' = checkpoints \union {PlannerRow(l)}
  /\ run' = [Cleared(run) EXCEPT
               !.resp = hand[l].resp,
               !.seq = mem[l].seq + 1,
               !.planner = mem[l].planner + 1,
               !.exec = mem[l].exec,
               !.status = IF hand[l].outcome = "complete" THEN "completed"
                          ELSE run.status]
  /\ Goto(l, "reload")
  /\ cyc' = [cyc EXCEPT ![l].due = injected]
  /\ UNCHANGED <<pending, consumed, stopFlag, world, limits,
                 mem, phase, hand, msg>>

\* Mutant: a turn that lost its sequence is taken for saved.
ConflictIgnored(l) ==
  /\ pc[l] = "save"
  /\ ~SequenceFree(mem[l].seq + 1)
  /\ Goto(l, "reload")
  /\ UNCHANGED <<durable, world, limits, local>>

\* Mutant: the row that has the sequence is replaced.
SaveConflictReplacing(l) ==
  /\ pc[l] = "save"
  /\ ~SequenceFree(mem[l].seq + 1)
  /\ checkpoints' = {c \in checkpoints : c.seq # mem[l].seq + 1} \union {PlannerRow(l)}
  /\ Goto(l, "reload")
  /\ UNCHANGED <<run, pending, consumed, stopFlag, world, limits, local>>

\* The sequence is taken: the transaction is rolled back, the cycle fails.
SaveConflict(l) ==
  /\ pc[l] = "save"
  /\ ~SequenceFree(mem[l].seq + 1)
  /\ Abort(l)
  /\ UNCHANGED <<durable, world, limits, mem, phase, hand, msg>>

\* Mutant: the copy keeps the response id it had before the turn.
ReloadKeepingResponse(l) ==
  /\ pc[l] = "reload"
  /\ mem' = [mem EXCEPT ![l] = [run EXCEPT !.resp = mem[l].resp]]
  /\ Goto(l, "pending")
  /\ UNCHANGED <<durable, world, limits, phase, hand, msg, cyc>>

\* What the result of the cycle says of its planner turns: the latest, and,
\* for the commands that ask, the first and the one after a drift review.
Heard(turn, outcome, c) ==
  [c EXCEPT !.first = IF turn = "first" /\ c.mode # "unbounded"
                      THEN outcome ELSE c.first,
            !.drift = IF turn = "drift" /\ c.mode = "once"
                      THEN outcome ELSE c.drift,
            !.last = outcome]

\* GetRun after the save, the journal events, and the result of the cycle.
ReloadAfterTurn(l) ==
  /\ pc[l] = "reload"
  /\ mem' = [mem EXCEPT ![l] = run]
  /\ cyc' = [cyc EXCEPT ![l] = Heard(phase[l], hand[l].outcome, cyc[l])]
  /\ Goto(l, IF phase[l] = "first" /\ msg[l] # 0 THEN "consume" ELSE "pending")
  /\ UNCHANGED <<durable, world, limits, phase, hand, msg>>

\* Where a cycle goes on once a planner turn is wholly recorded.
AfterTurn(l) ==
  CASE phase[l] = "first" ->
         IF hand[l].outcome = "complete" THEN "end" ELSE "drift"
    [] phase[l] \in {"drift", "intervention"} ->
         IF mem[l].status = "completed" \/ hand[l].outcome = "complete"
         THEN "end"
         ELSE IF phase[l] = "drift" THEN "intervene" ELSE "act"
    [] phase[l] = "context" /\ cyc[l].approval -> "approval"
    [] OTHER -> "end"

\* Mutant: an outcome without an action leaves the pending action alone.
PersistOnlyActions(l) ==
  /\ pc[l] = "pending"
  /\ pending' = IF BuildPendingAction(hand[l], FALSE) = NoPending THEN pending
                ELSE BuildPendingAction(hand[l], FALSE)
  /\ Goto(l, IF phase[l] = "intervention" THEN "consume" ELSE AfterTurn(l))
  /\ UNCHANGED <<run, checkpoints, consumed, stopFlag, world, limits, local>>

\* persistPendingAction after a planner turn.
PersistPendingAction(l) ==
  /\ pc[l] = "pending"
  /\ SavePendingAction(BuildPendingAction(hand[l], FALSE))
  /\ Goto(l, IF phase[l] = "intervention" THEN "consume" ELSE AfterTurn(l))
  /\ UNCHANGED <<run, checkpoints, consumed, stopFlag, world, limits, local>>

\* ConsumeControlMessage: after the save for the message of the first turn,
\* after the pending action for an intervention.
ConsumeControlMessage(l) ==
  /\ pc[l] = "consume"
  /\ consumed' = consumed \union {msg[l]}
  /\ msg' = [msg EXCEPT ![l] = 0]
  /\ Goto(l, IF phase[l] = "first" THEN "pending" ELSE AfterTurn(l))
  /\ UNCHANGED <<run, checkpoints, pending, stopFlag, world, limits,
                 mem, phase, hand, cyc>>

-----------------------------------------------------------------------------
(* Between the first planner turn and the action.                          *)

\* maybeRunDriftReview: a completed review asks the planner to reconsider.
DriftReviewed(l) ==
  /\ pc[l] = "drift"
  /\ DriftReview
  /\ hand[l].outcome \in {"execute", "collect_context"}
  /\ phase' = [phase EXCEPT ![l] = "drift"]
  /\ Goto(l, "plan")
  /\ UNCHANGED <<durable, world, limits, mem, hand, msg, cyc>>

\* Mutant: the control messages are not looked at again before the action.
NoDriftReviewAct(l) ==
  /\ pc[l] = "drift"
  /\ Goto(l, "act")
  /\ UNCHANGED <<durable, world, limits, local>>

\* Review off, not applicable, or failed: the first outcome stands.
NoDriftReview(l) ==
  /\ pc[l] = "drift"
  /\ Goto(l, IF mem[l].status = "completed" THEN "end" ELSE "intervene")
  /\ UNCHANGED <<durable, world, limits, local>>

\* Mutant: the cycle waits for a message.
InterveneWaiting(l) ==
  /\ pc[l] = "intervene"
  /\ Queued # {}
  /\ Goto(l, "act")
  /\ UNCHANGED <<durable, world, limits, local>>

\* maybeRunControlIntervention: a queued message holds the pending action and
\* goes to the planner with it; without one the cycle goes on to the action.
Intervene(l) ==
  /\ pc[l] = "intervene"
  /\ \E m \in 0..injected :
       /\ IsNextQueued(m)
       /\ \/ /\ m # 0
             /\ SavePendingAction(IF pending # NoPending /\ ~pending.held
                                  THEN BuildPendingAction(hand[l], TRUE)
                                  ELSE pending)
             /\ msg' = [msg EXCEPT ![l] = m]
             /\ phase' = [phase EXCEPT ![l] = "intervention"]
             /\ Goto(l, "plan")
          \/ /\ m = 0
             /\ Goto(l, "act")
             /\ UNCHANGED <<pending, msg, phase>>
  /\ UNCHANGED <<run, checkpoints, consumed, stopFlag, world, limits,
                 mem, hand, cyc>>

ActionPlace == [execute |-> "dispatch", collect_context |-> "collect",
                ask_human |-> "ask"]

\* Mutant: the pending action stays while it is carried out.
BeginActionKeepingPending(l) ==
  /\ pc[l] = "act"
  /\ hand[l].outcome \in DOMAIN ActionPlace
  /\ Goto(l, ActionPlace[hand[l].outcome])
  /\ UNCHANGED <<durable, world, limits, local>>

\* handleAskHuman, handleCollectContext, handleExecute: clearPendingAction.
BeginAction(l) ==
  /\ pc[l] = "act"
  /\ hand[l].outcome \in DOMAIN ActionPlace
  /\ SavePendingAction(NoPending)
  /\ Goto(l, ActionPlace[hand[l].outcome])
  /\ UNCHANGED <<run, checkpoints, consumed, stopFlag, world, limits, local>>

NothingToDo(l) ==
  /\ pc[l] = "act"
  /\ hand[l].outcome \notin DOMAIN ActionPlace
  /\ Goto(l, "end")
  /\ UNCHANGED <<durable, world, limits, local>>

-----------------------------------------------------------------------------
(* The actions.                                                            *)

\* HumanInteractor.Ask returns and RecordHumanReply stores the raw reply.
RecordHumanReply(l) ==
  /\ pc[l] = "ask"
  /\ run' = Cleared(run)
  /\ phase' = [phase EXCEPT ![l] = "human"]
  /\ Goto(l, "refresh")
  /\ UNCHANGED <<checkpoints, pending, consumed, stopFlag, world, limits,
                 mem, hand, msg, cyc>>

\* No interactor, or Ask fails: at the terminal, which ntfy falls back to.
AskFails(l) ==
  /\ pc[l] = "ask"
  /\ Fails(l, "transport_or_process_error")
  /\ UNCHANGED <<durable, world, limits, mem, phase, hand, msg>>

\* The columns that decide anything are those it resets.  A worker plan may be
\* waiting for an approval.
SaveCollectedContext(l, waiting) ==
  /\ run' = Cleared(run)
  /\ phase' = [phase EXCEPT ![l] = "context"]
  /\ cyc' = [cyc EXCEPT ![l].approval = waiting]
  /\ Goto(l, "refresh")
  /\ UNCHANGED <<checkpoints, pending, consumed, stopFlag, world, limits,
                 mem, hand, msg>>

\* Paths are read, plugin tools are run, and the result is saved.
CollectContext(l) == pc[l] = "collect" /\ SaveCollectedContext(l, FALSE)

\* The planner asked for worker actions or a worker plan as well...
AskWorkers(l) ==
  /\ pc[l] = "collect"
  /\ HasWorkers
  /\ Goto(l, "workers")
  /\ UNCHANGED <<durable, world, limits, local>>

\* ...whose executor turns may take any time: saved once all have ended.
WorkersReport(l) ==
  /\ pc[l] = "workers"
  /\ \E waiting \in BOOLEAN : SaveCollectedContext(l, waiting)

\* Executor.Execute: from here on the executor works in the repository.
\* The copy of the run carries the new turn's id until the result is saved.
Dispatch(l) ==
  /\ pc[l] = "dispatch"
  /\ dispatched' = Append(dispatched, hand[l].resp)
  /\ mem' = [mem EXCEPT ![l].turn.id = Len(dispatched) + 1]
  /\ Goto(l, "executing")
  /\ UNCHANGED <<durable, injected, control, issued, limits,
                 phase, hand, msg, cyc>>

\* continueExecutorTurn: clear the pending action, wait for the same turn.
ContinueExecutorTurn(l) ==
  /\ pc[l] = "continue"
  /\ SavePendingAction(NoPending)
  /\ Goto(l, "executing")
  /\ UNCHANGED <<run, checkpoints, consumed, stopFlag, world, limits, local>>

\* Mutant: the result is recorded under the turn the row already names.
ReportedOnOldTurn(l, status, approval) ==
  [id |-> run.turn.id, status |-> status, approval |-> approval]

\* The turn the executor reports on, in the given state.
Reported(l, status, approval) ==
  [id |-> mem[l].turn.id, status |-> status, approval |-> approval]

\* SaveExecutorTurn: the result and its checkpoint in one transaction.
ExecutorCompletes(l) ==
  /\ pc[l] = "executing"
  /\ SequenceFree(mem[l].seq + 1)
  /\ checkpoints' = checkpoints \union {ExecutorRow(l)}
  /\ run' = [Cleared(run) EXCEPT
               !.seq = mem[l].seq + 1,
               !.planner = mem[l].planner,
               !.exec = mem[l].exec + 1,
               !.turn = Reported(l, "completed", "none")]
  /\ phase' = [phase EXCEPT ![l] = "executor"]
  /\ Goto(l, "refresh")
  /\ UNCHANGED <<pending, consumed, stopFlag, world, limits,
                 mem, hand, msg, cyc>>

\* The checkpoint is taken: result and checkpoint are rolled back together.
ExecutorConflict(l) ==
  /\ pc[l] = "executing"
  /\ ~SequenceFree(mem[l].seq + 1)
  /\ Abort(l)
  /\ UNCHANGED <<durable, world, limits, mem, phase, hand, msg>>

\* The executor waits for an approval: SaveExecutorState, no checkpoint.
ExecutorNeedsApproval(l) ==
  /\ pc[l] = "executing"
  /\ run' = [Cleared(run) EXCEPT
               !.turn = Reported(l, "approval_required", "required")]
  /\ phase' = [phase EXCEPT ![l] = "executor"]
  /\ cyc' = [cyc EXCEPT ![l].approval = TRUE]
  /\ Goto(l, "refresh")
  /\ UNCHANGED <<checkpoints, pending, consumed, stopFlag, world, limits,
                 mem, hand, msg>>

\* Mutant: a failed executor turn is retried on the spot.
ExecutorRetried(l) ==
  /\ pc[l] = "executing"
  /\ run' = [Cleared(run) EXCEPT !.turn = Reported(l, "failed", "none")]
  /\ Goto(l, "dispatch")
  /\ UNCHANGED <<checkpoints, pending, consumed, stopFlag, world, limits, local>>

\* The executor fails: SaveExecutorState, and an issue to persist.
ExecutorFails(l) ==
  /\ pc[l] = "executing"
  /\ run' = [Cleared(run) EXCEPT !.turn = Reported(l, "failed", "none")]
  /\ Fails(l, "executor_failed")
  /\ UNCHANGED <<checkpoints, pending, consumed, stopFlag, world, limits,
                 mem, phase, hand, msg>>

\* The executor cannot be launched, to start a turn or to join one: the empty
\* result is saved like any other, also over a turn that goes on.
ExecutorUnavailable(l) ==
  /\ pc[l] = "dispatch" \/ (pc[l] = "executing" /\ hand[l] = EmptyHand)
  /\ faults < MaxFaults
  /\ faults' = faults + 1
  /\ run' = [Cleared(run) EXCEPT !.turn = NoTurn]
  /\ Fails(l, "executor_failed")
  /\ UNCHANGED <<checkpoints, pending, consumed, stopFlag, world,
                 answers, commands, stops, crashes, mem, phase, hand, msg>>

\* persistRuntimeIssue: SaveRuntimeIssue, reload, return the error.
PersistRuntimeIssue(l) ==
  /\ pc[l] = "issue"
  /\ run' = WithIssue(run, cyc[l].reason)
  /\ mem' = [mem EXCEPT ![l] = run']
  /\ Abort(l)
  /\ UNCHANGED <<checkpoints, pending, consumed, stopFlag, world, limits,
                 phase, hand, msg>>

\* GetRun after the action.  Unless the executor waits for an approval, the
\* planner is asked about the result.
RefreshAfterAction(l) ==
  /\ pc[l] = "refresh"
  /\ mem' = [mem EXCEPT ![l] = run]
  /\ Goto(l, IF phase[l] = "executor" /\ cyc[l].approval
             THEN "approval" ELSE "plan")
  /\ UNCHANGED <<durable, world, limits, phase, hand, msg, cyc>>

\* Mutant: only the copy of the run gets the stop reason.
ApprovalStopUnsaved(l) ==
  /\ pc[l] = "approval"
  /\ mem' = [mem EXCEPT ![l].stop = "executor_approval_required"]
  /\ Goto(l, "end")
  /\ UNCHANGED <<durable, world, limits, phase, hand, msg, cyc>>

\* SaveLatestStopReason(executor_approval_required): the cycle ends well.
SaveApprovalStop(l) ==
  /\ pc[l] = "approval"
  /\ run' = [run EXCEPT !.stop = "executor_approval_required"]
  /\ mem' = [mem EXCEPT ![l].stop = "executor_approval_required"]
  /\ Goto(l, "end")
  /\ UNCHANGED <<checkpoints, pending, consumed, stopFlag, world, limits,
                 phase, hand, msg, cyc>>

-----------------------------------------------------------------------------
(* The safe point of the foreground loop.                                  *)

\* Mutant: completion is not a reason to stop.
StopReasonIgnoringStatus(r, c) ==
  IF c.failed THEN "transport_or_process_error"
  ELSE IF c.stop THEN "operator_stop_requested" ELSE ""

\* determineForegroundStopReason and determineContinueStopReason: the latest
\* planner turn of a cycle counts for one, the first for the other.
LoopStopReason(r, c) ==
  IF r.stop = "executor_approval_required" \/ r.turn.approval = "required"
  THEN "executor_approval_required"
  ELSE IF c.failed
  THEN IF r.issue \in {"planner_validation_failed",
                       "missing_required_config", "executor_failed"}
       THEN r.issue ELSE "transport_or_process_error"
  ELSE IF r.status = "completed" THEN "planner_complete"
  ELSE IF (IF c.mode = "limited" THEN c.first ELSE c.last) = "ask_human"
  THEN "planner_ask_human"
  ELSE IF ~c.stop THEN ""
  ELSE IF c.mode = "limited" THEN "max_cycles_reached" ELSE "operator_stop_requested"

\* StopReasonForPlannerOutcome.
OutcomeReason == [complete |-> "planner_complete",
                  ask_human |-> "planner_ask_human",
                  pause |-> "planner_pause",
                  collect_context |-> "planner_collect_context",
                  execute |-> "planner_execute", none |-> ""]

\* StopReasonForError.
ErrorReason(c) ==
  IF c.reason \in {"planner_validation_failed", "missing_required_config"}
  THEN c.reason ELSE "transport_or_process_error"

\* StopReasonForBoundedCycle: a reconsidered outcome goes before a later one.
CycleStopReason(r, c) ==
  IF r.stop # "" THEN r.stop
  ELSE IF c.failed THEN ErrorReason(c)
  ELSE IF r.status = "completed" THEN "planner_complete"
  ELSE IF c.first = "ask_human" THEN "planner_ask_human"
  ELSE OutcomeReason[IF c.drift # "none" THEN c.drift ELSE c.last]

StopReason(r, c) ==
  IF c.mode = "once" THEN CycleStopReason(r, c) ELSE LoopStopReason(r, c)

\* executeBoundedCycle is no loop.
Stops(l) == cyc[l].mode = "once" \/ StopReason(mem[l], cyc[l]) # ""

\* RunOnce has returned, its local state is gone.
CycleOver(l) ==
  /\ pc[l] = "end"
  /\ Goto(l, "decide")
  /\ phase' = [phase EXCEPT ![l] = "first"]
  /\ hand' = [hand EXCEPT ![l] = EmptyHand]
  /\ msg' = [msg EXCEPT ![l] = 0]
  /\ UNCHANGED <<run, checkpoints, pending, consumed, world, limits, mem>>

\* consumeAutoStopFlag: the unbounded loops take the operator's stop flag.
ConsumeStopFlag(l) ==
  /\ cyc[l].mode = "unbounded"
  /\ CycleOver(l)
  /\ cyc' = [cyc EXCEPT ![l] = [FreshCycle EXCEPT !.last = cyc[l].last,
                                                 !.failed = cyc[l].failed,
                                                 !.stop = stopFlag]]
  /\ stopFlag' = FALSE

\* continueReadyExecuteHandoff: a turn after the first asks for the executor,
\* and the cycle has not called it.
ReadyExecuteHandoff(l) ==
  phase[l] \in {"human", "context"} /\ cyc[l].last = "execute"

\* What is left of a cycle; over: the limit of the loop is reached.
Counted(l, over) ==
  [FreshCycle EXCEPT
     !.mode = cyc[l].mode,
     !.left = IF over THEN cyc[l].left ELSE cyc[l].left - 1,
     !.grace = over,
     !.first = cyc[l].first, !.drift = cyc[l].drift, !.last = cyc[l].last,
     !.failed = cyc[l].failed, !.reason = cyc[l].reason,
     !.stop = over /\ (cyc[l].grace \/ ~ReadyExecuteHandoff(l))]

\* The limited loop counts its cycles; one more is granted, once, to hand an
\* execute outcome to the executor.  A single cycle has nothing to count.
CountCycle(l) ==
  /\ cyc[l].mode # "unbounded"
  /\ CycleOver(l)
  /\ \E over \in BOOLEAN :
       /\ over <=> cyc[l].left <= 1
       /\ cyc' = [cyc EXCEPT ![l] = Counted(l, over)]
  /\ UNCHANGED stopFlag

\* Mutant: the loop ends without saving why.
StopLoopSilently(l) ==
  /\ pc[l] = "decide"
  /\ Stops(l)
  /\ Leave(l)
  /\ UNCHANGED <<durable, world, limits>>

\* A stop reason ends the loop; it is saved unless the copy already has it.
StopLoop(l) ==
  /\ pc[l] = "decide"
  /\ Stops(l)
  /\ run' = IF mem[l].stop = StopReason(mem[l], cyc[l]) THEN run
            ELSE [run EXCEPT !.stop = StopReason(mem[l], cyc[l])]
  /\ Leave(l)
  /\ UNCHANGED <<checkpoints, pending, consumed, stopFlag, world, limits>>

NextCycle(l) ==
  /\ pc[l] = "decide"
  /\ ~Stops(l)
  /\ Goto(l, "begin")
  /\ cyc' = [cyc EXCEPT ![l] = [FreshCycle EXCEPT !.mode = cyc[l].mode,
                                                 !.left = cyc[l].left,
                                                 !.grace = cyc[l].grace]]
  /\ UNCHANGED <<durable, world, limits, mem, phase, hand, msg>>

-----------------------------------------------------------------------------
(* The operator, crashes and I/O errors.                                   *)

\* The message is queued, after all that are there.
RecordControlMessage == injected' = injected + 1

\* injectControlMessage: any time, also while no loop runs.
InjectControlMessage ==
  /\ injected < MaxMessages
  /\ RecordControlMessage
  /\ UNCHANGED <<durable, control, issued, dispatched, limits, pc, local>>

\* setControlStopFlag and clearControlStopFlag.
SetStopFlag ==
  /\ ~stopFlag
  /\ stops < MaxStops
  /\ stops' = stops + 1
  /\ stopFlag' = TRUE
  /\ UNCHANGED <<run, checkpoints, pending, consumed, world,
                 answers, commands, crashes, faults, pc, local>>

ClearStopFlag ==
  /\ stopFlag
  /\ stopFlag' = FALSE
  /\ UNCHANGED <<run, checkpoints, pending, consumed, world, limits, pc, local>>

\* activeExecutorRunForControl.
ActiveExecutorRun == Resumable /\ run.turn.id # 0

\* resolveExecutorApprovalRequest, executor approve and deny: the run is read
\* and the executor is given the answer...
AnswerApproval ==
  /\ control = NoControl
  /\ answers + commands < MaxCommands
  /\ answers' = answers + 1
  /\ ActiveExecutorRun
  /\ run.turn.approval = "required"
  /\ \E answer \in {"granted", "denied"} :
       control' = [kind |-> "executor",
                   turn |-> [run.turn EXCEPT !.status = "in_progress",
                                             !.approval = answer]]
  /\ UNCHANGED <<durable, injected, issued, dispatched,
                 commands, stops, crashes, faults, pc, local>>

\* One of the operator's other commands reads the run.
BeginCommand(kind) ==
  /\ control = NoControl
  /\ answers + commands < MaxCommands
  /\ commands' = commands + 1
  /\ control' = [kind |-> kind, turn |-> run.turn]
  /\ UNCHANGED <<durable, injected, issued, dispatched,
                 answers, stops, crashes, faults, pc, local>>

\* executor interrupt, kill and steer: whatever state the turn is in.
ControlExecutor == ActiveExecutorRun /\ BeginCommand("executor")

\* ...and then the executor columns are written as they were read, but for the
\* answer (SaveExecutorState).
SaveExecutorControl ==
  /\ control.kind = "executor"
  /\ run' = [Cleared(run) EXCEPT !.turn = control.turn]
  /\ control' = NoControl
  /\ UNCHANGED <<checkpoints, pending, consumed, stopFlag,
                 injected, issued, dispatched, limits, pc, local>>

\* workers approve and deny: of a worker of any run, also a completed one.
AnswerWorker == HasWorkers /\ BeginCommand("workers")

\* refreshWorkerRunStopReason: whether a worker still waits is read now, whether
\* the executor waits was read when the command began.
RefreshWorkerRunStopReason ==
  /\ control.kind = "workers"
  /\ \E reason \in {"", "executor_approval_required"} :
       /\ control.turn.approval = "required" => reason # ""
       /\ run' = [run EXCEPT !.stop = reason]
  /\ control' = NoControl
  /\ UNCHANGED <<checkpoints, pending, consumed, stopFlag,
                 injected, issued, dispatched, limits, pc, local>>

\* The process of a loop dies between two of its steps.
Crash(l) ==
  /\ pc[l] # "off"
  /\ crashes < MaxCrashes
  /\ crashes' = crashes + 1
  /\ Leave(l)
  /\ UNCHANGED <<durable, world, answers, commands, stops, faults>>

\* The places where a cycle calls the store or the journal.
CallsStore(l) ==
  \/ pc[l] \in {"begin", "rejoin", "rejoined", "settle", "save", "reload",
                "consume", "pending", "intervene", "ask", "collect", "workers",
                "dispatch", "continue", "executing", "refresh", "issue",
                "approval"}
  \/ pc[l] = "drift" /\ DriftReview
                     /\ hand[l].outcome \in {"execute", "collect_context"}
  \/ pc[l] = "act" /\ hand[l].outcome \in DOMAIN ActionPlace

\* Such a call fails: the cycle returns the error with the copy of the run it
\* has, and records no runtime issue.
StoreFault(l) ==
  /\ CallsStore(l)
  /\ faults < MaxFaults
  /\ faults' = faults + 1
  /\ Abort(l)
  /\ UNCHANGED <<durable, world, answers, commands, stops, crashes,
                 mem, phase, hand, msg>>

\* A call of the foreground loop itself fails: the loop returns the error.
SafePointFault(l) ==
  /\ pc[l] \in {"end", "decide"}
  /\ faults < MaxFaults
  /\ faults' = faults + 1
  /\ Leave(l)
  /\ UNCHANGED <<durable, world, answers, commands, stops, crashes>>

-----------------------------------------------------------------------------
PlannerTurn(l) ==
  \/ Plan(l) \/ PlanFails(l) \/ SavePlannerTurn(l) \/ SaveConflict(l)
  \/ ReloadAfterTurn(l) \/ PersistPendingAction(l) \/ ConsumeControlMessage(l)

BeforeAction(l) ==
  \/ DriftReviewed(l) \/ NoDriftReview(l) \/ Intervene(l)
  \/ BeginAction(l) \/ NothingToDo(l)

Human(l) == RecordHumanReply(l) \/ AskFails(l)

Executor(l) ==
  \/ ExecutorCompletes(l) \/ ExecutorConflict(l)
  \/ ExecutorNeedsApproval(l) \/ ExecutorFails(l)
  \/ ExecutorUnavailable(l)

\* The turns of workers that a cycle waits for have ended.
Workers(l) == WorkerTurnsReturn(l) \/ WorkersReport(l)

BeforePlan(l) ==
  \/ BeginCycle(l) \/ ContinueWorkerPlan(l)
  \/ WorkersNeedApproval(l) \/ WorkersSettled(l)

Action(l) ==
  \/ CollectContext(l) \/ AskWorkers(l)
  \/ Dispatch(l) \/ ContinueExecutorTurn(l)
  \/ PersistRuntimeIssue(l) \/ RefreshAfterAction(l) \/ SaveApprovalStop(l)

SafePoint(l) == \/ ConsumeStopFlag(l) \/ CountCycle(l)
                \/ StopLoop(l) \/ NextCycle(l)

\* The steps a running loop takes without waiting for a human or for an executor,
\* its own or a worker's.
Step(l) == \/ BeforePlan(l) \/ PlannerTurn(l) \/ BeforeAction(l)
           \/ Action(l) \/ SafePoint(l)

\* requestSideChatAction: what the side chat does to the run, as the commands of
\* the same names do; the log it keeps of its requests is not modelled.
SideChatAction == InjectControlMessage \/ SetStopFlag \/ ClearStopFlag

Operator == \/ SideChatAction
            \/ AnswerApproval \/ ControlExecutor \/ SaveExecutorControl
            \/ AnswerWorker \/ RefreshWorkerRunStopReason

Next == \/ \E l \in Loops : \/ Resume(l) \/ Step(l)
                            \/ Human(l) \/ Executor(l) \/ Workers(l)
                            \/ Crash(l) \/ StoreFault(l) \/ SafePointFault(l)
        \/ Operator

Spec == Init /\ [][Next]_vars

FairSpec == Spec /\ \A l \in Loops : WF_vars(Step(l))

-----------------------------------------------------------------------------
(* Types.                                                                  *)

TurnType == [id : Nat,
             status : {"none", "in_progress", "approval_required",
                       "completed", "failed"},
             approval : {"none", "required", "granted", "denied"}]

RunType == [status : {"initialized", "completed"}, stop : StopReasons,
            issue : StopReasons, resp : Nat, seq : Nat \ {0},
            planner : Nat, exec : Nat, turn : TurnType]

RowType == [seq : Nat \ {0}, stage : {"bootstrap", "planner", "executor"},
            planner : Nat, exec : Nat, prev : Nat, resp : Nat,
            outcome : Outcomes \union {"none"}, msg : Nat]

PendingType == [resp : Nat, held : BOOLEAN,
                kind : {"execute", "collect_context", "ask_human", "none"}]

ControlType == [kind : {"none", "executor", "workers"}, turn : TurnType]

HandType == [outcome : Outcomes \union {"none"}, resp : Nat]

CycleType == [mode : AllModes, left : Nat, grace : BOOLEAN,
              first : Outcomes \union {"none"},
              drift : Outcomes \union {"none"},
              last : Outcomes \union {"none"},
              failed : BOOLEAN, stop : BOOLEAN,
              approval : BOOLEAN, reason : StopReasons, due : Nat]

\* Every variable keeps the shape the store and the Go structs give it.
TypeOK ==
  /\ run \in RunType
  /\ checkpoints \subseteq RowType
  /\ pending \in PendingType
  /\ injected \in Nat
  /\ consumed \subseteq Nat
  /\ stopFlag \in BOOLEAN
  /\ control \in ControlType
  /\ issued \in 0..MaxTurns
  /\ dispatched \in Seq(Nat)
  /\ <<answers, commands, stops, crashes, faults>> \in Nat \X Nat \X Nat \X Nat \X Nat
  /\ pc \in [Loops -> Places]
  /\ mem \in [Loops -> RunType]
  /\ phase \in [Loops -> Phases]
  /\ hand \in [Loops -> HandType]
  /\ msg \in [Loops -> Nat]
  /\ cyc \in [Loops -> CycleType]

-----------------------------------------------------------------------------
(* What every number of loops keeps.                                       *)

\* The table of checkpoints is one unbroken line ending at the run's latest
\* checkpoint, and a sequence number counts the turns before it, whichever
\* loop wrote it from however old a copy (checkpoints' primary key).
CheckpointsLinear ==
  /\ \A c \in checkpoints : c.seq <= run.seq
  /\ \A s \in 1..run.seq : \E c \in checkpoints : c.seq = s
  /\ \A c, d \in checkpoints : c.seq = d.seq => c = d
  /\ \A c \in checkpoints : c.seq = 1 + c.planner + c.exec
  /\ run.seq = 1 + run.planner + run.exec

\* The planner conversation never forks: a recorded turn was planned from the
\* response recorded just before it (previous_response_id), and the run row
\* points at the last one.
ResponseChain ==
  /\ \A c, d \in checkpoints : d.seq = c.seq + 1 => d.prev = c.resp
  /\ \A c \in checkpoints : c.seq = run.seq => run.resp = c.resp

\* A control message is marked consumed only after a planner turn that had it
\* as input is on disk: crashes and failures redeliver it, never lose it.
ConsumedAreAnswered ==
  \A m \in consumed : \E c \in checkpoints : c.msg = m

\* Control messages reach the planner in the order they were injected.
ConsumedInOrder ==
  \A m \in consumed : m \in 1..injected /\ (1..m) \subseteq consumed

\* One planner response starts at most one executor turn, over crashes,
\* restarts and competing loops (the pending action is never replayed).
DispatchedOnce ==
  \A i, j \in 1..Len(dispatched) : dispatched[i] = dispatched[j] => i = j

\* The executor only works on what a durable planner turn asked for.
DispatchRecorded ==
  \A i \in 1..Len(dispatched) :
    \E c \in checkpoints : c.resp = dispatched[i] /\ c.outcome = "execute"

\* When a cycle acts on its planner turn without an intervention, every
\* message queued by the time that turn was saved has been answered.
AnsweredBeforeAction ==
  \A l \in Loops :
    pc[l] \in {"ask", "collect", "workers", "dispatch"} /\ phase[l] # "intervention"
      => (1..cyc[l].due) \subseteq consumed

-----------------------------------------------------------------------------
(* What a single loop keeps.                                               *)

Undisturbed == crashes = 0 /\ faults = 0

\* No command of the operator's wrote to the row of the run what it had read.
Uncontrolled == answers = 0 /\ commands = 0

\* While the planner reconsiders because of a message, the action it would
\* replace is on hold.
HeldDuringIntervention ==
  \A l \in Loops :
    pc[l] \in {"plan", "save"} /\ phase[l] = "intervention"
      => pending = NoPending \/ pending.held

\* An action being carried out is no longer offered as pending, so nothing
\* that reads the pending action can take it a second time.
NoPendingWhileActing ==
  \A l \in Loops :
    pc[l] \in {"ask", "collect", "workers", "dispatch", "executing", "refresh",
              "rejoined", "settle"}
      => pending = NoPending

\* A loop at rest leaves the pending action of the latest planner turn, and
\* none other.
PendingIsLatest ==
  Undisturbed /\ (\A l \in Loops : pc[l] \in {"off", "begin", "act"})
    => pending = NoPending \/ pending.resp = run.resp

\* An executor turn that was started is in the run row, unless the loop still
\* waits for it or was disturbed: its result is never silently dropped.
ExecutorWorkRecorded ==
  Undisturbed /\ Uncontrolled /\ (\A l \in Loops : pc[l] # "executing")
    => run.turn.id = Len(dispatched)

\* Executor checkpoints are earned: there are never more of them than executor
\* turns started, as long as no command of the operator raced with the loop.
CheckpointsEarned == Uncontrolled => run.exec <= Len(dispatched)

\* A first planner turn never starts over an executor turn that is still
\* active on disk: that turn is continued before anything new is planned.
ActiveTurnFirst ==
  Uncontrolled =>
    \A l \in Loops :
      pc[l] \in {"plan", "save"} /\ phase[l] = "first" => ~ActiveTurn(run)

\* An undisturbed loop that stopped over an executor waiting for an approval
\* says so on disk, whatever was answered before; but interrupt, kill, steer and
\* an answer to a worker may clear it (SaveExecutorState, ClearLatestStopReason).
ApprovalVisible ==
  Undisturbed /\ commands = 0 /\ run.turn.status = "approval_required"
    /\ (\A l \in Loops : pc[l] = "off")
      => run.stop = "executor_approval_required"

\* A completed run is final: it stays completed, and no checkpoint and no executor
\* turn is added (its stop reason is not final).
CompletedIsFinal ==
  [][run.status = "completed" =>
       /\ run'.status = "completed"
       /\ UNCHANGED <<checkpoints, dispatched>>]_vars

\* A loop that stops leaves a reason on disk, if no store call failed and no command
\* of the operator came in between (they clear the reason).
StopReasonPersisted ==
  [][\A l \in Loops : StopLoop(l) /\ faults = 0 /\ Uncontrolled
                        => run'.stop # ""]_vars

\* Where a cycle waits without a limit of its own: for a human, for its executor
\* turn, for turns of workers it went on with or started.
Waiting == {"ask", "executing", "rejoined", "workers"}

\* From wherever it is, a loop comes to the safe point, where the stop flag is looked
\* at, or is over, or waits for somebody: no planner turn, message, review or
\* result keeps a cycle from its end.
CycleEnds ==
  \A l \in Loops : pc[l] \notin Waiting ~> pc[l] \in {"end", "off"} \union Waiting

=============================================================================

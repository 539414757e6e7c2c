----------------------------- MODULE WorkerPlan -----------------------------
(***************************************************************************)
(* What a cycle does with workers (orchestration/cycle.go): it first waits *)
(* for the turns that earlier cycles left, then carries out the planner's  *)
(* worker actions, or its plan: create the workers, queue them, dispatch   *)
(* them all at once up to a limit, and, as asked, integrate and apply what *)
(* they made.  The cycle and its goroutines are requests of WorkerRegistry *)
(* and share the table with the requests of the operator.                  *)
(***************************************************************************)
EXTENDS WorkerRegistry

CONSTANTS Cycle,  \* the request that stands for the cycle's own steps
          Lanes,  \* the slots of the semaphore: workerPlanConcurrencyLimit
          MaxCycles,       \* bound: cycles begun
          MaxActions,      \* bound: worker actions of one answer that do something
          MaxDisturbances  \* bound: requests of the operator and losses together

ASSUME PlanAssumption ==
  Cycle \in Requests /\ Lanes \subseteq Requests \ {Cycle} /\ IsFiniteSet(Paths)
  /\ MaxCycles \in Nat /\ MaxActions \in Nat /\ MaxDisturbances \in Nat

Operators == Requests \ (Lanes \union {Cycle})

VARIABLES
  step,      \* where the cycle is
  plan,      \* what the cycle holds, see NoPlan
  report,    \* status of the plan in the run's collected context
  restored,  \* workers given back an older status by the note of a control
  cycles,    \* cycles begun
  requests   \* requests the operator made

planVars == <<step, plan, report, restored, cycles, requests>>
allVars == <<vars, planVars>>

\* The locals of executeWorkerActions, executeWorkerPlan and continueWorkerPlan: the
\* actions still to be carried out; what is asked for beyond the workers; the paths of the workers, and those still to be created;
\* createdWorkerIDs; queuedDispatches not begun, or workers to be continued, and
\* their rows as they were listed; workerFailures and workerApprovals, and whether
\* a goroutine returned an error; whether there is an integration artifact and all
\* workers were completed; the turn by which a worker was taken to be completed.
NoPlan ==
  [actions |-> 0, wish |-> "none", asked |-> {}, wanted |-> {}, made |-> {}, queued |-> {},
   batch |-> [w \in 1..MaxWorkers |-> NoRow], failed |-> FALSE, waiting |-> FALSE,
   broken |-> FALSE, ready |-> FALSE, verdict |-> [w \in 1..MaxWorkers |-> 0]]

Reports == {"none", "empty", "completed", "failed", "approval_required", "in_progress"}

PlanInit ==
  /\ Init
  /\ step = "idle"
  /\ plan = NoPlan
  /\ report = "none"
  /\ restored = {}
  /\ cycles = 0
  /\ requests = 0

\* There is room for one more disturbance.
Disturbed == losses < MaxLosses /\ requests + losses < MaxDisturbances

LanesIdle == \A l \in Lanes : pc[l] = "idle"

\* The cycle goes on, or ends and keeps nothing.
Move(place, held) ==
  /\ step' = place
  /\ plan' = IF place = "idle" THEN NoPlan ELSE held

-----------------------------------------------------------------------------
(* A cycle begins with the turns that are left.                            *)

\* activeWorkerTurns
ListTurns ==
  /\ step = "idle"
  /\ cycles < MaxCycles
  /\ cycles' = cycles + 1
  /\ LET left == {w \in 1..created : Continuable(rows[w])} IN
       Move(IF left = {} THEN "planner" ELSE "continue",
            [plan EXCEPT !.queued = left,
                         !.batch = [w \in 1..MaxWorkers |->
                                      IF w \in left THEN rows[w] ELSE NoRow]])
  /\ UNCHANGED <<vars, report, restored, requests>>

\* executeConcurrentWorkerContinuations: from the row as it was listed.
ContinueTurn(l) ==
  /\ step = "continue"
  /\ pc[l] = "idle"
  /\ \E w \in plan.queued :
       /\ plan' = [plan EXCEPT !.queued = @ \ {w}]
       /\ job' = [job EXCEPT ![l] = [worker |-> w, copy |-> plan.batch[w],
                                     turn |-> plan.batch[w].turn]]
  /\ Goto(l, "turn")
  /\ UNCHANGED <<rows, created, trees, turns, started, reason, lost, losses>>
  /\ UNCHANGED <<step, report, restored, cycles, requests>>

\* An error of one of them ends the cycle when all have returned.
TurnsContinued ==
  /\ step = "continue"
  /\ plan.queued = {} /\ LanesIdle
  /\ Move(IF plan.broken THEN "idle" ELSE "sync", NoPlan)
  /\ UNCHANGED <<vars, report, restored, cycles, requests>>

\* workerPlanStatusFromWorkers, over every worker of the run.
StatusFromWorkers ==
  LET some(statuses) == \E w \in 1..created : rows[w].status \in statuses IN
    IF ~some(Statuses \ {"none"}) THEN "empty"
    ELSE IF some({"approval_required"}) THEN "approval_required"
    ELSE IF some({"executor_active", "assigned", "pending", "creating"}) THEN "in_progress"
    ELSE IF some({"failed"}) THEN "failed" ELSE "completed"

\* syncRunWorkerPlanState: only when the collected context is a plan's.
SyncPlan ==
  /\ step = "sync"
  /\ report' = IF report = "none" THEN "none" ELSE StatusFromWorkers
  /\ Move("recount", plan)
  /\ UNCHANGED <<vars, restored, cycles, requests>>

\* The workers are listed again: while one waits the cycle ends.
Recount ==
  /\ step = "recount"
  /\ Move(IF \E w \in 1..created : rows[w].status = "approval_required"
            THEN "stop" ELSE "go_on", plan)
  /\ UNCHANGED <<vars, report, restored, cycles, requests>>

SaveStopReason ==
  /\ step \in {"stop", "go_on"}
  /\ reason' = (step = "stop")
  /\ Move(IF step = "stop" THEN "idle" ELSE "planner", plan)
  /\ UNCHANGED <<rows, created, trees, turns, started, pc, job, lost, losses>>
  /\ UNCHANGED <<report, restored, cycles, requests>>

-----------------------------------------------------------------------------
(* The planner's worker actions, one after the other.                      *)

\* The planner answers: nothing with workers, or worker actions.  An answer with
\* actions and a plan is the actions of one cycle and the plan of the next.
ChooseActions ==
  /\ step = "planner"
  /\ Move("idle", plan) \/ Move("actions", [plan EXCEPT !.actions = MaxActions])
  /\ UNCHANGED <<vars, report, restored, cycles, requests>>

\* Mutant: a queued worker is refused as every other active one.
DispatchableIdle(w) ==
  /\ rows[w].status # "none"
  /\ ~Active(rows[w].status)
  /\ rows[w].path \in trees

\* validateWorkerDispatchTarget
Dispatchable(w) ==
  /\ rows[w].status # "none"
  /\ ~Active(rows[w].status) \/ rows[w].status = "pending"
  /\ rows[w].path \in trees

Take(q, w, status) ==
  job' = [job EXCEPT ![q] = [NoJob EXCEPT !.worker = w,
                                          !.copy = [rows[w] EXCEPT !.status = status]]]

\* executeWorkerDispatch, up to the row it assigns.
ReadForAssign ==
  /\ step = "actions"
  /\ pc[Cycle] = "idle"
  /\ \E w \in 1..created : Dispatchable(w) /\ Take(Cycle, w, "assigned")
  /\ Goto(Cycle, "assign")
  /\ UNCHANGED <<rows, created, trees, turns, started, reason, lost, losses>>

\* prepareWorkerDispatchState; the turn of an earlier dispatch stays in the row.
SaveAssigned ==
  /\ pc[Cycle] = "assign"
  /\ Save(Cycle, job[Cycle].copy)
  /\ IF rows[job[Cycle].worker].status = "none"
       THEN Return(Cycle) ELSE Goto(Cycle, "activate") /\ UNCHANGED job
  /\ UNCHANGED <<created, trees, turns, started, reason, lost, losses>>

\* runWorkerExecutorTurn is what a dispatch of the operator does.
DispatchWorker ==
  /\ step = "actions"
  /\ \/ Activate(Cycle) \/ StartTurn(Cycle) \/ StartFails(Cycle)
     \/ TurnReturns(Cycle) \/ SaveResult(Cycle)

RemoveWorker ==
  /\ step = "actions"
  /\ Remove(Cycle)

MakeWorker ==
  /\ step = "actions"
  /\ Create(Cycle)

\* The loop of executeWorkerActions begins an action when the one before is over.
NextAction ==
  IF pc[Cycle] = "idle"
    THEN plan.actions > 0 /\ plan' = [plan EXCEPT !.actions = @ - 1]
    ELSE UNCHANGED plan

\* executeWorkerAction: list, integrate and apply change no row, nor does an action
\* that is refused.
Act ==
  /\ MakeWorker \/ ReadForAssign \/ SaveAssigned \/ DispatchWorker \/ RemoveWorker
  /\ NextAction
  /\ UNCHANGED <<step, report, restored, cycles, requests>>

\* The collected context that is saved is no plan's.
EndActions ==
  /\ step = "actions"
  /\ pc[Cycle] = "idle"
  /\ report' = "none"
  /\ Move("idle", plan)
  /\ UNCHANGED <<vars, restored, cycles, requests>>

-----------------------------------------------------------------------------
(* executeWorkerPlan: create and queue.                                    *)

BeginPlan ==
  /\ step = "planner"
  /\ \E paths \in SUBSET Paths \ {{}} :
       Move("create", [plan EXCEPT !.asked = paths, !.wanted = paths])
  /\ UNCHANGED <<vars, report, restored, cycles, requests>>

CreateWorker ==
  /\ step = "create"
  /\ pc[Cycle] = "idle"
  /\ InsertRow(Cycle)
  /\ LET p == job'[Cycle].copy.path IN
       p \in plan.wanted /\ plan' = [plan EXCEPT !.wanted = @ \ {p}]
  /\ UNCHANGED <<step, report, restored, cycles, requests>>

\* The path is taken, or the row cannot be inserted: one failure, and on.
CreateRefused ==
  /\ step = "create"
  /\ pc[Cycle] = "idle"
  /\ \E p \in plan.wanted : plan' = [plan EXCEPT !.wanted = @ \ {p}, !.failed = TRUE]
  /\ UNCHANGED <<vars, step, report, restored, cycles, requests>>

\* Mutant: after the row is deleted the worker is queued all the same.
MakeWorktreeOrQueue ==
  /\ step = "create"
  /\ \/ AddWorktree(Cycle) /\ UNCHANGED plan
     \/ /\ UndoRow(Cycle)
        /\ plan' = [plan EXCEPT !.failed = TRUE, !.queued = @ \union {job[Cycle].worker}]
  /\ UNCHANGED <<step, report, restored, cycles, requests>>

MakeWorktree ==
  /\ step = "create"
  /\ \/ AddWorktree(Cycle) /\ UNCHANGED plan
     \/ UndoRow(Cycle) /\ plan' = [plan EXCEPT !.failed = TRUE]
  /\ UNCHANGED <<step, report, restored, cycles, requests>>

WorkerCreated ==
  /\ step = "create"
  /\ SaveCreated(Cycle)
  /\ LET w == job[Cycle].worker IN
       Move("queue", [plan EXCEPT !.made = @ \union {w}, !.queued = @ \union {w}])
  /\ UNCHANGED <<report, restored, cycles, requests>>

Newest == CHOOSE w \in plan.made : \A v \in plan.made : v <= w

\* queueWorkerPlanDispatch reads the row again.
ReadForQueue ==
  /\ step = "queue"
  /\ IF Dispatchable(Newest)
       THEN /\ Take(Cycle, Newest, "pending")
            /\ Goto(Cycle, "queue")
            /\ Move("save_queued", plan)
       ELSE /\ Move("create", [plan EXCEPT !.failed = TRUE, !.queued = @ \ {Newest}])
            /\ UNCHANGED <<pc, job>>
  /\ UNCHANGED <<rows, created, trees, turns, started, reason, lost, losses>>
  /\ UNCHANGED <<report, restored, cycles, requests>>

\* The plan ends with an error when the row is gone.
SaveQueued ==
  /\ step = "save_queued"
  /\ Save(Cycle, job[Cycle].copy)
  /\ Return(Cycle)
  /\ IF rows[Newest].status = "none"
       THEN Move("idle", NoPlan) /\ lost' = lost \union plan.queued
       ELSE Move("create", plan) /\ UNCHANGED lost
  /\ UNCHANGED <<created, trees, turns, started, reason, losses>>
  /\ UNCHANGED <<report, restored, cycles, requests>>

BeginDispatch ==
  /\ step = "create"
  /\ pc[Cycle] = "idle"
  /\ plan.wanted = {}
  /\ Move("dispatch", plan)
  /\ UNCHANGED <<vars, report, restored, cycles, requests>>

-----------------------------------------------------------------------------
(* executeConcurrentWorkerPlanDispatches, and what its results count as.   *)

\* Mutant: only an approval is counted.
CountApprovals(w, row) ==
  plan' = [plan EXCEPT !.queued = @ \ {w},
                       !.waiting = @ \/ row.status = "approval_required",
                       !.verdict[w] = IF row.status = "completed" THEN row.turn ELSE @]

\* A result is counted by the status of the worker it carries.
Count(w, row) ==
  plan' = [plan EXCEPT !.queued = @ \ {w},
                       !.failed = @ \/ row.status \notin {"completed", "approval_required"},
                       !.waiting = @ \/ row.status = "approval_required",
                       !.verdict[w] = IF row.status = "completed" THEN row.turn ELSE @]

\* The goroutine reads the row once more.
BeginTurn(l) ==
  /\ step = "dispatch"
  /\ pc[l] = "idle"
  /\ \E w \in plan.queued :
       /\ Dispatchable(w)
       /\ Take(l, w, rows[w].status)
       /\ plan' = [plan EXCEPT !.queued = @ \ {w}]
  /\ Goto(l, "activate")
  /\ UNCHANGED <<rows, created, trees, turns, started, reason, lost, losses>>
  /\ UNCHANGED <<step, report, restored, cycles, requests>>

\* A dispatch refused is a result too, with the worker's row as it is.
RefuseTurn(l) ==
  /\ step = "dispatch"
  /\ pc[l] = "idle"
  /\ \E w \in plan.queued : ~Dispatchable(w) /\ Count(w, rows[w])
  /\ UNCHANGED <<vars, step, report, restored, cycles, requests>>

RunTurn(l) ==
  /\ \/ Activate(l) /\ plan' = [plan EXCEPT !.broken = @ \/ pc'[l] = "idle"]
     \/ (StartTurn(l) \/ StartFails(l) \/ TurnReturns(l)) /\ UNCHANGED plan
  /\ UNCHANGED <<step, report, restored, cycles, requests>>

\* A result whose row is gone breaks the plan; every other one is counted.
EndTurn(l) ==
  /\ step = "dispatch"
  /\ SaveResult(l)
  /\ LET w == job[l].worker IN
       IF rows[w].status = "none" THEN plan' = [plan EXCEPT !.broken = TRUE]
       ELSE Count(w, job[l].copy)
  /\ UNCHANGED <<step, report, restored, cycles, requests>>

\* continueWorkerTurn counts nothing.
EndContinuation(l) ==
  /\ step = "continue"
  /\ SaveResult(l)
  /\ plan' = [plan EXCEPT !.broken = @ \/ rows[job[l].worker].status = "none"]
  /\ UNCHANGED <<step, report, restored, cycles, requests>>

\* The store or the journal fails a goroutine; the others go on.
FailTurn(l) ==
  /\ pc[l] # "idle"
  /\ Disturbed
  /\ losses' = losses + 1
  /\ lost' = lost \union {job[l].worker}
  /\ Return(l)
  /\ plan' = [plan EXCEPT !.broken = TRUE]
  /\ UNCHANGED <<rows, created, trees, turns, started, reason>>
  /\ UNCHANGED <<step, report, restored, cycles, requests>>

\* When all have returned, an error of one of them ends the plan and the cycle.
TurnsReturned == step = "dispatch" /\ plan.queued = {} /\ LanesIdle

BreakPlan ==
  /\ TurnsReturned /\ plan.broken
  /\ Move("idle", NoPlan)
  /\ UNCHANGED <<vars, report, restored, cycles, requests>>

-----------------------------------------------------------------------------
(* Integration, application and the result.                                *)

\* allWorkerPlanWorkersCompleted
AllCompleted(workers) == workers # {} /\ \A w \in workers : rows[w].status = "completed"

\* The created workers are read again, those that are gone passed over.  Nothing
\* before this looks at whether the plan asks for an integration and its
\* application: it is settled here.
Reload ==
  /\ TurnsReturned /\ ~plan.broken
  /\ \E wish \in {"none", "integrate", "apply"} :
       Move(IF wish # "none" /\ plan.made # {} THEN "integrate"
            ELSE IF wish = "apply" THEN "apply" ELSE "finish",
            [plan EXCEPT !.wish = wish,
                         !.ready = AllCompleted({w \in plan.made : rows[w].status # "none"})])
  /\ UNCHANGED <<vars, report, restored, cycles, requests>>

\* The integration needs every one of them, with its worktree.
Integrate ==
  /\ step = "integrate"
  /\ LET next == IF plan.wish = "apply" THEN "apply" ELSE "finish" IN
       \/ /\ \A w \in plan.made : rows[w].status # "none" /\ rows[w].path \in trees
          /\ Move(next, plan)
       \/ Move(next, [plan EXCEPT !.ready = FALSE, !.failed = TRUE])
  /\ UNCHANGED <<vars, report, restored, cycles, requests>>

\* ApplyIntegration, which may fail or refuse; without an artifact, or when a
\* worker was not completed, it is skipped and that is a failure.
Apply ==
  /\ step = "apply"
  /\ \/ plan.ready /\ plan.made # {} /\ Move("finish", plan)
     \/ Move("finish", [plan EXCEPT !.failed = TRUE])
  /\ UNCHANGED <<vars, report, restored, cycles, requests>>

FinishPlan ==
  /\ step = "finish"
  /\ report' = IF plan.waiting THEN "approval_required"
               ELSE IF plan.failed THEN "failed" ELSE "completed"
  /\ Move("end", NoPlan)
  /\ UNCHANGED <<vars, restored, cycles, requests>>

\* After the second planner turn the run is left with the plan's stop reason.
EndPlan ==
  /\ step = "end"
  /\ reason' = (reason \/ report = "approval_required")
  /\ Move("idle", plan)
  /\ UNCHANGED <<rows, created, trees, turns, started, pc, job, lost, losses>>
  /\ UNCHANGED <<report, restored, cycles, requests>>

-----------------------------------------------------------------------------
(* Surroundings.                                                           *)

\* The process ends, or the store or the journal fails the cycle: its goroutines
\* go with it, and workers it had queued or was driving stay as they are.
CycleStops ==
  /\ step # "idle"
  /\ Disturbed
  /\ losses' = losses + 1
  /\ lost' = lost \union (plan.made \intersect plan.queued)
                  \union ({job[q].worker : q \in Lanes \union {Cycle}} \ {0})
  /\ pc' = [q \in Requests |-> IF q \in Operators THEN pc[q] ELSE "idle"]
  /\ job' = [q \in Requests |-> IF q \in Operators THEN job[q] ELSE NoJob]
  /\ Move("idle", NoPlan)
  /\ UNCHANGED <<rows, created, trees, turns, started, reason>>
  /\ UNCHANGED <<report, restored, cycles, requests>>

\* An operator's request; a note of a control can put back an older status.
Operate(q) ==
  /\ IF pc[q] = "idle"
       THEN requests + losses < MaxDisturbances /\ requests' = requests + 1
       ELSE UNCHANGED requests
  /\ Create(q) \/ Dispatch(q) \/ Approve(q) \/ Remove(q) \/ Abandon(q)
     \/ Interrupt(q) \/ Steer(q) \/ Kill(q)
  /\ restored' = restored \union
       {w \in 1..created : pc[q] = "note" /\ rows'[w].status # rows[w].status}
  /\ UNCHANGED <<step, plan, report, cycles>>

CycleStep ==
  \/ ListTurns \/ TurnsContinued \/ SyncPlan \/ Recount \/ SaveStopReason
  \/ ChooseActions \/ Act \/ EndActions
  \/ BeginPlan \/ CreateWorker \/ CreateRefused \/ MakeWorktree \/ WorkerCreated
  \/ ReadForQueue \/ SaveQueued \/ BeginDispatch \/ BreakPlan
  \/ Reload \/ Integrate \/ Apply \/ FinishPlan \/ EndPlan

LaneStep(l) == \/ ContinueTurn(l) \/ EndContinuation(l)
               \/ BeginTurn(l) \/ RefuseTurn(l) \/ RunTurn(l) \/ EndTurn(l)

PlanNext ==
  \/ CycleStep \/ CycleStops
  \/ \E l \in Lanes : LaneStep(l) \/ FailTurn(l)
  \/ \E q \in Operators : Operate(q)
  \/ \E t \in 1..MaxTurns : TurnAdvances(t) /\ UNCHANGED planVars

PlanSpec == PlanInit /\ [][PlanNext]_allVars

-----------------------------------------------------------------------------
(* Properties.                                                             *)

\* The shape of the plan's own state.
PlanTypeOK ==
  /\ TypeOK
  /\ plan.wanted \subseteq plan.asked /\ plan.asked \subseteq Paths
  /\ plan.made \subseteq 1..created
  /\ Cardinality(plan.made) + Cardinality(plan.wanted) <= Cardinality(plan.asked)
  /\ plan.queued \subseteq IF step = "continue" THEN 1..created ELSE plan.made
  /\ plan.verdict \in [1..MaxWorkers -> 0..started]
  /\ report \in Reports
  /\ restored \subseteq 1..created

\* A worker that counts as active, and can be neither dispatched nor removed, is
\* driven by a goroutine, the cycle or a request, waits for its slot, or has a turn
\* a later cycle takes up: of several workers dispatched at once one may fail, one
\* be refused and one break the plan, none is left pending or assigned.  Left out
\* are the workers of a cycle or request that was cut off, those whose worktree was
\* removed under them, and those that got an older status back from the note of a
\* control.
PlanSettles ==
  \A w \in (1..created) \ (lost \union restored) :
    Active(rows[w].status) =>
      \/ Continuable(rows[w])
      \/ w \in plan.queued
      \/ rows[w].path \notin trees
      \/ \E q \in Requests : job[q].worker = w

\* A plan that is reported completed stands on a worker for every one that was
\* asked for, and on a completed turn of each, whatever failed, was refused or was
\* changed by the operator in between.
PlanHonest ==
  [][FinishPlan /\ report' = "completed" =>
       /\ Cardinality(plan.made) = Cardinality(plan.asked)
       /\ \A w \in plan.made :
            plan.verdict[w] # 0 /\ turns[plan.verdict[w]] = "completed"]_allVars
=============================================================================

--------------------------- MODULE WorkerRegistry ---------------------------
(***************************************************************************)
(* The workers of a run: the table that records them (state/workers.go),   *)
(* the git worktrees they work in (workers/manager.go), and the requests   *)
(* that create, dispatch, control and remove them.  A request is one call  *)
(* of a `workers` command (cli/workers.go), of a control server's handler  *)
(* (runtime_control_worker_actions.go), or the continuation of a worker's  *)
(* turn by a cycle; it reads a row once, works from its copy, and writes   *)
(* the whole row back.  Nothing keeps two requests from each other.        *)
(***************************************************************************)
EXTENDS Integers, FiniteSets

CONSTANTS Paths,       \* worktree paths, what PlannedPath makes of the names
          Requests,    \* requests served at the same time
          MaxWorkers,  \* bound: rows ever inserted
          MaxTurns,    \* bound: executor turns ever started
          MaxLosses    \* bound: requests that end before their last step

ASSUME RegistryAssumption ==
  MaxWorkers \in Nat /\ MaxTurns \in Nat /\ MaxLosses \in Nat

VARIABLES
  rows,     \* table workers, by worker id
  created,  \* rows ever inserted, ids 1..created
  trees,    \* worktrees on disk
  turns,    \* what the app server knows of each turn
  started,  \* turns ever started, ids 1..started
  reason,   \* whether the run's stop reason says an approval is awaited
  pc, job,  \* where a request is, and what it holds
  lost,     \* workers whose request ended early while it drove them
  losses

vars == <<rows, created, trees, turns, started, reason, pc, job, lost, losses>>

NoRow == [status |-> "none", path |-> "none", turn |-> 0]
NoJob == [worker |-> 0, copy |-> NoRow, turn |-> 0]

Statuses == {"none", "creating", "idle", "pending", "assigned", "executor_active",
             "approval_required", "completed", "failed"}

\* state.IsWorkerActive; only a cycle makes a worker pending or assigned.
Active(status) == status \in {"creating", "pending", "assigned", "executor_active",
                              "approval_required"}

\* workerTurnInterruptibleState: a failed turn may be left interruptible.
Controllable(row) ==
  row.turn # 0 /\ row.status \in {"executor_active", "approval_required", "failed"}

\* hasContinuableWorkerTurn
Continuable(row) ==
  row.turn # 0 /\ row.status \in {"executor_active", "approval_required"}

Init ==
  /\ rows = [w \in 1..MaxWorkers |-> NoRow]
  /\ created = 0
  /\ trees = {}
  /\ turns = [t \in 1..MaxTurns |-> "none"]
  /\ started = 0
  /\ reason = FALSE
  /\ pc = [q \in Requests |-> "idle"]
  /\ job = [q \in Requests |-> NoJob]
  /\ lost = {}
  /\ losses = 0

Goto(q, place) == pc' = [pc EXCEPT ![q] = place]

Return(q) == Goto(q, "idle") /\ job' = [job EXCEPT ![q] = NoJob]

\* GetWorker
Found(w) == rows[w].status # "none"

\* The request keeps its copy of the row.
Read(q, w) ==
  /\ pc[q] = "idle"
  /\ Found(w)
  /\ job' = [job EXCEPT ![q] = [NoJob EXCEPT !.worker = w, !.copy = rows[w]]]

\* SaveWorker writes every column, and fails when the row is gone.
Save(q, row) ==
  LET w == job[q].worker IN
    rows' = IF Found(w) THEN [rows EXCEPT ![w] = row] ELSE rows

-----------------------------------------------------------------------------
(* workers create                                                          *)

\* CreateWorker; the index on worktree_path refuses a second row of a path.
InsertRow(q) ==
  /\ pc[q] = "idle"
  /\ created < MaxWorkers
  /\ \E p \in Paths :
       LET row == [NoRow EXCEPT !.status = "creating", !.path = p] IN
         /\ \A w \in 1..MaxWorkers : rows[w].path # p
         /\ rows' = [rows EXCEPT ![created + 1] = row]
         /\ job' = [job EXCEPT ![q] = [NoJob EXCEPT !.worker = created + 1, !.copy = row]]
  /\ created' = created + 1
  /\ Goto(q, "add")
  /\ UNCHANGED <<trees, turns, started, reason, lost, losses>>

\* Manager.Create: git worktree add, unless something is at the path.
AddWorktree(q) ==
  /\ pc[q] = "add"
  /\ \/ /\ job[q].copy.path \notin trees
        /\ trees' = trees \union {job[q].copy.path}
        /\ Goto(q, "created")
     \/ /\ UNCHANGED trees
        /\ Goto(q, "undo")
  /\ UNCHANGED <<rows, created, turns, started, reason, job, lost, losses>>

\* The row of a worker without a worktree is deleted again.
UndoRow(q) ==
  /\ pc[q] = "undo"
  /\ rows' = [rows EXCEPT ![job[q].worker] = NoRow]
  /\ Return(q)
  /\ UNCHANGED <<created, trees, turns, started, reason, lost, losses>>

SaveCreated(q) ==
  /\ pc[q] = "created"
  /\ Save(q, [job[q].copy EXCEPT !.status = "idle"])
  /\ Return(q)
  /\ UNCHANGED <<created, trees, turns, started, reason, lost, losses>>

-----------------------------------------------------------------------------
(* workers dispatch, and a cycle's continuation of a turn                  *)

\* Refused for an active worker, and without its worktree.
ReadForDispatch(q) ==
  /\ \E w \in 1..created :
       /\ Read(q, w)
       /\ ~Active(rows[w].status)
       /\ rows[w].path \in trees
  /\ Goto(q, "activate")
  /\ UNCHANGED <<rows, created, trees, turns, started, reason, lost, losses>>

\* The turn of an earlier dispatch stays in the row until this one returns.
Activate(q) ==
  /\ pc[q] = "activate"
  /\ Save(q, [job[q].copy EXCEPT !.status = "executor_active"])
  /\ IF Found(job[q].worker) THEN Goto(q, "start") /\ UNCHANGED job ELSE Return(q)
  /\ UNCHANGED <<created, trees, turns, started, reason, lost, losses>>

\* newWorkerExecutorClient fails: the handler returns, the worker stays active.
ClientUnavailable(q) ==
  /\ pc[q] = "start"
  /\ lost' = lost \union {job[q].worker}
  /\ Return(q)
  /\ UNCHANGED <<rows, created, trees, turns, started, reason, losses>>

\* Mutant: the request keeps a turn id of its own.
StartUnknownTurn(q) ==
  /\ pc[q] = "start"
  /\ job' = [job EXCEPT ![q].turn = started + 1]
  /\ Goto(q, "turn")
  /\ UNCHANGED <<rows, created, trees, turns, started, reason, lost, losses>>

\* Execute starts a turn.
StartTurn(q) ==
  /\ pc[q] = "start"
  /\ started < MaxTurns
  /\ started' = started + 1
  /\ turns' = [turns EXCEPT ![started + 1] = "running"]
  /\ job' = [job EXCEPT ![q].turn = started + 1]
  /\ Goto(q, "turn")
  /\ UNCHANGED <<rows, created, trees, reason, lost, losses>>

\* Execute fails before there is a turn: without the worktree, for one.
StartFails(q) ==
  /\ pc[q] = "start"
  /\ job' = [job EXCEPT ![q].copy.status = "failed", ![q].copy.turn = 0]
  /\ Goto(q, "save")
  /\ UNCHANGED <<rows, created, trees, turns, started, reason, lost, losses>>

\* continueWorkerTurn: a cycle waits for the turn the row names.
ReadForContinue(q) ==
  /\ \E w \in 1..created :
       /\ Continuable(rows[w])
       /\ pc[q] = "idle"
       /\ job' = [job EXCEPT ![q] = [worker |-> w, copy |-> rows[w],
                                     turn |-> rows[w].turn]]
  /\ Goto(q, "turn")
  /\ UNCHANGED <<rows, created, trees, turns, started, reason, lost, losses>>

\* Mutant: a turn that waits for an approval is taken for a result.
TurnReturnsEarly(q) ==
  /\ pc[q] = "turn"
  /\ job' = [job EXCEPT ![q].copy.status = IF turns[job[q].turn] = "failed"
                                           THEN "failed" ELSE "completed",
                        ![q].copy.turn = job[q].turn, ![q].turn = 0]
  /\ Goto(q, "save")
  /\ UNCHANGED <<rows, created, trees, turns, started, reason, lost, losses>>

\* Execute returns: with what the turn came to, or failed, after its deadline or
\* when the connection breaks, whatever the turn is doing.
TurnReturns(q) ==
  /\ pc[q] = "turn"
  /\ \E outcome \in {"approval_required", "completed", "failed"} :
       /\ outcome = "approval_required" => turns[job[q].turn] = "waiting"
       /\ outcome = "completed" => turns[job[q].turn] = "completed"
       /\ job' = [job EXCEPT ![q].copy.status = outcome,
                             ![q].copy.turn = job[q].turn, ![q].turn = 0]
  /\ Goto(q, "save")
  /\ UNCHANGED <<rows, created, trees, turns, started, reason, lost, losses>>

\* Mutant: after an error of the executor the handler returns at once.
SaveSuccess(q) ==
  /\ pc[q] = "save"
  /\ IF job[q].copy.status = "failed" THEN UNCHANGED rows ELSE Save(q, job[q].copy)
  /\ Return(q)
  /\ UNCHANGED <<created, trees, turns, started, reason, lost, losses>>

SaveResult(q) ==
  /\ pc[q] = "save"
  /\ Save(q, job[q].copy)
  /\ Return(q)
  /\ UNCHANGED <<created, trees, turns, started, reason, lost, losses>>

-----------------------------------------------------------------------------
(* workers approve and deny                                                *)

ReadForAnswer(q) ==
  /\ \E w \in 1..created : /\ Read(q, w)
                           /\ rows[w].status = "approval_required"
  /\ Goto(q, "answer")
  /\ UNCHANGED <<rows, created, trees, turns, started, reason, lost, losses>>

\* Approve or Deny of the app server: an answer to a turn that does not wait
\* finds no matching request and fails.
Answer(q) ==
  /\ pc[q] = "answer"
  /\ LET t == job[q].copy.turn IN
       \/ /\ turns[t] = "waiting"
          /\ turns' = [turns EXCEPT ![t] = "running"]
          /\ Goto(q, "answered") /\ UNCHANGED job
       \/ Return(q) /\ UNCHANGED turns
  /\ UNCHANGED <<rows, created, trees, started, reason, lost, losses>>

SaveAnswered(q) ==
  /\ pc[q] = "answered"
  /\ Save(q, [job[q].copy EXCEPT !.status = "executor_active"])
  /\ IF Found(job[q].worker) THEN Goto(q, "list") /\ UNCHANGED job ELSE Return(q)
  /\ UNCHANGED <<created, trees, turns, started, reason, lost, losses>>

\* refreshWorkerRunStopReason lists the workers, then writes the run.
ListForReason(q) ==
  /\ pc[q] = "list"
  /\ Goto(q, IF \E w \in 1..created : rows[w].status = "approval_required"
             THEN "keep_reason" ELSE "clear_reason")
  /\ UNCHANGED <<rows, created, trees, turns, started, reason, job, lost, losses>>

KeepReason(q) == pc[q] = "keep_reason" /\ reason' = TRUE

\* ClearLatestStopReason
ClearReason(q) == pc[q] = "clear_reason" /\ reason' = FALSE

SaveReason(q) ==
  /\ KeepReason(q) \/ ClearReason(q)
  /\ Return(q)
  /\ UNCHANGED <<rows, created, trees, turns, started, lost, losses>>

-----------------------------------------------------------------------------
(* workers interrupt, steer and kill                                       *)

ReadForInterrupt(q) ==
  /\ \E w \in 1..created : Read(q, w) /\ Controllable(rows[w])
  /\ Goto(q, "interrupt")
  /\ UNCHANGED <<rows, created, trees, turns, started, reason, lost, losses>>

ReadForSteer(q) ==
  /\ \E w \in 1..created :
       Read(q, w) /\ Controllable(rows[w]) /\ rows[w].status # "approval_required"
  /\ Goto(q, "steer")
  /\ UNCHANGED <<rows, created, trees, turns, started, reason, lost, losses>>

\* The transport has no kill: there is nothing to send, only to note.
ReadForKill(q) ==
  /\ \E w \in 1..created : Read(q, w) /\ rows[w].turn # 0
  /\ Goto(q, "note")
  /\ UNCHANGED <<rows, created, trees, turns, started, reason, lost, losses>>

\* The app server ends a turn that goes on, and refuses for one that ended.
InterruptTurn(q) ==
  /\ pc[q] = "interrupt"
  /\ LET t == job[q].copy.turn IN
       \/ /\ turns[t] \in {"running", "waiting"}
          /\ turns' = [turns EXCEPT ![t] = "failed"]
          /\ Goto(q, "note") /\ UNCHANGED job
       \/ Return(q) /\ UNCHANGED turns
  /\ UNCHANGED <<rows, created, trees, started, reason, lost, losses>>

SteerTurn(q) ==
  /\ pc[q] = "steer"
  /\ \/ /\ turns[job[q].copy.turn] \in {"running", "waiting"}
        /\ Goto(q, "note") /\ UNCHANGED job
     \/ Return(q)
  /\ UNCHANGED <<rows, created, trees, turns, started, reason, lost, losses>>

\* The control action is noted in the row as it was when it was read.
SaveControl(q) ==
  /\ pc[q] = "note"
  /\ Save(q, job[q].copy)
  /\ Return(q)
  /\ UNCHANGED <<created, trees, turns, started, reason, lost, losses>>

-----------------------------------------------------------------------------
(* workers remove                                                          *)

ReadForRemoval(q) ==
  /\ \E w \in 1..created : Read(q, w) /\ ~Active(rows[w].status)
  /\ Goto(q, "remove")
  /\ UNCHANGED <<rows, created, trees, turns, started, reason, lost, losses>>

\* Mutant: the row is deleted before the worktree.
RemoveRowFirst(q) ==
  /\ pc[q] = "remove"
  /\ rows' = [rows EXCEPT ![job[q].worker] = NoRow]
  /\ Goto(q, "delete")
  /\ UNCHANGED <<created, trees, turns, started, reason, job, lost, losses>>

\* Manager.Remove: git worktree remove --force, if it is there.
RemoveWorktree(q) ==
  /\ pc[q] = "remove"
  /\ \/ trees' = trees \ {job[q].copy.path} /\ Goto(q, "delete") /\ UNCHANGED job
     \/ UNCHANGED trees /\ Return(q)
  /\ UNCHANGED <<rows, created, turns, started, reason, lost, losses>>

DeleteRow(q) ==
  /\ pc[q] = "delete"
  /\ rows' = [rows EXCEPT ![job[q].worker] = NoRow]
  /\ Return(q)
  /\ UNCHANGED <<created, trees, turns, started, reason, lost, losses>>

-----------------------------------------------------------------------------
(* Surroundings.                                                           *)

\* A turn goes on in the app server, with or without somebody waiting for it.
TurnAdvances(t) ==
  /\ turns[t] = "running"
  /\ turns' = [turns EXCEPT ![t] = "waiting"]
     \/ turns' = [turns EXCEPT ![t] = "completed"]
     \/ turns' = [turns EXCEPT ![t] = "failed"]
  /\ UNCHANGED <<rows, created, trees, started, reason, pc, job, lost, losses>>

Drives(q, w) ==
  /\ job[q].worker = w
  /\ pc[q] \in {"add", "undo", "created", "start", "turn", "save"}

\* A request ends early: its process is killed, its client is gone and the
\* context of the request with it, or the store fails.
Abandon(q) ==
  /\ pc[q] # "idle"
  /\ losses < MaxLosses
  /\ losses' = losses + 1
  /\ lost' = lost \union {w \in {job[q].worker} : Drives(q, w)}
  /\ Return(q)
  /\ UNCHANGED <<rows, created, trees, turns, started, reason>>

Create(q) == InsertRow(q) \/ AddWorktree(q) \/ UndoRow(q) \/ SaveCreated(q)
Dispatch(q) == \/ ReadForDispatch(q) \/ Activate(q) \/ ClientUnavailable(q)
               \/ StartTurn(q) \/ StartFails(q)
               \/ TurnReturns(q) \/ SaveResult(q)
Approve(q) == \/ ReadForAnswer(q) \/ Answer(q) \/ SaveAnswered(q)
              \/ ListForReason(q) \/ SaveReason(q)
Interrupt(q) == ReadForInterrupt(q) \/ InterruptTurn(q)
Steer(q) == ReadForSteer(q) \/ SteerTurn(q)
Kill(q) == ReadForKill(q) \/ SaveControl(q)
Remove(q) == ReadForRemoval(q) \/ RemoveWorktree(q) \/ DeleteRow(q)

Next ==
  \/ \E q \in Requests : \/ Create(q) \/ Dispatch(q) \/ ReadForContinue(q)
                         \/ Approve(q) \/ Interrupt(q) \/ Steer(q) \/ Kill(q)
                         \/ Remove(q) \/ Abandon(q)
  \/ \E t \in 1..MaxTurns : TurnAdvances(t)

Spec == Init /\ [][Next]_vars

-----------------------------------------------------------------------------
(* Properties.                                                             *)

RowType == [status : Statuses, path : Paths \union {"none"}, turn : 0..started]

\* The shape of the state; no row names a turn that was never started.
TypeOK ==
  /\ rows \in [1..MaxWorkers -> RowType]
  /\ created \in 0..MaxWorkers
  /\ trees \subseteq Paths
  /\ turns \in [1..MaxTurns -> {"none", "running", "waiting", "completed", "failed"}]
  /\ started \in 0..MaxTurns
  /\ reason \in BOOLEAN
  /\ \A q \in Requests :
       /\ job[q].worker \in 0..created
       /\ job[q].copy \in RowType
       /\ job[q].turn \in 0..started
  /\ lost \subseteq 1..created
  /\ losses \in 0..MaxLosses

\* Every worktree on disk belongs to a worker that is still recorded, so it can
\* be found and removed: the row is there before the worktree and goes after it,
\* wherever a request ends early and whichever requests meet.
NoOrphanWorktree ==
  \A p \in trees : \E w \in 1..created : rows[w].status # "none" /\ rows[w].path = p

\* A worker that counts as active, and may be neither dispatched nor removed, is
\* driven by a request or can be taken up by a cycle.  Whole rows written back
\* from stale copies do not strand it, nor two dispatches at once; a request that
\* ended early while it drove the worker does.
ActiveIsDriven ==
  \A w \in (1..created) \ lost :
    Active(rows[w].status) =>
      Continuable(rows[w]) \/ \E q \in Requests : Drives(q, w)

\* A worker recorded as completed names a turn that did complete, through stale
\* copies, continuations and dispatches that overtake each other.
VerdictEarned ==
  \A w \in 1..created :
    rows[w].status = "completed" => rows[w].turn # 0 /\ turns[rows[w].turn] = "completed"
=============================================================================

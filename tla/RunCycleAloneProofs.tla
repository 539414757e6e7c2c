------------------------- MODULE RunCycleAloneProofs -------------------------
(***************************************************************************)
(* What a run keeps that one loop drives, however often it is restarted.   *)
(* A loop that is alone has, between two of its saves, the row of the run  *)
(* in its copy; so what it does with the copy, it does with the row.       *)
(*                                                                         *)
(* The first part says what each step does to the loop and to the store;   *)
(* the invariants only use that.                                           *)
(***************************************************************************)
EXTENDS RunCycleProofs

\* What the invariants look at besides the loop.
StoreSame == UNCHANGED <<run, checkpoints, pending>>
WorldSame == UNCHANGED <<control, dispatched, answers, commands, crashes, faults>>

\* What they look at in the state of a cycle.
CycleKept(c, d) == /\ d.mode = c.mode /\ d.last = c.last
                   /\ d.failed = c.failed /\ d.approval = c.approval

-----------------------------------------------------------------------------
(* Steps that write nothing.                                               *)

\* Reading a field that was just written.
LEMMA CycleWritten ==
  ASSUME NEW c \in CycleType
  PROVE  /\ \A reason : CycleKept(c, [c EXCEPT !.reason = reason])
         /\ \A n : CycleKept(c, [c EXCEPT !.due = n])
         /\ \A mode, n : [c EXCEPT !.mode = mode, !.left = n].failed = c.failed
         /\ LET d == [c EXCEPT !.failed = TRUE] IN
              d.failed /\ d.mode = c.mode /\ d.last = c.last /\ d.approval = c.approval
         /\ \A waiting : LET d == [c EXCEPT !.approval = waiting] IN
              /\ d.approval = waiting
              /\ d.failed = c.failed /\ d.mode = c.mode /\ d.last = c.last
         /\ \A turn, outcome : LET d == Heard(turn, outcome, c) IN
              /\ d.last = outcome
              /\ d.failed = c.failed /\ d.mode = c.mode /\ d.approval = c.approval
BY DEF CycleType, CycleKept, Heard

\* Reading what a loop just wrote of its own.
LEMMA LoopWritten ==
  ASSUME TypeOK, NEW l \in Loops
  PROVE  \A v : /\ [pc EXCEPT ![l] = v][l] = v /\ [mem EXCEPT ![l] = v][l] = v
                /\ [phase EXCEPT ![l] = v][l] = v /\ [hand EXCEPT ![l] = v][l] = v
                /\ [cyc EXCEPT ![l] = v][l] = v
BY DEF TypeOK

LEMMA TakeEffect ==
  ASSUME TypeOK, NEW l \in Loops, Resume(l)
  PROVE  /\ pc[l] = "off" /\ pc'[l] = "begin" /\ run.status # "completed"
         /\ mem'[l] = run /\ phase'[l] = phase[l] /\ hand'[l] = hand[l]
         /\ cyc'[l].failed = cyc[l].failed
         /\ StoreSame /\ WorldSame
<1>1. PICK mode \in AllModes, n \in Nat : Take(l, mode, n)
  BY ResumeTakes
<1>2. cyc[l] \in CycleType
  BY DEF TypeOK
<1> DEFINE d == [cyc[l] EXCEPT !.mode = mode, !.left = n]
<1>3. cyc' = [cyc EXCEPT ![l] = d]
  BY <1>1 DEF Take, TypeOK
<1>4. d.failed = cyc[l].failed
  BY <1>2, CycleWritten
<1> HIDE DEF d
<1>5. cyc'[l].failed = cyc[l].failed
  BY <1>3, <1>4, LoopWritten
<1> QED
  BY <1>1, <1>5, LoopWritten
     DEF Take, Resumable, Goto, StoreSame, WorldSame, durable, world, limits

LEMMA BeginEffect ==
  ASSUME TypeOK, NEW l \in Loops, BeginCycle(l)
  PROVE  /\ pc[l] = "begin"
         /\ \/ ActiveTurn(mem[l]) /\ pc'[l] = "continue"
            \/ ~ActiveTurn(mem[l]) /\ pc'[l] \in {"rejoin", "plan"}
         /\ UNCHANGED <<mem, phase, hand, cyc>> /\ StoreSame /\ WorldSame
BY LoopWritten
   DEF BeginCycle, PlanWithMessage, Goto, StoreSame, WorldSame, durable, world, limits

LEMMA PlanEffect ==
  ASSUME TypeOK, NEW l \in Loops, Plan(l)
  PROVE  /\ pc[l] = "plan" /\ pc'[l] = "save" /\ hand'[l].outcome \in Outcomes
         /\ UNCHANGED <<mem, phase, cyc>> /\ StoreSame /\ WorldSame
<1>1. PICK o \in PlannerChoices :
        hand' = [hand EXCEPT ![l] = [outcome |-> o, resp |-> issued + 1]]
  BY DEF Plan
<1>2. o \in Outcomes
  BY ConstantsAssumption
<1>3. hand'[l].outcome = o
  BY <1>1, LoopWritten
<1> QED
  BY <1>2, <1>3, LoopWritten DEF Plan, Goto, StoreSame, WorldSame, durable, limits

LEMMA FailsEffect ==
  ASSUME TypeOK, NEW l \in Loops, PlanFails(l) \/ AskFails(l)
  PROVE  /\ pc[l] \in {"plan", "ask"} /\ pc'[l] = "issue"
         /\ CycleKept(cyc[l], cyc'[l])
         /\ UNCHANGED <<mem, phase, hand>> /\ StoreSame /\ WorldSame
<1>1. PICK reason : Fails(l, reason)
  BY DEF PlanFails, AskFails
<1>2. cyc[l] \in CycleType
  BY DEF TypeOK
<1> DEFINE d == [cyc[l] EXCEPT !.reason = reason]
<1>3. cyc' = [cyc EXCEPT ![l] = d]
  BY <1>1 DEF Fails
<1>4. CycleKept(cyc[l], d)
  BY <1>2, CycleWritten
<1> HIDE DEF d
<1>5. CycleKept(cyc[l], cyc'[l])
  BY <1>3, <1>4, LoopWritten
<1> QED
  BY <1>1, <1>5, LoopWritten
     DEF PlanFails, AskFails, Fails, Goto, StoreSame, WorldSame, durable, world, limits

\* A loop that goes to the safe point with an error.
LEMMA AbortEffect ==
  ASSUME TypeOK, NEW l \in Loops, Abort(l)
  PROVE  /\ pc'[l] = "end" /\ cyc'[l].failed
         /\ cyc'[l].mode = cyc[l].mode /\ cyc'[l].last = cyc[l].last
<1>1. cyc[l] \in CycleType
  BY DEF TypeOK
<1>2. cyc' = [cyc EXCEPT ![l] = [cyc[l] EXCEPT !.failed = TRUE]]
  BY DEF Abort
<1> DEFINE d == [cyc[l] EXCEPT !.failed = TRUE]
<1>3. d.failed /\ d.mode = cyc[l].mode /\ d.last = cyc[l].last
  BY <1>1, CycleWritten
<1>4. cyc'[l] = d
  BY <1>2, LoopWritten
<1> HIDE DEF d
<1> QED
  BY <1>3, <1>4, LoopWritten DEF Abort, Goto

LEMMA ConflictEffect ==
  ASSUME TypeOK, NEW l \in Loops, SaveConflict(l) \/ ExecutorConflict(l)
  PROVE  /\ pc[l] \in {"save", "executing"} /\ ~SequenceFree(mem[l].seq + 1)
         /\ pc'[l] = "end" /\ cyc'[l].failed
         /\ cyc'[l].mode = cyc[l].mode /\ cyc'[l].last = cyc[l].last
         /\ UNCHANGED <<mem, phase, hand>> /\ StoreSame /\ WorldSame
BY AbortEffect DEF SaveConflict, ExecutorConflict, StoreSame, WorldSame, durable, world, limits

LEMMA FaultEffect ==
  ASSUME TypeOK, NEW l \in Loops, StoreFault(l)
  PROVE  /\ CallsStore(l) /\ pc'[l] = "end" /\ cyc'[l].failed
         /\ cyc'[l].mode = cyc[l].mode /\ cyc'[l].last = cyc[l].last
         /\ UNCHANGED <<mem, phase, hand>> /\ StoreSame
         /\ UNCHANGED <<control, dispatched, answers, commands, crashes>> /\ faults' # 0
<1>1. faults' # 0
  BY DEF StoreFault, TypeOK
<1> QED
  BY <1>1, AbortEffect DEF StoreFault, StoreSame, durable, world

LEMMA ReloadEffect ==
  ASSUME TypeOK, NEW l \in Loops, ReloadAfterTurn(l)
  PROVE  /\ pc[l] = "reload" /\ pc'[l] \in {"consume", "pending"}
         /\ pc'[l] = "consume" => phase[l] = "first"
         /\ mem'[l] = run /\ cyc'[l].last = hand[l].outcome
         /\ cyc'[l].failed = cyc[l].failed /\ cyc'[l].mode = cyc[l].mode
         /\ cyc'[l].approval = cyc[l].approval
         /\ UNCHANGED <<phase, hand>> /\ StoreSame /\ WorldSame
<1>1. cyc[l] \in CycleType
  BY DEF TypeOK
<1> DEFINE d == Heard(phase[l], hand[l].outcome, cyc[l])
<1>2. cyc' = [cyc EXCEPT ![l] = d]
  BY DEF ReloadAfterTurn
<1>3. /\ d.last = hand[l].outcome
      /\ d.failed = cyc[l].failed /\ d.mode = cyc[l].mode /\ d.approval = cyc[l].approval
  BY <1>1, CycleWritten
<1> HIDE DEF d
<1>4. cyc'[l] = d
  BY <1>2, LoopWritten
<1> QED
  BY <1>3, <1>4, LoopWritten
     DEF ReloadAfterTurn, Goto, StoreSame, WorldSame, durable, world, limits

LEMMA DriftEffect ==
  ASSUME TypeOK, NEW l \in Loops, DriftReviewed(l) \/ NoDriftReview(l)
  PROVE  /\ pc[l] = "drift"
         /\ \/ pc'[l] = "plan" /\ phase'[l] = "drift"
               /\ hand[l].outcome \in {"execute", "collect_context"}
            \/ /\ pc'[l] = IF mem[l].status = "completed" THEN "end" ELSE "intervene"
               /\ phase' = phase
         /\ UNCHANGED <<mem, hand, cyc>> /\ StoreSame /\ WorldSame
BY LoopWritten
   DEF DriftReviewed, NoDriftReview, Goto, StoreSame, WorldSame, durable, world, limits, local

LEMMA ConsumeEffect ==
  ASSUME TypeOK, NEW l \in Loops, ConsumeControlMessage(l)
  PROVE  /\ pc[l] = "consume"
         /\ pc'[l] = IF phase[l] = "first" THEN "pending" ELSE AfterTurn(l)
         /\ UNCHANGED <<mem, phase, hand, cyc>> /\ StoreSame /\ WorldSame
BY LoopWritten DEF ConsumeControlMessage, Goto, StoreSame, WorldSame, world, limits

LEMMA NothingEffect ==
  ASSUME TypeOK, NEW l \in Loops, NothingToDo(l)
  PROVE  /\ pc[l] = "act" /\ pc'[l] = "end"
         /\ UNCHANGED <<mem, phase, hand, cyc>> /\ StoreSame /\ WorldSame
BY LoopWritten DEF NothingToDo, Goto, StoreSame, WorldSame, durable, world, limits, local

LEMMA AskWorkersEffect ==
  ASSUME TypeOK, NEW l \in Loops, AskWorkers(l)
  PROVE  /\ pc[l] = "collect" /\ pc'[l] = "workers"
         /\ UNCHANGED <<mem, phase, hand, cyc>> /\ StoreSame /\ WorldSame
BY LoopWritten DEF AskWorkers, Goto, StoreSame, WorldSame, durable, world, limits, local

LEMMA RefreshEffect ==
  ASSUME TypeOK, NEW l \in Loops, RefreshAfterAction(l)
  PROVE  /\ pc[l] = "refresh" /\ mem'[l] = run
         /\ pc'[l] = IF phase[l] = "executor" /\ cyc[l].approval THEN "approval" ELSE "plan"
         /\ UNCHANGED <<phase, hand, cyc>> /\ StoreSame /\ WorldSame
BY LoopWritten DEF RefreshAfterAction, Goto, StoreSame, WorldSame, durable, world, limits

LEMMA DispatchEffect ==
  ASSUME TypeOK, NEW l \in Loops, Dispatch(l)
  PROVE  /\ pc[l] = "dispatch" /\ pc'[l] = "executing"
         /\ Len(dispatched') = Len(dispatched) + 1 /\ Len(dispatched) \in Nat
         /\ mem'[l].turn.id = Len(dispatched')
         /\ mem'[l].seq = mem[l].seq /\ mem'[l].exec = mem[l].exec
         /\ mem'[l].status = mem[l].status
         /\ UNCHANGED <<phase, hand, cyc, control, answers, commands, crashes, faults>> /\ StoreSame
<1>1. /\ dispatched \in Seq(Nat) /\ mem[l] \in RunType /\ mem[l].turn \in TurnType
      /\ hand[l].resp \in Nat
  BY DEF TypeOK, RunType, HandType
<1>2. Len(dispatched') = Len(dispatched) + 1 /\ Len(dispatched) \in Nat
  BY <1>1, AppendProperties, LenProperties DEF Dispatch
<1> DEFINE n == Len(dispatched) + 1
           turn == [mem[l].turn EXCEPT !.id = n]
           row == [mem[l] EXCEPT !.turn = turn]
<1>3. turn.id = n
  BY <1>1 DEF TurnType
<1>4. mem' = [mem EXCEPT ![l] = row]
  BY DEF Dispatch
<1> HIDE DEF turn, n
<1>5. /\ row.turn = turn /\ row.seq = mem[l].seq /\ row.exec = mem[l].exec
      /\ row.status = mem[l].status
  BY <1>1 DEF RunType
<1> HIDE DEF row
<1>6. mem'[l] = row
  BY <1>4, LoopWritten
<1>7. mem'[l].turn.id = Len(dispatched')
  BY <1>2, <1>3, <1>5, <1>6 DEF n
<1> QED
  BY <1>2, <1>5, <1>6, <1>7, LoopWritten DEF Dispatch, Goto, StoreSame, durable, limits

-----------------------------------------------------------------------------
(* Steps that write to the store.                                          *)

\* What the columns that are not written keep.
RowKept(r, s) == /\ s.status = r.status /\ s.resp = r.resp /\ s.turn = r.turn
                 /\ s.seq = r.seq /\ s.exec = r.exec

\* Reading the columns after the issue was reset.
LEMMA ClearedWritten ==
  ASSUME NEW r \in RunType
  PROVE  RowKept(r, Cleared(r)) /\ Cleared(r).stop = ""
BY DEF RunType, RowKept, Cleared

\* The turn the executor reports on.
LEMMA ReportedTurn ==
  ASSUME TypeOK, NEW l \in Loops,
         NEW status \in {"completed", "approval_required", "failed"},
         NEW approval \in {"none", "required"}
  PROVE  /\ Reported(l, status, approval) \in TurnType
         /\ Reported(l, status, approval).id = mem[l].turn.id
         /\ Reported(l, status, approval).status = status
<1>1. mem[l] \in RunType
  BY DEF TypeOK
<1>2. mem[l].turn.id \in Nat
  BY <1>1 DEF RunType, TurnType
<1> QED
  BY <1>2 DEF Reported, TurnType

LEMMA SaveEffect ==
  ASSUME TypeOK, NEW l \in Loops, SavePlannerTurn(l)
  PROVE  /\ pc[l] = "save" /\ pc'[l] = "reload"
         /\ run'.resp = hand[l].resp /\ run'.exec = mem[l].exec /\ run'.turn = run.turn
         /\ run'.status = IF hand[l].outcome = "complete" THEN "completed" ELSE run.status
         /\ CycleKept(cyc[l], cyc'[l])
         /\ UNCHANGED <<mem, phase, hand, pending>> /\ WorldSame
<1>1. cyc[l] \in CycleType /\ Cleared(run) \in RunType
  BY ClearedType DEF TypeOK
<1> DEFINE d == [cyc[l] EXCEPT !.due = injected]
           status == IF hand[l].outcome = "complete" THEN "completed" ELSE run.status
           row == [Cleared(run) EXCEPT !.resp = hand[l].resp, !.seq = mem[l].seq + 1,
                     !.planner = mem[l].planner + 1, !.exec = mem[l].exec, !.status = status]
<1>2. cyc' = [cyc EXCEPT ![l] = d] /\ run' = row
  BY DEF SavePlannerTurn
<1>3. CycleKept(cyc[l], d)
  BY <1>1, CycleWritten
<1>4. /\ row.resp = hand[l].resp /\ row.exec = mem[l].exec /\ row.turn = Cleared(run).turn
      /\ row.status = status
  <2> HIDE DEF status
  <2> QED
    BY <1>1 DEF RunType
<1>5. Cleared(run).turn = run.turn
  BY ClearedWritten DEF TypeOK, RowKept
<1> HIDE DEF d, row
<1>6. cyc'[l] = d
  BY <1>2, LoopWritten
<1> QED
  BY <1>2, <1>3, <1>4, <1>5, <1>6, LoopWritten
     DEF SavePlannerTurn, Goto, WorldSame, world, limits

LEMMA PendingEffect ==
  ASSUME TypeOK, NEW l \in Loops, PersistPendingAction(l)
  PROVE  /\ pc[l] = "pending" /\ pending' = BuildPendingAction(hand[l], FALSE)
         /\ pc'[l] = IF phase[l] = "intervention" THEN "consume" ELSE AfterTurn(l)
         /\ UNCHANGED <<run, checkpoints, mem, phase, hand, cyc>> /\ WorldSame
BY LoopWritten
   DEF PersistPendingAction, SavePendingAction, Goto, WorldSame, world, limits, local

LEMMA InterveneEffect ==
  ASSUME TypeOK, NEW l \in Loops, Intervene(l)
  PROVE  /\ pc[l] = "intervene"
         /\ \/ /\ pc'[l] = "plan" /\ phase'[l] = "intervention"
               /\ pending' = IF pending # NoPending /\ ~pending.held
                             THEN BuildPendingAction(hand[l], TRUE) ELSE pending
            \/ pc'[l] = "act" /\ phase' = phase /\ pending' = pending
         /\ UNCHANGED <<run, checkpoints, mem, hand, cyc>> /\ WorldSame
<1> DEFINE action == IF pending # NoPending /\ ~pending.held
                     THEN BuildPendingAction(hand[l], TRUE) ELSE pending
<1>1. PICK m \in 0..injected :
        \/ /\ pending' = action
           /\ phase' = [phase EXCEPT ![l] = "intervention"]
           /\ pc' = [pc EXCEPT ![l] = "plan"]
        \/ /\ pc' = [pc EXCEPT ![l] = "act"]
           /\ UNCHANGED <<pending, phase>>
  BY DEF Intervene, SavePendingAction, Goto
<1>2. /\ pc[l] = "intervene"
      /\ UNCHANGED <<run, checkpoints, mem, hand, cyc>> /\ WorldSame
  BY DEF Intervene, WorldSame, world, limits
<1> HIDE DEF action
<1>3. \/ pc'[l] = "plan" /\ phase'[l] = "intervention" /\ pending' = action
      \/ pc'[l] = "act" /\ phase' = phase /\ pending' = pending
  BY <1>1, LoopWritten
<1> QED
  BY <1>2, <1>3 DEF action

LEMMA BeginActionEffect ==
  ASSUME TypeOK, NEW l \in Loops, BeginAction(l)
  PROVE  /\ pc[l] = "act" /\ pc'[l] \in {"dispatch", "collect", "ask"}
         /\ pending' = NoPending
         /\ UNCHANGED <<run, checkpoints, mem, phase, hand, cyc>> /\ WorldSame
<1>1. hand[l].outcome \in {"execute", "collect_context", "ask_human"}
  BY DEF BeginAction, ActionPlace
<1>2. ActionPlace[hand[l].outcome] \in {"dispatch", "collect", "ask"}
  BY <1>1 DEF ActionPlace
<1> QED
  BY <1>2, LoopWritten DEF BeginAction, SavePendingAction, Goto, WorldSame, world, limits, local

\* A reply or a collected context.
LEMMA ResultEffect ==
  ASSUME TypeOK, NEW l \in Loops,
         RecordHumanReply(l) \/ CollectContext(l) \/ WorkersReport(l)
  PROVE  /\ pc[l] \in {"ask", "collect", "workers"} /\ pc'[l] = "refresh"
         /\ phase'[l] \in {"human", "context"}
         /\ RowKept(run, run') /\ run'.stop = ""
         /\ cyc'[l].failed = cyc[l].failed
         /\ UNCHANGED <<mem, hand, checkpoints, pending>> /\ WorldSame
<1>1. run' = Cleared(run) => RowKept(run, run') /\ run'.stop = ""
  BY ClearedWritten DEF TypeOK
<1>2. CASE RecordHumanReply(l)
  BY <1>1, <1>2, LoopWritten DEF RecordHumanReply, Goto, WorldSame, world, limits
<1>3. CASE CollectContext(l) \/ WorkersReport(l)
  <2>1. PICK waiting \in BOOLEAN : SaveCollectedContext(l, waiting)
    BY <1>3 DEF CollectContext, WorkersReport
  <2> DEFINE d == [cyc[l] EXCEPT !.approval = waiting]
  <2>2. cyc' = [cyc EXCEPT ![l] = d] /\ cyc[l] \in CycleType
    BY <2>1 DEF SaveCollectedContext, TypeOK
  <2>3. d.failed = cyc[l].failed
    BY <2>2, CycleWritten
  <2> HIDE DEF d
  <2>4. cyc'[l] = d
    BY <2>2, LoopWritten
  <2>5. pc[l] \in {"collect", "workers"}
    BY <1>3 DEF CollectContext, WorkersReport
  <2> QED
    BY <1>1, <2>1, <2>3, <2>4, <2>5, LoopWritten
       DEF SaveCollectedContext, Goto, WorldSame, world, limits
<1> QED
  BY <1>2, <1>3

\* Only the stop reason is written.
LEMMA StopWritten ==
  ASSUME TypeOK, NEW reason, run' = [run EXCEPT !.stop = reason]
  PROVE  RowKept(run, run') /\ run'.stop = reason
BY DEF TypeOK, RunType, RowKept

LEMMA RejoinEffect ==
  ASSUME TypeOK, NEW l \in Loops, ContinueWorkerPlan(l) \/ WorkerTurnsReturn(l)
  PROVE  /\ \/ pc[l] = "rejoin" /\ pc'[l] = "rejoined" /\ pending' = NoPending
               /\ UNCHANGED <<run, mem>>
            \/ pc[l] = "rejoined" /\ pc'[l] = "settle" /\ pending' = pending
               /\ mem'[l] = run'
         /\ RowKept(run, run')
         /\ UNCHANGED <<checkpoints, phase, hand, cyc>> /\ WorldSame
<1>1. RowKept(run, run) /\ RowKept(run, Cleared(run))
  BY ClearedWritten DEF TypeOK, RowKept
<1>2. CASE ContinueWorkerPlan(l)
  BY <1>1, <1>2, LoopWritten
     DEF ContinueWorkerPlan, SavePendingAction, Goto, WorldSame, world, limits, local
<1>3. CASE WorkerTurnsReturn(l)
  <2>1. RowKept(run, run')
    BY <1>1, <1>3 DEF WorkerTurnsReturn
  <2> DEFINE row == run'
  <2>2. mem' = [mem EXCEPT ![l] = row]
    BY <1>3 DEF WorkerTurnsReturn
  <2> HIDE DEF row
  <2>3. mem'[l] = row
    BY <2>2, LoopWritten
  <2> QED
    BY <1>3, <2>1, <2>3, LoopWritten DEF row, WorkerTurnsReturn, Goto, WorldSame, world, limits
<1> QED
  BY <1>2, <1>3

LEMMA SettleEffect ==
  ASSUME TypeOK, NEW l \in Loops, WorkersNeedApproval(l) \/ WorkersSettled(l)
  PROVE  /\ pc[l] = "settle"
         /\ \/ pc'[l] = "plan" \/ (pc'[l] = "end" /\ run'.stop # "" /\ mem'[l] = run')
         /\ mem'[l] = run' \/ UNCHANGED <<run, mem>>
         /\ RowKept(run, run')
         /\ UNCHANGED <<checkpoints, pending, phase, hand, cyc>> /\ WorldSame
<1>1. RowKept(run, run)
  BY DEF RowKept
<1> DEFINE row == run'
<1>2. mem' = [mem EXCEPT ![l] = row] => mem'[l] = row
  <2> HIDE DEF row
  <2> QED
    BY LoopWritten
<1> HIDE DEF row
<1>3. CASE WorkersNeedApproval(l)
  <2>1. run' = [run EXCEPT !.stop = "executor_approval_required"] /\ mem'[l] = run'
    BY <1>2, <1>3 DEF WorkersNeedApproval, row
  <2>2. RowKept(run, run') /\ run'.stop # ""
    BY <2>1, StopWritten
  <2> QED
    BY <1>3, <2>1, <2>2, LoopWritten DEF WorkersNeedApproval, Goto, WorldSame, world, limits
<1>4. CASE WorkersSettled(l)
  <2>1. \/ run' = [run EXCEPT !.stop = ""] /\ mem'[l] = run'
        \/ UNCHANGED <<run, mem>>
    BY <1>2, <1>4 DEF WorkersSettled, row
  <2>2. RowKept(run, run')
    BY <1>1, <2>1, StopWritten
  <2> QED
    BY <1>4, <2>1, <2>2, LoopWritten
       DEF WorkersSettled, PlanWithMessage, Goto, WorldSame, world, limits
<1> QED
  BY <1>3, <1>4

LEMMA ContinueEffect ==
  ASSUME TypeOK, NEW l \in Loops, ContinueExecutorTurn(l)
  PROVE  /\ pc[l] = "continue" /\ pc'[l] = "executing" /\ pending' = NoPending
         /\ UNCHANGED <<run, checkpoints, mem, phase, hand, cyc>> /\ WorldSame
BY LoopWritten
   DEF ContinueExecutorTurn, SavePendingAction, Goto, WorldSame, world, limits, local

LEMMA CompletesEffect ==
  ASSUME TypeOK, NEW l \in Loops, ExecutorCompletes(l)
  PROVE  /\ pc[l] = "executing" /\ pc'[l] = "refresh" /\ phase'[l] = "executor"
         /\ run'.resp = run.resp /\ run'.status = run.status
         /\ run'.exec = mem[l].exec + 1
         /\ run'.turn.id = mem[l].turn.id /\ run'.turn.status = "completed"
         /\ UNCHANGED <<pending, mem, hand, cyc>> /\ WorldSame
<1>1. run \in RunType /\ Cleared(run) \in RunType
  BY ClearedType DEF TypeOK
<1> DEFINE turn == Reported(l, "completed", "none")
           row == [Cleared(run) EXCEPT !.seq = mem[l].seq + 1, !.planner = mem[l].planner,
                                       !.exec = mem[l].exec + 1, !.turn = turn]
<1>2. run' = row
  BY DEF ExecutorCompletes
<1>3. turn.id = mem[l].turn.id /\ turn.status = "completed"
  BY DEF Reported
<1>4. /\ row.resp = Cleared(run).resp /\ row.status = Cleared(run).status
      /\ row.exec = mem[l].exec + 1 /\ row.turn = turn
  <2> HIDE DEF turn
  <2> QED
    BY <1>1 DEF RunType
<1>5. Cleared(run).resp = run.resp /\ Cleared(run).status = run.status
  BY <1>1, ClearedWritten DEF RowKept
<1> HIDE DEF turn, row
<1> QED
  BY <1>2, <1>3, <1>4, <1>5, LoopWritten DEF ExecutorCompletes, Goto, WorldSame, world, limits

\* Only the turn of the row is written, besides the issue.
LEMMA TurnWritten ==
  ASSUME TypeOK, NEW turn \in TurnType, run' = [Cleared(run) EXCEPT !.turn = turn]
  PROVE  /\ run'.turn = turn /\ run'.resp = run.resp /\ run'.status = run.status
         /\ run'.seq = run.seq /\ run'.exec = run.exec
<1>1. run \in RunType /\ Cleared(run) \in RunType
  BY ClearedType DEF TypeOK
<1>2. RowKept(run, Cleared(run))
  BY <1>1, ClearedWritten
<1> DEFINE r == Cleared(run)
           s == [r EXCEPT !.turn = turn]
<1>3. /\ s.turn = turn /\ s.status = r.status /\ s.resp = r.resp
      /\ s.seq = r.seq /\ s.exec = r.exec
  <2>1. r \in RunType
    BY <1>1
  <2> HIDE DEF r
  <2> QED
    BY <2>1 DEF RunType
<1>4. run' = s
  OBVIOUS
<1> HIDE DEF s
<1> QED
  BY <1>2, <1>3, <1>4 DEF RowKept

LEMMA NeedsApprovalEffect ==
  ASSUME TypeOK, NEW l \in Loops, ExecutorNeedsApproval(l)
  PROVE  /\ pc[l] = "executing" /\ pc'[l] = "refresh"
         /\ phase'[l] = "executor" /\ cyc'[l].approval
         /\ run'.resp = run.resp /\ run'.status = run.status
         /\ run'.seq = run.seq /\ run'.exec = run.exec
         /\ run'.turn.id = mem[l].turn.id
         /\ UNCHANGED <<pending, checkpoints, mem, hand>> /\ WorldSame
<1> DEFINE turn == Reported(l, "approval_required", "required")
<1>1. turn \in TurnType /\ turn.id = mem[l].turn.id
  BY ReportedTurn
<1>3. run' = [Cleared(run) EXCEPT !.turn = turn]
  BY DEF ExecutorNeedsApproval
<1> HIDE DEF turn
<1>4. /\ run'.turn = turn /\ run'.resp = run.resp /\ run'.status = run.status
      /\ run'.seq = run.seq /\ run'.exec = run.exec
  BY <1>1, <1>3, TurnWritten
<1> DEFINE d == [cyc[l] EXCEPT !.approval = TRUE]
<1>5. cyc' = [cyc EXCEPT ![l] = d] /\ cyc[l] \in CycleType
  BY DEF ExecutorNeedsApproval, TypeOK
<1>6. d.approval
  BY <1>5, CycleWritten
<1> HIDE DEF d
<1>7. cyc'[l] = d
  BY <1>5, LoopWritten
<1> QED
  BY <1>1, <1>4, <1>6, <1>7, LoopWritten
     DEF ExecutorNeedsApproval, Goto, WorldSame, world, limits

\* The executor failed, or could not be launched.
LEMMA FailedTurnEffect ==
  ASSUME TypeOK, NEW l \in Loops, ExecutorFails(l) \/ ExecutorUnavailable(l)
  PROVE  /\ pc[l] \in {"dispatch", "executing"} /\ pc'[l] = "issue"
         /\ run'.resp = run.resp /\ run'.status = run.status
         /\ run'.seq = run.seq /\ run'.exec = run.exec
         /\ run'.turn.status \in {"failed", "none"}
         /\ \/ faults' = faults /\ pc[l] = "executing" /\ run'.turn.id = mem[l].turn.id
            \/ faults' # 0
         /\ UNCHANGED <<pending, checkpoints, mem, phase, hand>>
         /\ UNCHANGED <<control, dispatched, answers, commands, crashes>>
<1>1. CASE ExecutorFails(l)
  <2> DEFINE turn == Reported(l, "failed", "none")
  <2>1. turn \in TurnType /\ turn.id = mem[l].turn.id /\ turn.status = "failed"
    BY ReportedTurn
  <2>3. run' = [Cleared(run) EXCEPT !.turn = turn]
    BY <1>1 DEF ExecutorFails
  <2> HIDE DEF turn
  <2>4. /\ run'.turn = turn /\ run'.resp = run.resp /\ run'.status = run.status
        /\ run'.seq = run.seq /\ run'.exec = run.exec
    BY <2>1, <2>3, TurnWritten
  <2> QED
    BY <1>1, <2>1, <2>4, LoopWritten DEF ExecutorFails, Fails, Goto, world, limits
<1>2. CASE ExecutorUnavailable(l)
  <2>1. NoTurn \in TurnType /\ NoTurn.status = "none"
    BY DEF NoTurn, TurnType
  <2>2. run' = [Cleared(run) EXCEPT !.turn = NoTurn]
    BY <1>2 DEF ExecutorUnavailable
  <2>3. /\ run'.turn = NoTurn /\ run'.resp = run.resp /\ run'.status = run.status
        /\ run'.seq = run.seq /\ run'.exec = run.exec
    BY <2>1, <2>2, TurnWritten
  <2>4. faults' # 0
    BY <1>2 DEF ExecutorUnavailable, TypeOK
  <2> QED
    BY <1>2, <2>1, <2>3, <2>4, LoopWritten DEF ExecutorUnavailable, Fails, Goto, world
<1> QED
  BY <1>1, <1>2

LEMMA IssueEffect ==
  ASSUME TypeOK, NEW l \in Loops, PersistRuntimeIssue(l)
  PROVE  /\ pc[l] = "issue" /\ pc'[l] = "end" /\ cyc'[l].failed
         /\ mem'[l] = run' /\ RowKept(run, run')
         /\ UNCHANGED <<pending, checkpoints, phase, hand>> /\ WorldSame
<1>1. run' = WithIssue(run, cyc[l].reason) /\ run \in RunType
  BY DEF PersistRuntimeIssue, TypeOK
<1>2. RowKept(run, run')
  BY <1>1 DEF RunType, RowKept, WithIssue
<1>3. mem' = [mem EXCEPT ![l] = run'] /\ Abort(l)
  BY DEF PersistRuntimeIssue
<1>4. mem'[l] = run'
  <2> DEFINE row == run'
  <2>1. mem' = [mem EXCEPT ![l] = row]
    BY <1>3
  <2> HIDE DEF row
  <2>2. mem'[l] = row
    BY <2>1, LoopWritten
  <2> QED
    BY <2>2 DEF row
<1> QED
  BY <1>2, <1>3, <1>4, AbortEffect DEF PersistRuntimeIssue, WorldSame, world, limits

LEMMA ApprovalStopEffect ==
  ASSUME TypeOK, NEW l \in Loops, SaveApprovalStop(l)
  PROVE  /\ pc[l] = "approval" /\ pc'[l] = "end"
         /\ RowKept(run, run') /\ run'.stop = "executor_approval_required"
         /\ RowKept(mem[l], mem'[l]) /\ mem'[l].stop = "executor_approval_required"
         /\ mem[l] = run => mem'[l] = run'
         /\ UNCHANGED <<pending, checkpoints, phase, hand, cyc>> /\ WorldSame
<1>1. run \in RunType /\ mem[l] \in RunType
  BY DEF TypeOK
<1> DEFINE r == [run EXCEPT !.stop = "executor_approval_required"]
           m == [mem[l] EXCEPT !.stop = "executor_approval_required"]
<1>2. /\ RowKept(run, r) /\ r.stop = "executor_approval_required"
      /\ RowKept(mem[l], m) /\ m.stop = "executor_approval_required"
      /\ mem[l] = run => m = r
  BY <1>1 DEF RunType, RowKept
<1>3. run' = r /\ mem' = [mem EXCEPT ![l] = m]
  BY DEF SaveApprovalStop
<1> HIDE DEF r, m
<1>4. mem'[l] = m
  BY <1>3, LoopWritten
<1> QED
  BY <1>2, <1>3, <1>4, LoopWritten DEF SaveApprovalStop, Goto, WorldSame, world, limits

-----------------------------------------------------------------------------
(* The safe point, the end of a loop, and the operator.                    *)

LEMMA CycleOverEffect ==
  ASSUME TypeOK, NEW l \in Loops, ConsumeStopFlag(l) \/ CountCycle(l)
  PROVE  /\ pc[l] = "end" /\ pc'[l] = "decide"
         /\ cyc'[l].last = cyc[l].last /\ cyc'[l].failed = cyc[l].failed
         /\ phase'[l] = "first"
         /\ mem' = mem /\ StoreSame /\ WorldSame
<1>1. cyc[l] \in CycleType /\ FreshCycle \in CycleType
  BY ConstantTypes DEF TypeOK
<1>2. /\ pc[l] = "end" /\ pc'[l] = "decide" /\ phase'[l] = "first"
      /\ mem' = mem /\ StoreSame /\ WorldSame
  BY LoopWritten
     DEF ConsumeStopFlag, CountCycle, CycleOver, Goto, StoreSame, WorldSame, world, limits
<1>3. CASE ConsumeStopFlag(l)
  <2> DEFINE d == [FreshCycle EXCEPT !.last = cyc[l].last, !.failed = cyc[l].failed,
                                     !.stop = stopFlag]
  <2>1. cyc' = [cyc EXCEPT ![l] = d]
    BY <1>3 DEF ConsumeStopFlag
  <2>2. d.last = cyc[l].last /\ d.failed = cyc[l].failed
    BY <1>1 DEF CycleType
  <2> HIDE DEF d
  <2>3. cyc'[l] = d
    BY <2>1, LoopWritten
  <2> QED
    BY <1>2, <2>2, <2>3
<1>4. CASE CountCycle(l)
  <2>1. PICK over \in BOOLEAN : cyc' = [cyc EXCEPT ![l] = Counted(l, over)]
    BY <1>4 DEF CountCycle
  <2>2. Counted(l, over).last = cyc[l].last /\ Counted(l, over).failed = cyc[l].failed
    <3> DEFINE n == IF over THEN cyc[l].left ELSE cyc[l].left - 1
               stop == over /\ (cyc[l].grace \/ ~ReadyExecuteHandoff(l))
               d == [FreshCycle EXCEPT
                       !.mode = cyc[l].mode, !.left = n, !.grace = over,
                       !.first = cyc[l].first, !.drift = cyc[l].drift,
                       !.last = cyc[l].last, !.failed = cyc[l].failed,
                       !.reason = cyc[l].reason, !.stop = stop]
    <3>1. Counted(l, over) = d
      BY Zenon DEF Counted
    <3> HIDE DEF n, stop
    <3>2. d.last = cyc[l].last /\ d.failed = cyc[l].failed
      BY <1>1 DEF CycleType
    <3> HIDE DEF d
    <3> QED
      BY <3>1, <3>2
  <2>3. cyc'[l] = Counted(l, over)
    BY <2>1, LoopWritten
  <2> QED
    BY <1>2, <2>2, <2>3
<1> QED
  BY <1>3, <1>4

LEMMA StopLoopEffect ==
  ASSUME TypeOK, NEW l \in Loops, StopLoop(l)
  PROVE  /\ pc[l] = "decide" /\ pc'[l] = "off" /\ phase'[l] = "first"
         /\ RowKept(run, run')
         /\ \/ mem[l].stop = StopReason(mem[l], cyc[l]) /\ run' = run
            \/ run'.stop = StopReason(mem[l], cyc[l])
         /\ UNCHANGED <<checkpoints, pending>> /\ WorldSame
<1> DEFINE reason == StopReason(mem[l], cyc[l])
           r == [run EXCEPT !.stop = reason]
<1>1. run \in RunType
  BY DEF TypeOK
<1>2. run' = IF mem[l].stop = reason THEN run ELSE r
  BY DEF StopLoop
<1>3. /\ pc[l] = "decide" /\ pc'[l] = "off" /\ phase'[l] = "first"
      /\ UNCHANGED <<checkpoints, pending>> /\ WorldSame
  BY LoopWritten DEF StopLoop, Leave, Goto, WorldSame, world, limits
<1> HIDE DEF reason
<1>4. RowKept(run, r) /\ r.stop = reason /\ RowKept(run, run)
  BY <1>1 DEF RunType, RowKept
<1> HIDE DEF r
<1>5. RowKept(run, run') /\ ((mem[l].stop = reason /\ run' = run) \/ run'.stop = reason)
  BY <1>2, <1>4
<1> QED
  BY <1>3, <1>5 DEF reason

LEMMA NextCycleEffect ==
  ASSUME TypeOK, NEW l \in Loops, NextCycle(l)
  PROVE  /\ pc[l] = "decide" /\ pc'[l] = "begin" /\ ~Stops(l)
         /\ UNCHANGED <<mem, phase, hand>> /\ StoreSame /\ WorldSame
BY LoopWritten DEF NextCycle, Goto, StoreSame, WorldSame, durable, world, limits

\* A loop that is killed, or whose own call failed.
LEMMA LeaveEffect ==
  ASSUME TypeOK, NEW l \in Loops, Crash(l) \/ SafePointFault(l)
  PROVE  /\ pc'[l] = "off" /\ phase'[l] = "first"
         /\ StoreSame /\ UNCHANGED <<control, dispatched, answers, commands>>
         /\ ~(crashes' = 0 /\ faults' = 0)
BY LoopWritten
   DEF Crash, SafePointFault, Leave, Goto, StoreSame, durable, world, TypeOK

\* A command of the operator's is two steps: the run is read, and it is written.
LEMMA OperatorEffect ==
  ASSUME TypeOK, Operator
  PROVE  /\ UNCHANGED <<pc, mem, phase, hand, cyc, checkpoints, pending,
                        dispatched, crashes, faults>>
         /\ \/ UNCHANGED <<run, control, answers, commands>>
            \/ /\ run' = run /\ answers' # 0 /\ commands' = commands
               /\ control'.kind = "executor" /\ run.turn.id # 0
               /\ control'.turn.id = run.turn.id /\ control'.turn.status = "in_progress"
            \/ run' = run /\ commands' # 0 /\ control'.turn = run.turn
            \/ /\ control.kind = "executor" /\ control'.kind = "none"
               /\ UNCHANGED <<answers, commands>>
               /\ run'.turn = control.turn /\ run'.resp = run.resp /\ run'.status = run.status
            \/ /\ control.kind = "workers" /\ control'.kind = "none"
               /\ UNCHANGED <<answers, commands>> /\ RowKept(run, run')
<1>1. CASE SideChatAction
  BY <1>1 DEF SideChatAction, InjectControlMessage, SetStopFlag, ClearStopFlag,
              durable, world, limits, local
<1>2. CASE AnswerApproval
  <2>1. PICK answer \in {"granted", "denied"} :
          control' = [kind |-> "executor",
                      turn |-> [run.turn EXCEPT !.status = "in_progress",
                                                !.approval = answer]]
    BY <1>2 DEF AnswerApproval
  <2> DEFINE turn == [run.turn EXCEPT !.status = "in_progress", !.approval = answer]
  <2>2. run.turn \in TurnType
    BY DEF TypeOK, RunType
  <2>3. turn.id = run.turn.id /\ turn.status = "in_progress"
    BY <2>2 DEF TurnType
  <2> HIDE DEF turn
  <2>4. control'.turn = turn /\ control'.kind = "executor"
    BY <2>1 DEF turn
  <2>5. answers' # 0
    BY <1>2 DEF AnswerApproval, TypeOK
  <2> QED
    BY <1>2, <2>3, <2>4, <2>5
       DEF AnswerApproval, ActiveExecutorRun, durable, local
<1>3. CASE SaveExecutorControl
  <2>1. run' = [Cleared(run) EXCEPT !.turn = control.turn] /\ control.turn \in TurnType
    BY <1>3 DEF SaveExecutorControl, TypeOK, ControlType
  <2>2. run'.turn = control.turn /\ run'.resp = run.resp /\ run'.status = run.status
    BY <2>1, TurnWritten
  <2>3. control'.kind = "none"
    BY <1>3 DEF SaveExecutorControl, NoControl
  <2> QED
    BY <1>3, <2>2, <2>3 DEF SaveExecutorControl, limits, local
<1>4. CASE ControlExecutor \/ AnswerWorker
  <2>1. PICK kind \in {"executor", "workers"} : BeginCommand(kind)
    BY <1>4 DEF ControlExecutor, AnswerWorker
  <2>2. commands' # 0
    BY <2>1 DEF BeginCommand, TypeOK
  <2> QED
    BY <2>1, <2>2 DEF BeginCommand, durable, local
<1>5. CASE RefreshWorkerRunStopReason
  <2>1. RowKept(run, run')
    BY <1>5, StopWritten DEF RefreshWorkerRunStopReason
  <2>2. control'.kind = "none"
    BY <1>5 DEF RefreshWorkerRunStopReason, NoControl
  <2> QED
    BY <1>5, <2>1, <2>2 DEF RefreshWorkerRunStopReason, limits, local
<1> QED
  BY <1>1, <1>2, <1>3, <1>4, <1>5 DEF Operator

\* A loop whose copy waits for an approval, or is completed, or whose cycle
\* failed, stops; and it stops for a reason if its cycle heard of anything.
LEMMA StopsFor ==
  ASSUME TypeOK, NEW l \in Loops
  PROVE  /\ cyc[l].failed \/ mem[l].status = "completed" => Stops(l)
         /\ mem[l].stop = "executor_approval_required" =>
              Stops(l) /\ StopReason(mem[l], cyc[l]) = mem[l].stop
         /\ Stops(l) /\ (cyc[l].failed \/ cyc[l].last # "none" \/ mem[l].stop # "")
              => StopReason(mem[l], cyc[l]) # ""
<1> DEFINE r == mem[l]
           c == cyc[l]
<1>1. r \in RunType /\ c \in CycleType
  BY DEF TypeOK
<1>2. c.failed \/ r.status = "completed" => LoopStopReason(r, c) # ""
  BY DEF LoopStopReason
<1>3. r.stop = "executor_approval_required" =>
        LoopStopReason(r, c) = r.stop /\ CycleStopReason(r, c) = r.stop
  <2>1. r.stop = "executor_approval_required" => LoopStopReason(r, c) = r.stop
    BY DEF LoopStopReason
  <2>2. r.stop # "" => CycleStopReason(r, c) = r.stop
    BY DEF CycleStopReason
  <2> QED
    BY <2>1, <2>2
<1>4. c.failed \/ c.last # "none" \/ r.stop # "" => CycleStopReason(r, c) # ""
  <2>1. \A o \in Outcomes : OutcomeReason[o] # ""
    <3>1. /\ OutcomeReason.complete # "" /\ OutcomeReason.ask_human # ""
          /\ OutcomeReason.pause # "" /\ OutcomeReason.collect_context # ""
          /\ OutcomeReason.execute # ""
      BY DEF OutcomeReason
    <3> QED
      BY <3>1 DEF Outcomes
  <2>2. ErrorReason(c) # ""
    BY DEF ErrorReason
  <2>3. /\ c.drift \in Outcomes \union {"none"} /\ c.last \in Outcomes \union {"none"}
    BY <1>1 DEF CycleType
  <2>4. c.last # "none" => OutcomeReason[IF c.drift # "none" THEN c.drift ELSE c.last] # ""
    <3>1. c.last # "none" => (IF c.drift # "none" THEN c.drift ELSE c.last) \in Outcomes
      BY <2>3
    <3> QED
      BY <2>1, <3>1
  <2> QED
    BY <2>2, <2>4 DEF CycleStopReason
<1> QED
  BY <1>2, <1>3, <1>4 DEF Stops, StopReason

-----------------------------------------------------------------------------
(* The copy of a loop that is alone.                                       *)

\* Where the copy is the row, unless the operator's commands came in between.
FollowsRun == {"begin", "rejoin", "rejoined", "settle", "plan", "save", "consume",
               "pending", "drift", "intervene", "act", "ask", "collect", "workers",
               "dispatch", "continue", "approval"}

CopyInv(l) ==
  /\ control.kind # "none" => ~Uncontrolled
  /\ Uncontrolled =>
       /\ pc[l] \in FollowsRun => mem[l] = run
       /\ pc[l] = "executing" => mem[l].seq = run.seq /\ mem[l].exec = run.exec
       /\ pc[l] \in {"end", "decide"} /\ (cyc[l].failed => faults = 0) => mem[l] = run

\* The number after the latest checkpoint is free.
LEMMA NextIsFree ==
  ASSUME TypeOK, HistoryInv
  PROVE  SequenceFree(run.seq + 1)
<1>1. /\ run.seq \in Nat
      /\ \A c \in checkpoints : c.seq \in Nat
  BY DEF TypeOK, RunType, RowType
<1>2. \A c \in checkpoints : c.seq <= run.seq
  BY DEF HistoryInv, CheckpointsLinear
<1> QED
  BY <1>1, <1>2 DEF SequenceFree

LEMMA LoopKeepsCopy ==
  ASSUME TypeOK, HistoryInv, NEW l \in Loops, CopyInv(l), LoopStep(l)
  PROVE  CopyInv(l)'
<1> USE DEF StoreSame, WorldSame, CopyInv, FollowsRun, Uncontrolled
<1>1. CASE Resume(l)
  BY <1>1, TakeEffect
<1>2. CASE BeginCycle(l)
  BY <1>2, BeginEffect
<1>21. CASE ContinueWorkerPlan(l) \/ WorkerTurnsReturn(l)
  BY <1>21, RejoinEffect
<1>22. CASE WorkersNeedApproval(l) \/ WorkersSettled(l)
  BY <1>22, SettleEffect
<1>3. CASE Plan(l) \/ PersistPendingAction(l) \/ ConsumeControlMessage(l)
  BY <1>3, PlanEffect, PendingEffect, ConsumeEffect, AfterTurnPlace
<1>4. CASE PlanFails(l) \/ AskFails(l)
  BY <1>4, FailsEffect
<1>5. CASE SavePlannerTurn(l)
  BY <1>5, SaveEffect
<1>6. CASE SaveConflict(l) \/ ExecutorConflict(l)
  BY <1>6, ConflictEffect, NextIsFree
<1>7. CASE ReloadAfterTurn(l) \/ RefreshAfterAction(l)
  BY <1>7, ReloadEffect, RefreshEffect
<1>8. CASE DriftReviewed(l) \/ NoDriftReview(l)
  BY <1>8, DriftEffect
<1>9. CASE Intervene(l) \/ BeginAction(l) \/ NothingToDo(l) \/ AskWorkers(l)
  BY <1>9, InterveneEffect, BeginActionEffect, NothingEffect, AskWorkersEffect
<1>10. CASE RecordHumanReply(l) \/ CollectContext(l) \/ WorkersReport(l)
  BY <1>10, ResultEffect
<1>11. CASE Dispatch(l)
  BY <1>11, DispatchEffect
<1>12. CASE ContinueExecutorTurn(l)
  BY <1>12, ContinueEffect
<1>13. CASE ExecutorCompletes(l) \/ ExecutorNeedsApproval(l)
  BY <1>13, CompletesEffect, NeedsApprovalEffect
<1>14. CASE ExecutorFails(l) \/ ExecutorUnavailable(l)
  BY <1>14, FailedTurnEffect
<1>15. CASE PersistRuntimeIssue(l) \/ SaveApprovalStop(l)
  BY <1>15, IssueEffect, ApprovalStopEffect
<1>16. CASE ConsumeStopFlag(l) \/ CountCycle(l)
  BY <1>16, CycleOverEffect
<1>17. CASE StopLoop(l)
  BY <1>17, StopLoopEffect
<1>18. CASE NextCycle(l)
  BY <1>18, NextCycleEffect, StopsFor
<1>19. CASE StoreFault(l)
  BY <1>19, FaultEffect
<1>20. CASE Crash(l) \/ SafePointFault(l)
  BY <1>20, LeaveEffect
<1> QED
  BY <1>1, <1>2, <1>3, <1>4, <1>5, <1>6, <1>7, <1>8, <1>9, <1>10, <1>11, <1>12, <1>13,
     <1>14, <1>15, <1>16, <1>17, <1>18, <1>19, <1>20, <1>21, <1>22, Zenon
  DEF LoopStep, Step, BeforePlan, PlannerTurn, BeforeAction, Action, SafePoint, Human,
      Executor, Workers

LEMMA CopyInvariant ==
  ASSUME NEW l, Loops = {l}
  PROVE  Spec => []CopyInv(l)
<1>1. Init => CopyInv(l)
  BY DEF Init, CopyInv, FollowsRun, NoControl
<1>2. TypeOK /\ HistoryInv /\ CopyInv(l) /\ [Next]_vars => CopyInv(l)'
  <2> SUFFICES ASSUME TypeOK, HistoryInv, CopyInv(l), [Next]_vars PROVE CopyInv(l)'
    OBVIOUS
  <2>1. CASE LoopStep(l)
    BY <2>1, LoopKeepsCopy
  <2>2. CASE Operator
    BY <2>2, OperatorEffect DEF CopyInv, FollowsRun, Uncontrolled, RowKept
  <2>3. CASE UNCHANGED vars
    BY <2>3 DEF CopyInv, Uncontrolled, vars, durable, world, limits, local
  <2> QED
    BY <2>1, <2>2, <2>3 DEF Next, LoopStep
<1> QED
  BY <1>1, <1>2, TypeCorrect, HistoryInvariant, PTL DEF Spec

-----------------------------------------------------------------------------
(* The executor's turn.                                                    *)

\* A turn that is waited for has an id, and so has one that awaits an approval;
\* what an answer will write lets the turn go on.
TurnInv(l) ==
  /\ control.kind = "executor" /\ commands = 0 => control.turn.status = "in_progress"
  /\ control.kind = "workers" => commands # 0
  /\ control.kind # "none" /\ control.turn.status = "approval_required"
       => control.turn.id # 0
  /\ run.turn.status = "approval_required" => run.turn.id # 0
  /\ pc[l] \in {"continue", "executing"} => mem[l].turn.id # 0
  /\ pc[l] = "refresh" => phase[l] # "first"

\* No turn was started in a new row.
LEMMA FirstRow ==
  /\ NewRun.turn.id = 0 /\ NewRun.turn.status = "none"
  /\ NewRun.exec = 0 /\ NewRun.status = "initialized"
<1>1. NewRun.turn = NoTurn /\ NewRun.exec = 0 /\ NewRun.status = "initialized"
  BY DEF NewRun
<1> QED
  BY <1>1 DEF NoTurn

LEMMA LoopKeepsTurn ==
  ASSUME TypeOK, NEW l \in Loops, TurnInv(l), LoopStep(l)
  PROVE  TurnInv(l)'
<1> USE DEF StoreSame, WorldSame, RowKept, CycleKept, TurnInv
<1>1. CASE Resume(l)
  BY <1>1, TakeEffect
<1>2. CASE BeginCycle(l)
  BY <1>2, BeginEffect DEF ActiveTurn
<1>21. CASE ContinueWorkerPlan(l) \/ WorkerTurnsReturn(l)
  BY <1>21, RejoinEffect
<1>22. CASE WorkersNeedApproval(l) \/ WorkersSettled(l)
  BY <1>22, SettleEffect
<1>3. CASE Plan(l) \/ PlanFails(l) \/ AskFails(l)
  BY <1>3, PlanEffect, FailsEffect
<1>4. CASE SavePlannerTurn(l)
  BY <1>4, SaveEffect
<1>5. CASE SaveConflict(l) \/ ExecutorConflict(l) \/ StoreFault(l)
  BY <1>5, ConflictEffect, FaultEffect
<1>6. CASE ReloadAfterTurn(l) \/ RefreshAfterAction(l)
  BY <1>6, ReloadEffect, RefreshEffect
<1>7. CASE PersistPendingAction(l) \/ ConsumeControlMessage(l)
  BY <1>7, PendingEffect, ConsumeEffect, AfterTurnPlace
<1>8. CASE DriftReviewed(l) \/ NoDriftReview(l) \/ Intervene(l)
  BY <1>8, DriftEffect, InterveneEffect
<1>9. CASE BeginAction(l) \/ NothingToDo(l) \/ AskWorkers(l)
  BY <1>9, BeginActionEffect, NothingEffect, AskWorkersEffect
<1>10. CASE RecordHumanReply(l) \/ CollectContext(l) \/ WorkersReport(l)
  BY <1>10, ResultEffect
<1>11. CASE Dispatch(l) \/ ContinueExecutorTurn(l)
  BY <1>11, DispatchEffect, ContinueEffect
<1>12. CASE ExecutorCompletes(l) \/ ExecutorNeedsApproval(l)
  BY <1>12, CompletesEffect, NeedsApprovalEffect
<1>13. CASE ExecutorFails(l) \/ ExecutorUnavailable(l)
  BY <1>13, FailedTurnEffect
<1>14. CASE PersistRuntimeIssue(l) \/ SaveApprovalStop(l)
  BY <1>14, IssueEffect, ApprovalStopEffect
<1>15. CASE ConsumeStopFlag(l) \/ CountCycle(l) \/ NextCycle(l)
  BY <1>15, CycleOverEffect, NextCycleEffect, StopsFor
<1>16. CASE StopLoop(l) \/ Crash(l) \/ SafePointFault(l)
  BY <1>16, StopLoopEffect, LeaveEffect
<1> QED
  BY <1>1, <1>2, <1>3, <1>4, <1>5, <1>6, <1>7, <1>8, <1>9, <1>10, <1>11, <1>12, <1>13,
     <1>14, <1>15, <1>16, <1>21, <1>22, Zenon
  DEF LoopStep, Step, BeforePlan, PlannerTurn, BeforeAction, Action, SafePoint, Human,
      Executor, Workers

LEMMA TurnInvariant ==
  ASSUME NEW l, Loops = {l}
  PROVE  Spec => []TurnInv(l)
<1>1. Init => TurnInv(l)
  BY FirstRow DEF Init, TurnInv, NoControl
<1>2. TypeOK /\ TurnInv(l) /\ [Next]_vars => TurnInv(l)'
  <2> SUFFICES ASSUME TypeOK, TurnInv(l), [Next]_vars PROVE TurnInv(l)'
    OBVIOUS
  <2>1. CASE LoopStep(l)
    BY <2>1, LoopKeepsTurn
  <2>2. CASE Operator
    BY <2>2, OperatorEffect DEF TurnInv, RowKept
  <2>3. CASE UNCHANGED vars
    BY <2>3 DEF TurnInv, vars, durable, world, limits, local
  <2> QED
    BY <2>1, <2>2, <2>3 DEF Next, LoopStep
<1> QED
  BY <1>1, <1>2, TypeCorrect, PTL DEF Spec

\* Every executor checkpoint is of a turn that was started, and the turn that is
\* waited for has none yet.
WorkInv(l) ==
  Uncontrolled =>
    /\ run.exec <= Len(dispatched)
    /\ ActiveTurn(run) \/ pc[l] = "executing" => run.exec < Len(dispatched)
    /\ pc[l] = "continue" => ActiveTurn(run)
    /\ pc[l] \in {"rejoin", "rejoined", "settle"} => ~ActiveTurn(run)
    /\ pc[l] \in {"plan", "save"} /\ phase[l] = "first" => ~ActiveTurn(run)

LEMMA LoopKeepsWork ==
  ASSUME TypeOK, NEW l \in Loops, CopyInv(l), TurnInv(l), WorkInv(l), LoopStep(l)
  PROVE  WorkInv(l)'
<1> USE DEF StoreSame, WorldSame, RowKept, CycleKept, WorkInv, CopyInv, FollowsRun,
           TurnInv, ActiveTurn, Uncontrolled
<1>1. CASE Resume(l)
  BY <1>1, TakeEffect
<1>2. CASE BeginCycle(l)
  BY <1>2, BeginEffect
<1>21. CASE ContinueWorkerPlan(l) \/ WorkerTurnsReturn(l)
  BY <1>21, RejoinEffect
<1>22. CASE WorkersNeedApproval(l) \/ WorkersSettled(l)
  BY <1>22, SettleEffect
<1>3. CASE Plan(l) \/ PlanFails(l) \/ AskFails(l)
  BY <1>3, PlanEffect, FailsEffect
<1>4. CASE SavePlannerTurn(l)
  BY <1>4, SaveEffect
<1>5. CASE SaveConflict(l) \/ ExecutorConflict(l) \/ StoreFault(l)
  BY <1>5, ConflictEffect, FaultEffect
<1>6. CASE ReloadAfterTurn(l) \/ RefreshAfterAction(l)
  BY <1>6, ReloadEffect, RefreshEffect
<1>7. CASE PersistPendingAction(l) \/ ConsumeControlMessage(l)
  BY <1>7, PendingEffect, ConsumeEffect, AfterTurnPlace
<1>8. CASE DriftReviewed(l) \/ NoDriftReview(l) \/ Intervene(l)
  BY <1>8, DriftEffect, InterveneEffect
<1>9. CASE BeginAction(l) \/ NothingToDo(l) \/ AskWorkers(l)
  BY <1>9, BeginActionEffect, NothingEffect, AskWorkersEffect
<1>10. CASE RecordHumanReply(l) \/ CollectContext(l) \/ WorkersReport(l)
  BY <1>10, ResultEffect
<1>11. CASE Dispatch(l) \/ ContinueExecutorTurn(l)
  <2>1. CASE Dispatch(l)
    <3>1. \A n \in Nat, k \in Nat : k <= n => k < n + 1 /\ k <= n + 1
      OBVIOUS
    <3>2. Len(dispatched) \in Nat /\ run.exec \in Nat
      BY DEF TypeOK, RunType
    <3> QED
      BY <2>1, <3>1, <3>2, DispatchEffect
  <2> QED
    BY <1>11, <2>1, ContinueEffect
<1>12. CASE ExecutorCompletes(l) \/ ExecutorNeedsApproval(l)
  <2>1. CASE ExecutorCompletes(l)
    <3>1. Len(dispatched) \in Nat /\ run.exec \in Nat
      BY DEF TypeOK, RunType
    <3>2. Uncontrolled => run'.exec = run.exec + 1 /\ run.exec < Len(dispatched)
      BY <2>1, CompletesEffect
    <3>3. Uncontrolled => run'.exec <= Len(dispatched)
      BY <3>1, <3>2
    <3> QED
      BY <2>1, <3>3, CompletesEffect
  <2> QED
    BY <1>12, <2>1, NeedsApprovalEffect
<1>13. CASE ExecutorFails(l) \/ ExecutorUnavailable(l)
  BY <1>13, FailedTurnEffect
<1>14. CASE PersistRuntimeIssue(l) \/ SaveApprovalStop(l)
  BY <1>14, IssueEffect, ApprovalStopEffect
<1>15. CASE ConsumeStopFlag(l) \/ CountCycle(l) \/ NextCycle(l)
  BY <1>15, CycleOverEffect, NextCycleEffect, StopsFor
<1>16. CASE StopLoop(l) \/ Crash(l) \/ SafePointFault(l)
  BY <1>16, StopLoopEffect, LeaveEffect
<1> QED
  BY <1>1, <1>2, <1>3, <1>4, <1>5, <1>6, <1>7, <1>8, <1>9, <1>10, <1>11, <1>12, <1>13,
     <1>14, <1>15, <1>16, <1>21, <1>22, Zenon
  DEF LoopStep, Step, BeforePlan, PlannerTurn, BeforeAction, Action, SafePoint, Human,
      Executor, Workers

LEMMA WorkInvariant ==
  ASSUME NEW l, Loops = {l}
  PROVE  Spec => []WorkInv(l)
<1>1. Init => WorkInv(l)
  <2>1. Len(<<>>) = 0
    OBVIOUS
  <2> QED
    BY <2>1, FirstRow DEF Init, WorkInv, ActiveTurn
<1>2. TypeOK /\ CopyInv(l) /\ TurnInv(l) /\ WorkInv(l) /\ [Next]_vars => WorkInv(l)'
  <2> SUFFICES ASSUME TypeOK, CopyInv(l), TurnInv(l), WorkInv(l), [Next]_vars PROVE WorkInv(l)'
    OBVIOUS
  <2>1. CASE LoopStep(l)
    BY <2>1, LoopKeepsWork
  <2>2. CASE Operator
    BY <2>2, OperatorEffect DEF WorkInv, CopyInv, ActiveTurn, Uncontrolled, RowKept
  <2>3. CASE UNCHANGED vars
    BY <2>3 DEF WorkInv, CopyInv, ActiveTurn, Uncontrolled, vars, durable, world, limits, local
  <2> QED
    BY <2>1, <2>2, <2>3 DEF Next, LoopStep
<1> QED
  BY <1>1, <1>2, TypeCorrect, CopyInvariant, TurnInvariant, PTL DEF Spec

\* Turns are numbered as they are started; the number of the latest is in the
\* row, or in the copy of the loop that waits for it.
NumberInv(l) ==
  Undisturbed /\ Uncontrolled =>
    Len(dispatched) = IF pc[l] = "executing" THEN mem[l].turn.id ELSE run.turn.id

LEMMA LoopKeepsNumber ==
  ASSUME TypeOK, NEW l \in Loops, HistoryInv, CopyInv(l), NumberInv(l), LoopStep(l)
  PROVE  NumberInv(l)'
<1> USE DEF StoreSame, WorldSame, RowKept, CycleKept, NumberInv, CopyInv, FollowsRun,
           Undisturbed, Uncontrolled
<1>1. CASE Resume(l)
  BY <1>1, TakeEffect
<1>2. CASE BeginCycle(l)
  BY <1>2, BeginEffect
<1>21. CASE ContinueWorkerPlan(l) \/ WorkerTurnsReturn(l)
  BY <1>21, RejoinEffect
<1>22. CASE WorkersNeedApproval(l) \/ WorkersSettled(l)
  BY <1>22, SettleEffect
<1>3. CASE Plan(l) \/ PlanFails(l) \/ AskFails(l)
  BY <1>3, PlanEffect, FailsEffect
<1>4. CASE SavePlannerTurn(l)
  BY <1>4, SaveEffect
<1>5. CASE SaveConflict(l) \/ ExecutorConflict(l) \/ StoreFault(l)
  BY <1>5, ConflictEffect, FaultEffect, NextIsFree
<1>6. CASE ReloadAfterTurn(l) \/ RefreshAfterAction(l)
  BY <1>6, ReloadEffect, RefreshEffect
<1>7. CASE PersistPendingAction(l) \/ ConsumeControlMessage(l)
  BY <1>7, PendingEffect, ConsumeEffect, AfterTurnPlace
<1>8. CASE DriftReviewed(l) \/ NoDriftReview(l) \/ Intervene(l)
  BY <1>8, DriftEffect, InterveneEffect
<1>9. CASE BeginAction(l) \/ NothingToDo(l) \/ AskWorkers(l)
  BY <1>9, BeginActionEffect, NothingEffect, AskWorkersEffect
<1>10. CASE RecordHumanReply(l) \/ CollectContext(l) \/ WorkersReport(l)
  BY <1>10, ResultEffect
<1>11. CASE Dispatch(l) \/ ContinueExecutorTurn(l)
  BY <1>11, DispatchEffect, ContinueEffect
<1>12. CASE ExecutorCompletes(l) \/ ExecutorNeedsApproval(l)
  BY <1>12, CompletesEffect, NeedsApprovalEffect
<1>13. CASE ExecutorFails(l) \/ ExecutorUnavailable(l)
  BY <1>13, FailedTurnEffect
<1>14. CASE PersistRuntimeIssue(l) \/ SaveApprovalStop(l)
  BY <1>14, IssueEffect, ApprovalStopEffect
<1>15. CASE ConsumeStopFlag(l) \/ CountCycle(l) \/ NextCycle(l)
  BY <1>15, CycleOverEffect, NextCycleEffect, StopsFor
<1>16. CASE StopLoop(l) \/ Crash(l) \/ SafePointFault(l)
  BY <1>16, StopLoopEffect, LeaveEffect
<1> QED
  BY <1>1, <1>2, <1>3, <1>4, <1>5, <1>6, <1>7, <1>8, <1>9, <1>10, <1>11, <1>12, <1>13,
     <1>14, <1>15, <1>16, <1>21, <1>22, Zenon
  DEF LoopStep, Step, BeforePlan, PlannerTurn, BeforeAction, Action, SafePoint, Human,
      Executor, Workers

LEMMA NumberInvariant ==
  ASSUME NEW l, Loops = {l}
  PROVE  Spec => []NumberInv(l)
<1>1. Init => NumberInv(l)
  <2>1. Len(<<>>) = 0
    OBVIOUS
  <2> QED
    BY <2>1, FirstRow DEF Init, NumberInv
<1>2. TypeOK /\ HistoryInv /\ CopyInv(l) /\ NumberInv(l) /\ [Next]_vars => NumberInv(l)'
  <2> SUFFICES ASSUME TypeOK, HistoryInv, CopyInv(l), NumberInv(l), [Next]_vars PROVE NumberInv(l)'
    OBVIOUS
  <2>1. CASE LoopStep(l)
    BY <2>1, LoopKeepsNumber
  <2>2. CASE Operator
    BY <2>2, OperatorEffect DEF NumberInv, CopyInv, Undisturbed, Uncontrolled, RowKept
  <2>3. CASE UNCHANGED vars
    BY <2>3 DEF NumberInv, CopyInv, Undisturbed, Uncontrolled, vars, durable, world, limits, local
  <2> QED
    BY <2>1, <2>2, <2>3 DEF Next, LoopStep
<1> QED
  BY <1>1, <1>2, TypeCorrect, HistoryInvariant, CopyInvariant, PTL DEF Spec

-----------------------------------------------------------------------------
(* The pending action.                                                     *)

\* What is pending is held while the planner reconsiders it, is gone while it
\* is carried out, and is of the latest planner turn once that is recorded.
PendingInv(l) ==
  /\ pc[l] \in Outside => phase[l] = "first"
  /\ pc[l] \in {"plan", "save"} /\ phase[l] = "intervention"
       => pending = NoPending \/ pending.held
  /\ pc[l] \in {"ask", "collect", "workers", "dispatch", "executing", "refresh",
                "rejoined", "settle"}
       => pending = NoPending
  /\ Undisturbed =>
       /\ pc[l] \in {"reload", "consume", "pending", "drift", "intervene", "act"}
            => hand[l].resp = run.resp
       /\ \/ pc[l] \in {"reload", "pending"} \/ (pc[l] = "consume" /\ phase[l] = "first")
          \/ pending = NoPending \/ pending.resp = run.resp

\* What BuildPendingAction makes is of the turn in hand, and held if it should be.
LEMMA PendingOf ==
  ASSUME NEW turn, NEW held \in BOOLEAN
  PROVE  LET action == BuildPendingAction(turn, held) IN
           action = NoPending \/ (action.resp = turn.resp /\ action.held = held)
BY DEF BuildPendingAction

LEMMA LoopKeepsPending ==
  ASSUME TypeOK, NEW l \in Loops, PendingInv(l), LoopStep(l)
  PROVE  PendingInv(l)'
<1> USE DEF StoreSame, WorldSame, RowKept, CycleKept, PendingInv, Undisturbed, Outside
<1>1. CASE Resume(l)
  BY <1>1, TakeEffect
<1>2. CASE BeginCycle(l)
  BY <1>2, BeginEffect
<1>21. CASE ContinueWorkerPlan(l) \/ WorkerTurnsReturn(l)
  BY <1>21, RejoinEffect
<1>22. CASE WorkersNeedApproval(l) \/ WorkersSettled(l)
  BY <1>22, SettleEffect
<1>3. CASE Plan(l) \/ PlanFails(l) \/ AskFails(l)
  BY <1>3, PlanEffect, FailsEffect
<1>4. CASE SavePlannerTurn(l)
  BY <1>4, SaveEffect
<1>5. CASE SaveConflict(l) \/ ExecutorConflict(l) \/ StoreFault(l)
  BY <1>5, ConflictEffect, FaultEffect
<1>6. CASE ReloadAfterTurn(l) \/ RefreshAfterAction(l)
  BY <1>6, ReloadEffect, RefreshEffect
<1>7. CASE PersistPendingAction(l) \/ ConsumeControlMessage(l)
  <2>1. CASE PersistPendingAction(l)
    <3> DEFINE action == BuildPendingAction(hand[l], FALSE)
    <3>1. action = NoPending \/ action.resp = hand[l].resp
      BY PendingOf
    <3> HIDE DEF action
    <3>2. pending' = action
      BY <2>1, PendingEffect DEF action
    <3> QED
      BY <2>1, <3>1, <3>2, PendingEffect, AfterTurnPlace
  <2> QED
    BY <1>7, <2>1, ConsumeEffect, AfterTurnPlace
<1>8. CASE DriftReviewed(l) \/ NoDriftReview(l) \/ Intervene(l)
  <2>1. CASE Intervene(l)
    <3> DEFINE action == BuildPendingAction(hand[l], TRUE)
    <3>1. action = NoPending \/ (action.held /\ action.resp = hand[l].resp)
      BY PendingOf
    <3> HIDE DEF action
    <3>2. CASE pc'[l] = "plan"
      <4>1. pending' = action \/ (pending' = pending /\ (pending = NoPending \/ pending.held))
        BY <2>1, <3>2, InterveneEffect DEF action
      <4> QED
        BY <2>1, <3>1, <3>2, <4>1, InterveneEffect
    <3> QED
      BY <2>1, <3>2, InterveneEffect
  <2> QED
    BY <1>8, <2>1, DriftEffect
<1>9. CASE BeginAction(l) \/ NothingToDo(l) \/ AskWorkers(l)
  BY <1>9, BeginActionEffect, NothingEffect, AskWorkersEffect
<1>10. CASE RecordHumanReply(l) \/ CollectContext(l) \/ WorkersReport(l)
  BY <1>10, ResultEffect
<1>11. CASE Dispatch(l) \/ ContinueExecutorTurn(l)
  BY <1>11, DispatchEffect, ContinueEffect
<1>12. CASE ExecutorCompletes(l) \/ ExecutorNeedsApproval(l)
  BY <1>12, CompletesEffect, NeedsApprovalEffect
<1>13. CASE ExecutorFails(l) \/ ExecutorUnavailable(l)
  BY <1>13, FailedTurnEffect
<1>14. CASE PersistRuntimeIssue(l) \/ SaveApprovalStop(l)
  BY <1>14, IssueEffect, ApprovalStopEffect
<1>15. CASE ConsumeStopFlag(l) \/ CountCycle(l) \/ NextCycle(l)
  BY <1>15, CycleOverEffect, NextCycleEffect, StopsFor
<1>16. CASE StopLoop(l) \/ Crash(l) \/ SafePointFault(l)
  BY <1>16, StopLoopEffect, LeaveEffect
<1> QED
  BY <1>1, <1>2, <1>3, <1>4, <1>5, <1>6, <1>7, <1>8, <1>9, <1>10, <1>11, <1>12, <1>13,
     <1>14, <1>15, <1>16, <1>21, <1>22, Zenon
  DEF LoopStep, Step, BeforePlan, PlannerTurn, BeforeAction, Action, SafePoint, Human,
      Executor, Workers

LEMMA PendingInvariant ==
  ASSUME NEW l, Loops = {l}
  PROVE  Spec => []PendingInv(l)
<1>1. Init => PendingInv(l)
  BY DEF Init, PendingInv
<1>2. TypeOK /\ PendingInv(l) /\ [Next]_vars => PendingInv(l)'
  <2> SUFFICES ASSUME TypeOK, PendingInv(l), [Next]_vars PROVE PendingInv(l)'
    OBVIOUS
  <2>1. CASE LoopStep(l)
    BY <2>1, LoopKeepsPending
  <2>2. CASE Operator
    BY <2>2, OperatorEffect DEF PendingInv, Undisturbed, RowKept
  <2>3. CASE UNCHANGED vars
    BY <2>3 DEF PendingInv, Undisturbed, vars, durable, world, limits, local
  <2> QED
    BY <2>1, <2>2, <2>3 DEF Next, LoopStep
<1> QED
  BY <1>1, <1>2, TypeCorrect, PTL DEF Spec

-----------------------------------------------------------------------------
(* A completed run.                                                        *)

\* The loop that completed the run only goes on to its end, where it stops.
DoneInv(l) ==
  run.status = "completed" =>
    /\ pc[l] \in {"off", "reload", "consume", "pending", "approval", "end", "decide"}
    /\ pc[l] \in {"reload", "consume", "pending"} => hand[l].outcome = "complete"
    /\ pc[l] \in {"consume", "pending", "approval"} => mem[l].status = "completed"
    /\ pc[l] \in {"end", "decide"} => mem[l].status = "completed" \/ cyc[l].failed

LEMMA LoopKeepsDone ==
  ASSUME TypeOK, NEW l \in Loops, DoneInv(l), LoopStep(l)
  PROVE  DoneInv(l)'
<1> USE DEF StoreSame, WorldSame, RowKept, CycleKept, DoneInv
<1>1. CASE Resume(l)
  BY <1>1, TakeEffect
<1>2. CASE BeginCycle(l)
  BY <1>2, BeginEffect
<1>21. CASE ContinueWorkerPlan(l) \/ WorkerTurnsReturn(l)
  BY <1>21, RejoinEffect
<1>22. CASE WorkersNeedApproval(l) \/ WorkersSettled(l)
  BY <1>22, SettleEffect
<1>3. CASE Plan(l) \/ PlanFails(l) \/ AskFails(l)
  BY <1>3, PlanEffect, FailsEffect
<1>4. CASE SavePlannerTurn(l)
  BY <1>4, SaveEffect
<1>5. CASE SaveConflict(l) \/ ExecutorConflict(l) \/ StoreFault(l)
  BY <1>5, ConflictEffect, FaultEffect
<1>6. CASE ReloadAfterTurn(l) \/ RefreshAfterAction(l)
  BY <1>6, ReloadEffect, RefreshEffect
<1>7. CASE PersistPendingAction(l) \/ ConsumeControlMessage(l)
  BY <1>7, PendingEffect, ConsumeEffect DEF AfterTurn
<1>8. CASE DriftReviewed(l) \/ NoDriftReview(l) \/ Intervene(l)
  BY <1>8, DriftEffect, InterveneEffect
<1>9. CASE BeginAction(l) \/ NothingToDo(l) \/ AskWorkers(l)
  BY <1>9, BeginActionEffect, NothingEffect, AskWorkersEffect
<1>10. CASE RecordHumanReply(l) \/ CollectContext(l) \/ WorkersReport(l)
  BY <1>10, ResultEffect
<1>11. CASE Dispatch(l) \/ ContinueExecutorTurn(l)
  BY <1>11, DispatchEffect, ContinueEffect
<1>12. CASE ExecutorCompletes(l) \/ ExecutorNeedsApproval(l)
  BY <1>12, CompletesEffect, NeedsApprovalEffect
<1>13. CASE ExecutorFails(l) \/ ExecutorUnavailable(l)
  BY <1>13, FailedTurnEffect
<1>14. CASE PersistRuntimeIssue(l) \/ SaveApprovalStop(l)
  BY <1>14, IssueEffect, ApprovalStopEffect
<1>15. CASE ConsumeStopFlag(l) \/ CountCycle(l) \/ NextCycle(l)
  BY <1>15, CycleOverEffect, NextCycleEffect, StopsFor
<1>16. CASE StopLoop(l) \/ Crash(l) \/ SafePointFault(l)
  BY <1>16, StopLoopEffect, LeaveEffect
<1> QED
  BY <1>1, <1>2, <1>3, <1>4, <1>5, <1>6, <1>7, <1>8, <1>9, <1>10, <1>11, <1>12, <1>13,
     <1>14, <1>15, <1>16, <1>21, <1>22, Zenon
  DEF LoopStep, Step, BeforePlan, PlannerTurn, BeforeAction, Action, SafePoint, Human,
      Executor, Workers

LEMMA DoneInvariant ==
  ASSUME NEW l, Loops = {l}
  PROVE  Spec => []DoneInv(l)
<1>1. Init => DoneInv(l)
  BY FirstRow DEF Init, DoneInv
<1>2. TypeOK /\ DoneInv(l) /\ [Next]_vars => DoneInv(l)'
  <2> SUFFICES ASSUME TypeOK, DoneInv(l), [Next]_vars PROVE DoneInv(l)'
    OBVIOUS
  <2>1. CASE LoopStep(l)
    BY <2>1, LoopKeepsDone
  <2>2. CASE Operator
    BY <2>2, OperatorEffect DEF DoneInv, RowKept
  <2>3. CASE UNCHANGED vars
    BY <2>3 DEF DoneInv, vars, durable, world, limits, local
  <2> QED
    BY <2>1, <2>2, <2>3 DEF Next, LoopStep
<1> QED
  BY <1>1, <1>2, TypeCorrect, PTL DEF Spec

-----------------------------------------------------------------------------
(* Why a loop stopped.                                                     *)

\* Where a loop is while the executor waits for an approval: it saves that, or
\* stops for that, or goes back to waiting for the turn.
WaitsForApproval(l) ==
  \/ pc[l] = "refresh" /\ phase[l] = "executor" /\ cyc[l].approval
  \/ pc[l] = "approval" /\ mem[l].turn = run.turn
  \/ /\ pc[l] \in {"begin", "continue", "executing", "end", "decide"}
     /\ mem[l].turn = run.turn
     /\ run.stop = "executor_approval_required"
     /\ mem[l].stop = "executor_approval_required"
  \/ pc[l] = "off" /\ run.stop = "executor_approval_required"

ApprovalInv(l) ==
  Undisturbed /\ commands = 0 /\ run.turn.status = "approval_required"
    => WaitsForApproval(l)

LEMMA LoopKeepsApproval ==
  ASSUME TypeOK, NEW l \in Loops, TurnInv(l), ApprovalInv(l), LoopStep(l)
  PROVE  ApprovalInv(l)'
<1> USE DEF StoreSame, WorldSame, RowKept, CycleKept, ApprovalInv, WaitsForApproval, Undisturbed
<1>1. CASE Resume(l)
  BY <1>1, TakeEffect
<1>2. CASE BeginCycle(l)
  BY <1>2, BeginEffect DEF TurnInv, ActiveTurn
<1>21. CASE ContinueWorkerPlan(l) \/ WorkerTurnsReturn(l)
  BY <1>21, RejoinEffect
<1>22. CASE WorkersNeedApproval(l) \/ WorkersSettled(l)
  BY <1>22, SettleEffect
<1>3. CASE Plan(l) \/ PlanFails(l) \/ AskFails(l)
  BY <1>3, PlanEffect, FailsEffect
<1>4. CASE SavePlannerTurn(l)
  BY <1>4, SaveEffect
<1>5. CASE SaveConflict(l) \/ ExecutorConflict(l) \/ StoreFault(l)
  BY <1>5, ConflictEffect, FaultEffect
<1>6. CASE ReloadAfterTurn(l) \/ RefreshAfterAction(l)
  BY <1>6, ReloadEffect, RefreshEffect
<1>7. CASE PersistPendingAction(l) \/ ConsumeControlMessage(l)
  BY <1>7, PendingEffect, ConsumeEffect, AfterTurnPlace
<1>8. CASE DriftReviewed(l) \/ NoDriftReview(l) \/ Intervene(l)
  BY <1>8, DriftEffect, InterveneEffect
<1>9. CASE BeginAction(l) \/ NothingToDo(l) \/ AskWorkers(l)
  BY <1>9, BeginActionEffect, NothingEffect, AskWorkersEffect
<1>10. CASE RecordHumanReply(l) \/ CollectContext(l) \/ WorkersReport(l)
  BY <1>10, ResultEffect
<1>11. CASE Dispatch(l) \/ ContinueExecutorTurn(l)
  BY <1>11, DispatchEffect, ContinueEffect
<1>12. CASE ExecutorCompletes(l) \/ ExecutorNeedsApproval(l)
  BY <1>12, CompletesEffect, NeedsApprovalEffect
<1>13. CASE ExecutorFails(l) \/ ExecutorUnavailable(l)
  BY <1>13, FailedTurnEffect
<1>14. CASE PersistRuntimeIssue(l) \/ SaveApprovalStop(l)
  BY <1>14, IssueEffect, ApprovalStopEffect
<1>15. CASE ConsumeStopFlag(l) \/ CountCycle(l) \/ NextCycle(l)
  BY <1>15, CycleOverEffect, NextCycleEffect, StopsFor
<1>16. CASE StopLoop(l) \/ Crash(l) \/ SafePointFault(l)
  BY <1>16, StopLoopEffect, LeaveEffect, StopsFor
<1> QED
  BY <1>1, <1>2, <1>3, <1>4, <1>5, <1>6, <1>7, <1>8, <1>9, <1>10, <1>11, <1>12, <1>13,
     <1>14, <1>15, <1>16, <1>21, <1>22, Zenon
  DEF LoopStep, Step, BeforePlan, PlannerTurn, BeforeAction, Action, SafePoint, Human,
      Executor, Workers

LEMMA ApprovalInvariant ==
  ASSUME NEW l, Loops = {l}
  PROVE  Spec => []ApprovalInv(l)
<1>1. Init => ApprovalInv(l)
  BY FirstRow DEF Init, ApprovalInv
<1>2. TypeOK /\ TurnInv(l) /\ ApprovalInv(l) /\ [Next]_vars => ApprovalInv(l)'
  <2> SUFFICES ASSUME TypeOK, TurnInv(l), ApprovalInv(l), [Next]_vars PROVE ApprovalInv(l)'
    OBVIOUS
  <2>1. CASE LoopStep(l)
    BY <2>1, LoopKeepsApproval
  <2>2. CASE Operator
    BY <2>2, OperatorEffect DEF ApprovalInv, WaitsForApproval, Undisturbed, TurnInv
  <2>3. CASE UNCHANGED vars
    BY <2>3 DEF ApprovalInv, WaitsForApproval, Undisturbed, TurnInv, vars, durable, world, limits, local
  <2> QED
    BY <2>1, <2>2, <2>3 DEF Next, LoopStep
<1> QED
  BY <1>1, <1>2, TypeCorrect, TurnInvariant, PTL DEF Spec

\* A cycle that ends well has heard of a planner turn, or has a reason to stop.
ReasonInv(l) ==
  /\ pc[l] \in {"save", "reload"} => hand[l].outcome # "none"
  /\ pc[l] \in {"consume", "pending", "drift", "intervene", "act"} => cyc[l].last # "none"
  /\ pc[l] \in {"end", "decide"} => cyc[l].failed \/ cyc[l].last # "none" \/ mem[l].stop # ""

LEMMA LoopKeepsReason ==
  ASSUME TypeOK, NEW l \in Loops, ReasonInv(l), LoopStep(l)
  PROVE  ReasonInv(l)'
<1> USE DEF StoreSame, WorldSame, RowKept, CycleKept, ReasonInv
<1>1. CASE Resume(l)
  BY <1>1, TakeEffect
<1>2. CASE BeginCycle(l)
  BY <1>2, BeginEffect
<1>21. CASE ContinueWorkerPlan(l) \/ WorkerTurnsReturn(l)
  BY <1>21, RejoinEffect
<1>22. CASE WorkersNeedApproval(l) \/ WorkersSettled(l)
  BY <1>22, SettleEffect
<1>3. CASE Plan(l) \/ PlanFails(l) \/ AskFails(l)
  BY <1>3, PlanEffect, FailsEffect DEF Outcomes
<1>4. CASE SavePlannerTurn(l)
  BY <1>4, SaveEffect
<1>5. CASE SaveConflict(l) \/ ExecutorConflict(l) \/ StoreFault(l)
  BY <1>5, ConflictEffect, FaultEffect
<1>6. CASE ReloadAfterTurn(l) \/ RefreshAfterAction(l)
  BY <1>6, ReloadEffect, RefreshEffect
<1>7. CASE PersistPendingAction(l) \/ ConsumeControlMessage(l)
  BY <1>7, PendingEffect, ConsumeEffect, AfterTurnPlace
<1>8. CASE DriftReviewed(l) \/ NoDriftReview(l) \/ Intervene(l)
  BY <1>8, DriftEffect, InterveneEffect
<1>9. CASE BeginAction(l) \/ NothingToDo(l) \/ AskWorkers(l)
  BY <1>9, BeginActionEffect, NothingEffect, AskWorkersEffect
<1>10. CASE RecordHumanReply(l) \/ CollectContext(l) \/ WorkersReport(l)
  BY <1>10, ResultEffect
<1>11. CASE Dispatch(l) \/ ContinueExecutorTurn(l)
  BY <1>11, DispatchEffect, ContinueEffect
<1>12. CASE ExecutorCompletes(l) \/ ExecutorNeedsApproval(l)
  BY <1>12, CompletesEffect, NeedsApprovalEffect
<1>13. CASE ExecutorFails(l) \/ ExecutorUnavailable(l)
  BY <1>13, FailedTurnEffect
<1>14. CASE PersistRuntimeIssue(l) \/ SaveApprovalStop(l)
  BY <1>14, IssueEffect, ApprovalStopEffect
<1>15. CASE ConsumeStopFlag(l) \/ CountCycle(l) \/ NextCycle(l)
  BY <1>15, CycleOverEffect, NextCycleEffect, StopsFor
<1>16. CASE StopLoop(l) \/ Crash(l) \/ SafePointFault(l)
  BY <1>16, StopLoopEffect, LeaveEffect
<1> QED
  BY <1>1, <1>2, <1>3, <1>4, <1>5, <1>6, <1>7, <1>8, <1>9, <1>10, <1>11, <1>12, <1>13,
     <1>14, <1>15, <1>16, <1>21, <1>22, Zenon
  DEF LoopStep, Step, BeforePlan, PlannerTurn, BeforeAction, Action, SafePoint, Human,
      Executor, Workers

LEMMA ReasonInvariant ==
  ASSUME NEW l, Loops = {l}
  PROVE  Spec => []ReasonInv(l)
<1>1. Init => ReasonInv(l)
  BY DEF Init, ReasonInv
<1>2. TypeOK /\ ReasonInv(l) /\ [Next]_vars => ReasonInv(l)'
  <2> SUFFICES ASSUME TypeOK, ReasonInv(l), [Next]_vars PROVE ReasonInv(l)'
    OBVIOUS
  <2>1. CASE LoopStep(l)
    BY <2>1, LoopKeepsReason
  <2>2. CASE Operator
    BY <2>2, OperatorEffect DEF ReasonInv
  <2>3. CASE UNCHANGED vars
    BY <2>3 DEF ReasonInv, vars, durable, world, limits, local
  <2> QED
    BY <2>1, <2>2, <2>3 DEF Next, LoopStep
<1> QED
  BY <1>1, <1>2, TypeCorrect, PTL DEF Spec

-----------------------------------------------------------------------------
(* The theorems.                                                           *)

\* An action the planner is reconsidering because of a message is on hold
\* (maybeRunControlIntervention).
THEOREM ReconsideredActionIsHeld ==
  ASSUME NEW l, Loops = {l}
  PROVE  Spec => []HeldDuringIntervention
<1>1. PendingInv(l) => HeldDuringIntervention
  BY DEF PendingInv, HeldDuringIntervention
<1> QED
  BY <1>1, PendingInvariant, PTL

\* Nothing is pending while an action is carried out (clearPendingAction).
THEOREM ActionIsNotPending ==
  ASSUME NEW l, Loops = {l}
  PROVE  Spec => []NoPendingWhileActing
<1>1. PendingInv(l) => NoPendingWhileActing
  BY DEF PendingInv, NoPendingWhileActing
<1> QED
  BY <1>1, PendingInvariant, PTL

\* A loop at rest leaves no pending action but the latest turn's
\* (persistPendingAction).
THEOREM PendingActionIsLatest ==
  ASSUME NEW l, Loops = {l}
  PROVE  Spec => []PendingIsLatest
<1>1. PendingInv(l) => PendingIsLatest
  BY DEF PendingInv, PendingIsLatest
<1> QED
  BY <1>1, PendingInvariant, PTL

\* There are no more executor checkpoints than executor turns (SaveExecutorTurn),
\* as long as no command of the operator's writes back an older turn.
THEOREM ExecutorCheckpointsEarned ==
  ASSUME NEW l, Loops = {l}
  PROVE  Spec => []CheckpointsEarned
<1>1. WorkInv(l) => CheckpointsEarned
  BY DEF WorkInv, CheckpointsEarned
<1> QED
  BY <1>1, WorkInvariant, PTL

\* No first planner turn starts over an executor turn that goes on
\* (hasActiveExecutorTurn, in RunOnce), as long as no command writes one back.
THEOREM ActiveTurnGoesFirst ==
  ASSUME NEW l, Loops = {l}
  PROVE  Spec => []ActiveTurnFirst
<1>1. WorkInv(l) => ActiveTurnFirst
  BY DEF WorkInv, ActiveTurnFirst
<1> QED
  BY <1>1, WorkInvariant, PTL

\* Without disturbances and commands of the operator's, the row has the latest
\* executor turn started (SaveExecutorTurn, SaveExecutorState).
THEOREM ExecutorWorkIsRecorded ==
  ASSUME NEW l, Loops = {l}
  PROVE  Spec => []ExecutorWorkRecorded
<1>1. NumberInv(l) => ExecutorWorkRecorded
  BY DEF NumberInv, ExecutorWorkRecorded
<1> QED
  BY <1>1, NumberInvariant, PTL

\* A loop that stopped while the executor waits for an approval says so in the
\* row (SaveLatestStopReason), until the executor is interrupted, killed or
\* steered or a worker is answered.
THEOREM ApprovalIsVisible ==
  ASSUME NEW l, Loops = {l}
  PROVE  Spec => []ApprovalVisible
<1>1. ApprovalInv(l) => ApprovalVisible
  BY DEF ApprovalInv, WaitsForApproval, ApprovalVisible
<1> QED
  BY <1>1, ApprovalInvariant, PTL

\* No step of the loop adds to a completed run.
LEMMA LoopLeavesCompleted ==
  ASSUME TypeOK, NEW l \in Loops, DoneInv(l), run.status = "completed", LoopStep(l)
  PROVE  run'.status = "completed" /\ UNCHANGED <<checkpoints, dispatched>>
<1> USE DEF StoreSame, WorldSame, RowKept, DoneInv
<1>1. CASE Resume(l)
  BY <1>1, TakeEffect
<1>2. CASE BeginCycle(l)
  BY <1>2, BeginEffect
<1>21. CASE ContinueWorkerPlan(l) \/ WorkerTurnsReturn(l)
  BY <1>21, RejoinEffect
<1>22. CASE WorkersNeedApproval(l) \/ WorkersSettled(l)
  BY <1>22, SettleEffect
<1>3. CASE Plan(l) \/ PlanFails(l) \/ AskFails(l)
  BY <1>3, PlanEffect, FailsEffect
<1>4. CASE SavePlannerTurn(l)
  BY <1>4, SaveEffect
<1>5. CASE SaveConflict(l) \/ ExecutorConflict(l) \/ StoreFault(l)
  BY <1>5, ConflictEffect, FaultEffect
<1>6. CASE ReloadAfterTurn(l) \/ RefreshAfterAction(l)
  BY <1>6, ReloadEffect, RefreshEffect
<1>7. CASE PersistPendingAction(l) \/ ConsumeControlMessage(l)
  BY <1>7, PendingEffect, ConsumeEffect, AfterTurnPlace
<1>8. CASE DriftReviewed(l) \/ NoDriftReview(l) \/ Intervene(l)
  BY <1>8, DriftEffect, InterveneEffect
<1>9. CASE BeginAction(l) \/ NothingToDo(l) \/ AskWorkers(l)
  BY <1>9, BeginActionEffect, NothingEffect, AskWorkersEffect
<1>10. CASE RecordHumanReply(l) \/ CollectContext(l) \/ WorkersReport(l)
  BY <1>10, ResultEffect
<1>11. CASE Dispatch(l) \/ ContinueExecutorTurn(l)
  BY <1>11, DispatchEffect, ContinueEffect
<1>12. CASE ExecutorCompletes(l) \/ ExecutorNeedsApproval(l)
  BY <1>12, CompletesEffect, NeedsApprovalEffect
<1>13. CASE ExecutorFails(l) \/ ExecutorUnavailable(l)
  BY <1>13, FailedTurnEffect
<1>14. CASE PersistRuntimeIssue(l) \/ SaveApprovalStop(l)
  BY <1>14, IssueEffect, ApprovalStopEffect
<1>15. CASE ConsumeStopFlag(l) \/ CountCycle(l) \/ NextCycle(l)
  BY <1>15, CycleOverEffect, NextCycleEffect, StopsFor
<1>16. CASE StopLoop(l) \/ Crash(l) \/ SafePointFault(l)
  BY <1>16, StopLoopEffect, LeaveEffect
<1> QED
  BY <1>1, <1>2, <1>3, <1>4, <1>5, <1>6, <1>7, <1>8, <1>9, <1>10, <1>11, <1>12, <1>13,
     <1>14, <1>15, <1>16, <1>21, <1>22, Zenon
  DEF LoopStep, Step, BeforePlan, PlannerTurn, BeforeAction, Action, SafePoint, Human,
      Executor, Workers

\* A completed run stays as it is (LatestResumableRun, SavePlannerCompletion).
THEOREM CompletedStaysFinal ==
  ASSUME NEW l, Loops = {l}
  PROVE  Spec => CompletedIsFinal
<1>1. TypeOK /\ DoneInv(l) /\ [Next]_vars =>
        [run.status = "completed" =>
           run'.status = "completed" /\ UNCHANGED <<checkpoints, dispatched>>]_vars
  <2> SUFFICES ASSUME TypeOK, DoneInv(l), Next, run.status = "completed"
               PROVE  run'.status = "completed" /\ UNCHANGED <<checkpoints, dispatched>>
    OBVIOUS
  <2>1. CASE LoopStep(l)
    BY <2>1, LoopLeavesCompleted
  <2>2. CASE Operator
    BY <2>2, OperatorEffect DEF RowKept
  <2> QED
    BY <2>1, <2>2 DEF Next, LoopStep
<1> QED
  BY <1>1, TypeCorrect, DoneInvariant, PTL DEF Spec, CompletedIsFinal

\* What StopReasonPersisted says of a step.
StopSaysWhy ==
  \A l \in Loops : StopLoop(l) /\ faults = 0 /\ Uncontrolled => run'.stop # ""

\* A loop that stops leaves a reason in the row (SaveLatestStopReason), if no
\* call failed and no command of the operator was given (they may clear it).
THEOREM StopReasonIsPersisted ==
  ASSUME NEW l, Loops = {l}
  PROVE  Spec => StopReasonPersisted
<1>1. TypeOK /\ CopyInv(l) /\ ReasonInv(l) => StopSaysWhy
  <2> SUFFICES ASSUME TypeOK, CopyInv(l), ReasonInv(l), StopLoop(l), faults = 0,
                      Uncontrolled
               PROVE  run'.stop # ""
    BY DEF StopSaysWhy
  <2>1. pc[l] = "decide" /\ mem[l] = run
    BY StopLoopEffect DEF CopyInv
  <2>2. Stops(l)
    BY DEF StopLoop
  <2>3. StopReason(mem[l], cyc[l]) # ""
    BY <2>1, <2>2, StopsFor DEF ReasonInv
  <2> QED
    BY <2>1, <2>3, StopLoopEffect
<1> QED
  BY <1>1, TypeCorrect, CopyInvariant, ReasonInvariant, PTL
     DEF Spec, StopReasonPersisted, StopSaysWhy

=============================================================================

--------------------------- MODULE RunCycleProofs ---------------------------
(***************************************************************************)
(* What holds of RunCycle for every number of loops and every bound: the   *)
(* types, the linear checkpoint history with its planner conversation, and *)
(* what any number of loops keep of the planner's turns and the operator's *)
(* messages.                                                               *)
(*                                                                         *)
(* The history argument: a loop writes from a copy of the run row, and the *)
(* primary key of checkpoints lets the write pass only if the number after *)
(* the copy is free; a copy is a row that once was on disk, so its number  *)
(* is free only if the copy is the latest, and the turn goes on from there.*)
(*                                                                         *)
(* The other arguments have one form: a step of a loop is one of the few   *)
(* that make, record or use a turn (or a message), or it carries the turns *)
(* of all loops along, keeping or dropping them.                           *)
(***************************************************************************)
EXTENDS RunCycleHistory, SequenceTheorems, TLAPS

\* The initial values of rows, copies and hands have their types.
LEMMA ConstantTypes ==
  /\ NewRun \in RunType
  /\ Bootstrap \in RowType
  /\ NoPending \in PendingType
  /\ NoControl \in ControlType
  /\ EmptyHand \in HandType
  /\ FreshCycle \in CycleType
  <1> USE DEF NoTurn, TurnType
  <1>1. NewRun \in RunType
    BY DEF NewRun, RunType, StopReasons
  <1>2. Bootstrap \in RowType
    BY DEF Bootstrap, RowType
  <1>3. NoPending \in PendingType /\ NoControl \in ControlType /\ EmptyHand \in HandType
    BY DEF NoPending, PendingType, NoControl, ControlType, EmptyHand, HandType
  <1>4. FreshCycle \in CycleType
    BY DEF FreshCycle, CycleType, StopReasons, AllModes
  <1> QED BY <1>1, <1>2, <1>3, <1>4

\* The initial state has the types.
LEMMA InitTypes == Init => TypeOK
  <1> SUFFICES ASSUME Init PROVE TypeOK
    OBVIOUS
  <1>1. 0 \in 0..MaxTurns /\ << >> \in Seq(Nat)
    BY ConstantsAssumption
  <1>2. \A l \in Loops : pc[l] \in Places /\ phase[l] \in Phases
    BY DEF Init, Places, Phases
  <1> QED BY <1>1, <1>2, ConstantTypes DEF Init, TypeOK

\* The copies and columns the store computes have the types of the store.
LEMMA ClearedType ==
  ASSUME NEW r \in RunType
  PROVE  Cleared(r) \in RunType
  BY DEF Cleared, RunType, StopReasons

\* A row with a runtime issue (SaveRuntimeIssue) is a row.
LEMMA IssueType ==
  ASSUME NEW r \in RunType, NEW reason \in StopReasons
  PROVE  WithIssue(r, reason) \in RunType
  BY DEF WithIssue, RunType

\* A loop that returns leaves the types of its local state.
LEMMA LeaveTypes ==
  ASSUME TypeOK, NEW l \in Loops, Leave(l)
  PROVE  /\ pc' \in [Loops -> Places]
         /\ mem' \in [Loops -> RunType]
         /\ phase' \in [Loops -> Phases]
         /\ hand' \in [Loops -> HandType]
         /\ msg' \in [Loops -> Nat]
         /\ cyc' \in [Loops -> CycleType]
  BY ConstantTypes DEF Leave, Goto, TypeOK, Places, Phases

\* Where a cycle can go on after a planner turn.
LEMMA AfterTurnPlace ==
  ASSUME NEW l \in Loops
  PROVE  AfterTurn(l) \in {"end", "drift", "intervene", "act", "approval"}
  BY DEF AfterTurn

\* BuildPendingAction makes a pending action.
LEMMA PendingActionType ==
  ASSUME NEW turn \in HandType, NEW held \in BOOLEAN
  PROVE  BuildPendingAction(turn, held) \in PendingType
  BY DEF BuildPendingAction, HandType, PendingType, NoPending

\* Writing one field of the cycle's state keeps its type.
LEMMA CycleFields ==
  ASSUME NEW c \in CycleType
  PROVE  /\ [c EXCEPT !.failed = TRUE] \in CycleType
         /\ \A waiting \in BOOLEAN : [c EXCEPT !.approval = waiting] \in CycleType
         /\ \A reason \in StopReasons : [c EXCEPT !.reason = reason] \in CycleType
         /\ \A n \in Nat : [c EXCEPT !.due = n] \in CycleType
         /\ \A turn : \A o \in Outcomes \union {"none"} : Heard(turn, o, c) \in CycleType
  <1>1. [c EXCEPT !.failed = TRUE] \in CycleType
    BY DEF CycleType
  <1>2. \A waiting \in BOOLEAN : [c EXCEPT !.approval = waiting] \in CycleType
    BY DEF CycleType
  <1>3. \A reason \in StopReasons : [c EXCEPT !.reason = reason] \in CycleType
    BY DEF CycleType
  <1>4. \A n \in Nat : [c EXCEPT !.due = n] \in CycleType
    BY DEF CycleType
  <1>5. ASSUME NEW turn, NEW o \in Outcomes \union {"none"}
        PROVE  Heard(turn, o, c) \in CycleType
    BY DEF Heard, CycleType
  <1> QED BY <1>1, <1>2, <1>3, <1>4, <1>5

\* A cycle that ends over a failed store call keeps the local types.
LEMMA AbortTypes ==
  ASSUME TypeOK, NEW l \in Loops, Abort(l)
  PROVE  pc' \in [Loops -> Places] /\ cyc' \in [Loops -> CycleType]
  <1>1. pc' \in [Loops -> Places]
    BY DEF Abort, Goto, TypeOK, Places
  <1>2. cyc' = [cyc EXCEPT ![l] = [cyc[l] EXCEPT !.failed = TRUE]]
    BY DEF Abort
  <1> QED BY <1>1, <1>2, CycleFields DEF TypeOK

\* A cycle that ends over a planner or executor error keeps the local types.
LEMMA FailsTypes ==
  ASSUME TypeOK, NEW l \in Loops, NEW reason \in StopReasons, Fails(l, reason)
  PROVE  pc' \in [Loops -> Places] /\ cyc' \in [Loops -> CycleType]
  <1>1. pc' \in [Loops -> Places]
    BY DEF Fails, Goto, TypeOK, Places
  <1>2. cyc' = [cyc EXCEPT ![l] = [cyc[l] EXCEPT !.reason = reason]]
    BY DEF Fails
  <1> QED BY <1>1, <1>2, CycleFields DEF TypeOK

\* Every command takes the run up in one of the modes.
LEMMA ResumeTakes ==
  ASSUME NEW l \in Loops, Resume(l)
  PROVE  \E mode \in AllModes, n \in Nat : Take(l, mode, n)
  <1>1. "unbounded" \in AllModes /\ "limited" \in AllModes /\ "once" \in AllModes
    BY DEF AllModes
  <1>2. 0 \in Nat /\ 1..MaxCycles \subseteq Nat
    BY ConstantsAssumption
  <1> QED BY <1>1, <1>2 DEF Resume, RunOrAuto, ContinueLimited, ResumeOnce

\* Going to the planner with a message keeps the types of place and message.
LEMMA PlanWithMessageTypes ==
  ASSUME TypeOK, NEW l \in Loops, PlanWithMessage(l)
  PROVE  pc' \in [Loops -> Places] /\ msg' \in [Loops -> Nat]
  <1>1. \A m \in 0..injected : m \in Nat
    BY DEF TypeOK
  <1> QED BY <1>1 DEF PlanWithMessage, Goto, TypeOK, Places

\* Starting a loop, or a cycle as far as its planner turn, preserves the types.
LEMMA StartTypes ==
  ASSUME TypeOK, NEW l \in Loops, Resume(l) \/ BeforePlan(l)
  PROVE  TypeOK'
  <1> USE DEF durable, world, limits, local
  <1>1. CASE Resume(l)
    <2>1. PICK mode \in AllModes, n \in Nat : Take(l, mode, n)
      BY <1>1, ResumeTakes
    <2>2. cyc' = [cyc EXCEPT ![l] = [cyc[l] EXCEPT !.mode = mode, !.left = n]]
      BY <2>1 DEF Take
    <2>3. \A c \in CycleType : [c EXCEPT !.mode = mode, !.left = n] \in CycleType
      BY <2>1 DEF CycleType
    <2>4. cyc' \in [Loops -> CycleType]
      BY <2>2, <2>3 DEF TypeOK
    <2>5. pc' \in [Loops -> Places] /\ mem' \in [Loops -> RunType]
      BY <2>1 DEF Take, Goto, TypeOK, Places
    <2> QED BY <2>1, <2>4, <2>5 DEF Take, TypeOK
  <1>2. CASE BeginCycle(l)
    <2>1. pc' \in [Loops -> Places]
      BY <1>2 DEF BeginCycle, PlanWithMessage, Goto, TypeOK, Places
    <2>2. msg' \in [Loops -> Nat]
      <3>1. CASE msg' = msg
        BY <3>1 DEF TypeOK
      <3>2. CASE PlanWithMessage(l)
        BY <3>2, PlanWithMessageTypes
      <3> QED BY <1>2, <3>1, <3>2 DEF BeginCycle
    <2> QED BY <1>2, <2>1, <2>2 DEF BeginCycle, TypeOK
  <1>3. CASE ContinueWorkerPlan(l)
    <2>1. pc' \in [Loops -> Places]
      BY <1>3 DEF ContinueWorkerPlan, Goto, TypeOK, Places
    <2> QED BY <1>3, <2>1, ConstantTypes
      DEF ContinueWorkerPlan, SavePendingAction, TypeOK
  <1>4. CASE WorkersNeedApproval(l)
    <2>1. run' \in RunType
      <3>1. \A r \in RunType :
              [r EXCEPT !.stop = "executor_approval_required"] \in RunType
        BY DEF RunType, StopReasons
      <3> QED BY <1>4, <3>1 DEF WorkersNeedApproval, TypeOK
    <2>2. pc' \in [Loops -> Places] /\ mem' \in [Loops -> RunType]
      BY <1>4, <2>1 DEF WorkersNeedApproval, Goto, TypeOK, Places
    <2> QED BY <1>4, <2>1, <2>2 DEF WorkersNeedApproval, TypeOK
  <1>5. CASE WorkersSettled(l)
    <2>1. run' \in RunType
      <3>1. [run EXCEPT !.stop = ""] \in RunType
        BY DEF TypeOK, RunType, StopReasons
      <3>2. run' = run \/ run' = [run EXCEPT !.stop = ""]
        BY <1>5 DEF WorkersSettled
      <3> QED BY <3>1, <3>2 DEF TypeOK
    <2>2. mem' \in [Loops -> RunType]
      <3>1. mem' = mem \/ mem' = [mem EXCEPT ![l] = run']
        BY <1>5 DEF WorkersSettled
      <3> QED BY <2>1, <3>1 DEF TypeOK
    <2>3. pc' \in [Loops -> Places] /\ msg' \in [Loops -> Nat]
      BY <1>5, PlanWithMessageTypes DEF WorkersSettled
    <2> QED BY <1>5, <2>1, <2>2, <2>3 DEF WorkersSettled, TypeOK
  <1> QED BY <1>1, <1>2, <1>3, <1>4, <1>5 DEF BeforePlan

\* The planner turn, up to its reload, preserves the types.
LEMMA PlannerTypes ==
  ASSUME TypeOK, NEW l \in Loops, PlannerTurn(l)
  PROVE  TypeOK'
  <1> USE DEF durable, world, limits, local
  <1>1. CASE Plan(l)
    BY <1>1, ConstantsAssumption DEF Plan, Goto, TypeOK, Places, HandType
  <1>2. CASE PlanFails(l)
    <2>1. PICK reason \in PlannerErrors : Fails(l, reason)
      BY <1>2 DEF PlanFails
    <2>2. reason \in StopReasons
      BY ConstantsAssumption DEF StopReasons
    <2>3. pc' \in [Loops -> Places] /\ cyc' \in [Loops -> CycleType]
      BY <2>1, <2>2, FailsTypes
    <2> QED BY <1>2, <2>3 DEF PlanFails, TypeOK
  <1>3. CASE SavePlannerTurn(l)
    <2>1. PlannerRow(l) \in RowType
      <3>1. mem[l] \in RunType /\ hand[l] \in HandType /\ msg[l] \in Nat
        BY DEF TypeOK
      <3> QED BY <3>1 DEF PlannerRow, RowType, RunType, HandType
    <2>2. run' \in RunType
      <3>1. Cleared(run) \in RunType /\ run.status \in {"initialized", "completed"}
        BY ClearedType DEF TypeOK, RunType
      <3>2. /\ mem[l].seq + 1 \in Nat \ {0} /\ mem[l].planner + 1 \in Nat
            /\ mem[l].exec \in Nat /\ hand[l].resp \in Nat
        <4>1. mem[l] \in RunType /\ hand[l] \in HandType
          BY DEF TypeOK
        <4> QED BY <4>1 DEF RunType, HandType
      <3>3. ASSUME NEW r \in RunType, NEW resp \in Nat, NEW planner \in Nat,
                   NEW exec \in Nat, NEW seq \in Nat \ {0},
                   NEW status \in {"initialized", "completed"}
            PROVE  [r EXCEPT !.resp = resp, !.seq = seq, !.planner = planner,
                             !.exec = exec, !.status = status] \in RunType
        BY DEF RunType
      <3> DEFINE next == IF hand[l].outcome = "complete" THEN "completed"
                           ELSE run.status
      <3>4. next \in {"initialized", "completed"}
        BY <3>1
      <3>5. run' = [Cleared(run) EXCEPT
                      !.resp = hand[l].resp, !.seq = mem[l].seq + 1,
                      !.planner = mem[l].planner + 1, !.exec = mem[l].exec,
                      !.status = next]
        BY <1>3 DEF SavePlannerTurn
      <3> HIDE DEF next
      <3> QED BY <3>1, <3>2, <3>3, <3>4, <3>5
    <2>3. cyc' \in [Loops -> CycleType]
      <3>1. cyc' = [cyc EXCEPT ![l] = [cyc[l] EXCEPT !.due = injected]]
        BY <1>3 DEF SavePlannerTurn
      <3> QED BY <3>1, CycleFields DEF TypeOK
    <2> QED
      BY <1>3, <2>1, <2>2, <2>3, SMTT(30) DEF SavePlannerTurn, Goto, TypeOK, Places
  <1>4. CASE SaveConflict(l)
    BY <1>4, AbortTypes DEF SaveConflict, TypeOK
  <1>5. CASE ReloadAfterTurn(l)
    <2>1. pc' \in [Loops -> Places] /\ mem' \in [Loops -> RunType]
      BY <1>5 DEF ReloadAfterTurn, Goto, TypeOK, Places
    <2>2. hand[l].outcome \in Outcomes \union {"none"}
      BY DEF TypeOK, HandType
    <2>3. cyc' \in [Loops -> CycleType]
      <3>1. cyc' = [cyc EXCEPT ![l] = Heard(phase[l], hand[l].outcome, cyc[l])]
        BY <1>5 DEF ReloadAfterTurn
      <3>2. Heard(phase[l], hand[l].outcome, cyc[l]) \in CycleType
        BY <2>2, CycleFields DEF TypeOK
      <3> QED BY <3>1, <3>2 DEF TypeOK
    <2> QED BY <1>5, <2>1, <2>3 DEF ReloadAfterTurn, TypeOK
  <1>6. CASE PersistPendingAction(l)
    <2>1. pending' \in PendingType
      BY <1>6, PendingActionType DEF PersistPendingAction, SavePendingAction, TypeOK
    <2>2. pc' \in [Loops -> Places]
      BY <1>6, AfterTurnPlace DEF PersistPendingAction, Goto, TypeOK, Places
    <2> QED BY <1>6, <2>1, <2>2 DEF PersistPendingAction, TypeOK
  <1>7. CASE ConsumeControlMessage(l)
    <2>1. pc' \in [Loops -> Places]
      BY <1>7, AfterTurnPlace DEF ConsumeControlMessage, Goto, TypeOK, Places
    <2> QED BY <1>7, <2>1 DEF ConsumeControlMessage, TypeOK
  <1> QED BY <1>1, <1>2, <1>3, <1>4, <1>5, <1>6, <1>7 DEF PlannerTurn

\* What comes between the turn and its action preserves the types.
LEMMA BeforeActionTypes ==
  ASSUME TypeOK, NEW l \in Loops, BeforeAction(l)
  PROVE  TypeOK'
  <1> USE DEF durable, world, limits, local
  <1>1. CASE DriftReviewed(l)
    BY <1>1 DEF DriftReviewed, Goto, TypeOK, Places, Phases
  <1>2. CASE NoDriftReview(l)
    BY <1>2 DEF NoDriftReview, Goto, TypeOK, Places
  <1>3. CASE Intervene(l)
    <2>1. BuildPendingAction(hand[l], TRUE) \in PendingType
      BY PendingActionType DEF TypeOK
    <2>2. \A m \in 0..injected : m \in Nat
      BY DEF TypeOK
    <2>3. pending' \in PendingType
      BY <1>3, <2>1 DEF Intervene, SavePendingAction, TypeOK
    <2>4. msg' \in [Loops -> Nat]
      BY <1>3, <2>2 DEF Intervene, TypeOK
    <2>5. pc' \in [Loops -> Places] /\ phase' \in [Loops -> Phases]
      BY <1>3 DEF Intervene, Goto, TypeOK, Places, Phases
    <2> QED BY <1>3, <2>3, <2>4, <2>5 DEF Intervene, TypeOK
  <1>4. CASE BeginAction(l)
    <2>1. ActionPlace[hand[l].outcome] \in Places
      BY <1>4 DEF BeginAction, ActionPlace, Places
    <2> QED BY <1>4, <2>1, ConstantTypes DEF BeginAction, SavePendingAction, Goto, TypeOK
  <1>5. CASE NothingToDo(l)
    BY <1>5 DEF NothingToDo, Goto, TypeOK, Places
  <1> QED BY <1>1, <1>2, <1>3, <1>4, <1>5 DEF BeforeAction

\* Human replies and collected context preserve the types.
LEMMA HumanTypes ==
  ASSUME TypeOK, NEW l \in Loops, Human(l)
  PROVE  TypeOK'
  <1> USE DEF durable, world, limits
  <1>1. CASE RecordHumanReply(l)
    <2>1. run' \in RunType
      BY <1>1, ClearedType DEF RecordHumanReply, TypeOK
    <2> QED BY <1>1, <2>1 DEF RecordHumanReply, Goto, TypeOK, Places, Phases
  <1>2. CASE AskFails(l)
    <2>1. pc' \in [Loops -> Places] /\ cyc' \in [Loops -> CycleType]
      BY <1>2, FailsTypes DEF AskFails, StopReasons
    <2> QED BY <1>2, <2>1 DEF AskFails, TypeOK
  <1> QED BY <1>1, <1>2 DEF Human

\* What the executor reports of a turn is a turn.
LEMMA ReportedType ==
  ASSUME TypeOK, NEW l \in Loops,
         NEW status \in {"completed", "approval_required", "failed"},
         NEW approval \in {"none", "required"},
         NEW r \in RunType
  PROVE  [r EXCEPT !.turn = Reported(l, status, approval)] \in RunType
  <1>1. mem[l] \in RunType
    BY DEF TypeOK
  <1>2. mem[l].turn.id \in Nat
    BY <1>1 DEF RunType, TurnType
  <1>3. Reported(l, status, approval) \in TurnType
    BY <1>2 DEF Reported, TurnType
  <1> QED BY <1>3 DEF RunType

\* The steps of an executor turn preserve the types.
LEMMA ExecutorTypes ==
  ASSUME TypeOK, NEW l \in Loops, Executor(l)
  PROVE  TypeOK'
  <1> USE DEF durable, world, limits
  <1>1. Cleared(run) \in RunType
    BY ClearedType DEF TypeOK
  <1>2. CASE ExecutorCompletes(l)
    <2>1. mem[l] \in RunType /\ run \in RunType
      BY DEF TypeOK
    <2>2. ExecutorRow(l) \in RowType
      BY <2>1 DEF ExecutorRow, RowType, RunType
    <2>4. run' \in RunType
      <3>1. /\ mem[l].seq + 1 \in Nat \ {0} /\ mem[l].planner \in Nat
            /\ mem[l].exec + 1 \in Nat /\ Reported(l, "completed", "none") \in TurnType
        BY <2>1 DEF RunType, TurnType, Reported
      <3>2. \A r \in RunType : \A planner, exec \in Nat : \A seq \in Nat \ {0} :
              \A turn \in TurnType :
                [r EXCEPT !.seq = seq, !.planner = planner, !.exec = exec,
                          !.turn = turn] \in RunType
        BY DEF RunType
      <3> QED BY <1>1, <1>2, <3>1, <3>2 DEF ExecutorCompletes
    <2>5. pc' \in [Loops -> Places] /\ phase' \in [Loops -> Phases]
      BY <1>2 DEF ExecutorCompletes, Goto, TypeOK, Places, Phases
    <2> QED BY <1>2, <2>2, <2>4, <2>5 DEF ExecutorCompletes, TypeOK
  <1>3. CASE ExecutorConflict(l)
    BY <1>3, AbortTypes DEF ExecutorConflict, TypeOK
  <1>4. CASE ExecutorNeedsApproval(l)
    <2>1. run' \in RunType
      BY <1>1, <1>4, ReportedType DEF ExecutorNeedsApproval
    <2>2. cyc' \in [Loops -> CycleType]
      <3>1. cyc' = [cyc EXCEPT ![l] = [cyc[l] EXCEPT !.approval = TRUE]]
        BY <1>4 DEF ExecutorNeedsApproval
      <3> QED BY <3>1, CycleFields DEF TypeOK
    <2>3. pc' \in [Loops -> Places] /\ phase' \in [Loops -> Phases]
      BY <1>4 DEF ExecutorNeedsApproval, Goto, TypeOK, Places, Phases
    <2> QED BY <1>4, <2>1, <2>2, <2>3 DEF ExecutorNeedsApproval, TypeOK
  <1>5. CASE ExecutorFails(l)
    <2>1. run' \in RunType
      BY <1>1, <1>5, ReportedType DEF ExecutorFails
    <2>2. pc' \in [Loops -> Places] /\ cyc' \in [Loops -> CycleType]
      BY <1>5, FailsTypes DEF ExecutorFails, StopReasons
    <2> QED BY <1>5, <2>1, <2>2 DEF ExecutorFails, TypeOK
  <1>6. CASE ExecutorUnavailable(l)
    <2>1. run' \in RunType
      <3>1. \A r \in RunType : [r EXCEPT !.turn = NoTurn] \in RunType
        BY DEF RunType, TurnType, NoTurn
      <3> QED BY <1>1, <1>6, <3>1 DEF ExecutorUnavailable
    <2>2. pc' \in [Loops -> Places] /\ cyc' \in [Loops -> CycleType]
      <3>1. Fails(l, "executor_failed")
        BY <1>6 DEF ExecutorUnavailable
      <3>2. "executor_failed" \in StopReasons
        BY DEF StopReasons
      <3> QED BY <3>1, <3>2, FailsTypes
    <2> QED BY <1>6, <2>1, <2>2 DEF ExecutorUnavailable, TypeOK
  <1> QED BY <1>2, <1>3, <1>4, <1>5, <1>6 DEF Executor

\* Saving collected context preserves the types.
LEMMA CollectedTypes ==
  ASSUME TypeOK, NEW l \in Loops, NEW waiting \in BOOLEAN,
         SaveCollectedContext(l, waiting)
  PROVE  TypeOK'
  <1> USE DEF durable, world, limits
  <1>1. run' \in RunType
    BY ClearedType DEF SaveCollectedContext, TypeOK
  <1>2. cyc' \in [Loops -> CycleType]
    <2>1. cyc' = [cyc EXCEPT ![l] = [cyc[l] EXCEPT !.approval = waiting]]
      BY DEF SaveCollectedContext
    <2> QED BY <2>1, CycleFields DEF TypeOK
  <1>3. pc' \in [Loops -> Places] /\ phase' \in [Loops -> Phases]
    BY DEF SaveCollectedContext, Goto, TypeOK, Places, Phases
  <1> QED BY <1>1, <1>2, <1>3 DEF SaveCollectedContext, TypeOK

\* Every step of an action preserves the types.
LEMMA ActionTypes ==
  ASSUME TypeOK, NEW l \in Loops, Action(l)
  PROVE  TypeOK'
  <1> USE DEF durable, world, limits, local
  <1>1. mem[l] \in RunType /\ run \in RunType /\ cyc[l] \in CycleType
    BY DEF TypeOK
  <1>2. CASE CollectContext(l)
    BY <1>2, CollectedTypes DEF CollectContext
  <1>8. CASE AskWorkers(l)
    BY <1>8 DEF AskWorkers, Goto, TypeOK, Places
  <1>3. CASE Dispatch(l)
    <2>1. Len(dispatched) + 1 \in Nat /\ hand[l].resp \in Nat
      BY DEF TypeOK, HandType
    <2>2. [mem[l] EXCEPT !.turn.id = Len(dispatched) + 1] \in RunType
      <3>1. [mem[l].turn EXCEPT !.id = Len(dispatched) + 1] \in TurnType
        BY <1>1, <2>1 DEF RunType, TurnType
      <3> QED BY <1>1, <3>1 DEF RunType
    <2>3. mem' \in [Loops -> RunType]
      BY <1>3, <2>2 DEF Dispatch, TypeOK
    <2>4. dispatched' \in Seq(Nat)
      BY <1>3, <2>1 DEF Dispatch, TypeOK
    <2>5. pc' \in [Loops -> Places]
      BY <1>3 DEF Dispatch, Goto, TypeOK, Places
    <2> QED BY <1>3, <2>3, <2>4, <2>5 DEF Dispatch, TypeOK
  <1>4. CASE ContinueExecutorTurn(l)
    <2>1. pc' \in [Loops -> Places]
      BY <1>4 DEF ContinueExecutorTurn, Goto, TypeOK, Places
    <2> QED BY <1>4, <2>1, ConstantTypes
      DEF ContinueExecutorTurn, SavePendingAction, TypeOK
  <1>5. CASE PersistRuntimeIssue(l)
    <2>1. run' \in RunType
      BY <1>1, <1>5, IssueType DEF PersistRuntimeIssue, CycleType
    <2>2. pc' \in [Loops -> Places] /\ cyc' \in [Loops -> CycleType]
      BY <1>5, AbortTypes DEF PersistRuntimeIssue
    <2>3. mem' \in [Loops -> RunType]
      BY <1>5, <2>1 DEF PersistRuntimeIssue, TypeOK
    <2> QED BY <1>5, <2>1, <2>2, <2>3 DEF PersistRuntimeIssue, TypeOK
  <1>6. CASE RefreshAfterAction(l)
    <2>1. pc' \in [Loops -> Places]
      BY <1>6 DEF RefreshAfterAction, Goto, TypeOK, Places
    <2> QED BY <1>6, <2>1 DEF RefreshAfterAction, TypeOK
  <1>7. CASE SaveApprovalStop(l)
    <2>1. \A r \in RunType :
            [r EXCEPT !.stop = "executor_approval_required"] \in RunType
      BY DEF RunType, StopReasons
    <2>2. run' \in RunType
      BY <1>1, <1>7, <2>1 DEF SaveApprovalStop
    <2>3. mem' \in [Loops -> RunType]
      BY <1>1, <1>7, <2>1 DEF SaveApprovalStop, TypeOK
    <2>4. pc' \in [Loops -> Places]
      BY <1>7 DEF SaveApprovalStop, Goto, TypeOK, Places
    <2> QED BY <1>7, <2>2, <2>3, <2>4 DEF SaveApprovalStop, TypeOK
  <1> QED BY <1>2, <1>3, <1>4, <1>5, <1>6, <1>7, <1>8 DEF Action

\* What the turns of workers bring back preserves the types.
LEMMA WorkersTypes ==
  ASSUME TypeOK, NEW l \in Loops, Workers(l)
  PROVE  TypeOK'
  <1> USE DEF durable, world, limits
  <1>1. CASE WorkerTurnsReturn(l)
    <2>1. run' \in RunType
      BY <1>1, ClearedType DEF WorkerTurnsReturn, TypeOK
    <2>2. pc' \in [Loops -> Places] /\ mem' \in [Loops -> RunType]
      BY <1>1, <2>1 DEF WorkerTurnsReturn, Goto, TypeOK, Places
    <2> QED BY <1>1, <2>1, <2>2 DEF WorkerTurnsReturn, TypeOK
  <1>2. CASE WorkersReport(l)
    BY <1>2, CollectedTypes DEF WorkersReport
  <1> QED BY <1>1, <1>2 DEF Workers

\* Every reason a command stops for is one of the stop reasons.
LEMMA StopReasonType ==
  ASSUME NEW r \in RunType, NEW c \in CycleType
  PROVE  StopReason(r, c) \in StopReasons
  <1>1. LoopStopReason(r, c) \in StopReasons
    BY DEF LoopStopReason, StopReasons
  <1>2. CycleStopReason(r, c) \in StopReasons
    <2>1. /\ r.stop \in StopReasons
          /\ c.drift \in Outcomes \union {"none"}
          /\ c.last \in Outcomes \union {"none"}
      BY DEF RunType, CycleType
    <2>2. \A o \in Outcomes \union {"none"} : OutcomeReason[o] \in StopReasons
      <3>1. /\ OutcomeReason.complete \in StopReasons
            /\ OutcomeReason.ask_human \in StopReasons
            /\ OutcomeReason.pause \in StopReasons
            /\ OutcomeReason.collect_context \in StopReasons
            /\ OutcomeReason.execute \in StopReasons
            /\ OutcomeReason.none \in StopReasons
        BY DEF OutcomeReason, StopReasons
      <3> QED BY <3>1 DEF Outcomes
    <2>3. ErrorReason(c) \in StopReasons
      BY DEF ErrorReason, StopReasons
    <2>4. {"planner_complete", "planner_ask_human"} \subseteq StopReasons
      BY DEF StopReasons
    <2>5. OutcomeReason[IF c.drift # "none" THEN c.drift ELSE c.last] \in StopReasons
      <3>1. PICK o \in Outcomes \union {"none"} :
              o = IF c.drift # "none" THEN c.drift ELSE c.last
        BY <2>1
      <3>2. OutcomeReason[o] \in StopReasons
        BY <2>2
      <3> QED BY <3>1, <3>2
    <2>6. \/ CycleStopReason(r, c) \in {r.stop, ErrorReason(c),
                                       "planner_complete", "planner_ask_human"}
          \/ CycleStopReason(r, c) =
               OutcomeReason[IF c.drift # "none" THEN c.drift ELSE c.last]
      BY DEF CycleStopReason
    <2> QED BY <2>1, <2>3, <2>4, <2>5, <2>6
  <1> QED BY <1>1, <1>2 DEF StopReason

\* A fresh cycle that takes over typed fields of another one is a cycle.
LEMMA CarriedCycleType ==
  ASSUME NEW c \in CycleType, NEW n \in Nat, NEW over \in BOOLEAN,
         NEW stop \in BOOLEAN
  PROVE  [FreshCycle EXCEPT !.mode = c.mode, !.left = n, !.grace = over,
                            !.first = c.first, !.drift = c.drift,
                            !.last = c.last, !.failed = c.failed,
                            !.reason = c.reason, !.stop = stop] \in CycleType
  <1>1. FreshCycle \in CycleType
    BY ConstantTypes
  <1>2. ASSUME NEW d \in CycleType
        PROVE  [d EXCEPT !.mode = c.mode, !.left = n, !.grace = over,
                         !.first = c.first, !.drift = c.drift,
                         !.last = c.last, !.failed = c.failed,
                         !.reason = c.reason, !.stop = stop] \in CycleType
    <2>1. /\ c.mode \in AllModes /\ c.failed \in BOOLEAN
          /\ c.first \in Outcomes \union {"none"}
          /\ c.drift \in Outcomes \union {"none"}
          /\ c.last \in Outcomes \union {"none"}
          /\ c.reason \in StopReasons
      BY DEF CycleType
    <2> QED BY <2>1 DEF CycleType
  <1> QED BY <1>1, <1>2

\* A cycle that is over has dropped its local state.
LEMMA CycleOverTypes ==
  ASSUME TypeOK, NEW l \in Loops, CycleOver(l)
  PROVE  /\ pc' \in [Loops -> Places]
         /\ phase' \in [Loops -> Phases]
         /\ hand' \in [Loops -> HandType]
         /\ msg' \in [Loops -> Nat]
         /\ UNCHANGED <<run, checkpoints, pending, consumed, world, limits, mem>>
  BY ConstantTypes DEF CycleOver, Goto, TypeOK, Places, Phases

\* The steps at the safe point preserve the types.
LEMMA SafePointTypes ==
  ASSUME TypeOK, NEW l \in Loops, SafePoint(l)
  PROVE  TypeOK'
  <1> USE DEF durable, world, limits, local
  <1>1. CASE ConsumeStopFlag(l)
    <2>1. cyc' \in [Loops -> CycleType]
      <3>1. cyc[l] \in CycleType /\ stopFlag \in BOOLEAN
        BY DEF TypeOK
      <3>2. [FreshCycle EXCEPT !.last = cyc[l].last, !.failed = cyc[l].failed,
                               !.stop = stopFlag] \in CycleType
        BY <3>1, ConstantTypes DEF CycleType
      <3> QED BY <1>1, <3>2 DEF ConsumeStopFlag, TypeOK
    <2> QED BY <1>1, <2>1, CycleOverTypes DEF ConsumeStopFlag, TypeOK
  <1>4. CASE CountCycle(l)
    <2>1. PICK over \in BOOLEAN :
            /\ over <=> cyc[l].left <= 1
            /\ cyc' = [cyc EXCEPT ![l] = Counted(l, over)]
      BY <1>4 DEF CountCycle
    <2>2. Counted(l, over) \in CycleType
      <3>1. cyc[l] \in CycleType
        BY DEF TypeOK
      <3>2. PICK n \in Nat : n = IF over THEN cyc[l].left ELSE cyc[l].left - 1
        BY <2>1, <3>1 DEF CycleType
      <3>3. PICK stop \in BOOLEAN :
              stop = (over /\ (cyc[l].grace \/ ~ReadyExecuteHandoff(l)))
        OBVIOUS
      <3>4. Counted(l, over) =
              [FreshCycle EXCEPT
                 !.mode = cyc[l].mode, !.left = n, !.grace = over,
                 !.first = cyc[l].first, !.drift = cyc[l].drift,
                 !.last = cyc[l].last, !.failed = cyc[l].failed,
                 !.reason = cyc[l].reason, !.stop = stop]
        BY <3>2, <3>3, Zenon DEF Counted
      <3>5. [FreshCycle EXCEPT
               !.mode = cyc[l].mode, !.left = n, !.grace = over,
               !.first = cyc[l].first, !.drift = cyc[l].drift,
               !.last = cyc[l].last, !.failed = cyc[l].failed,
               !.reason = cyc[l].reason, !.stop = stop] \in CycleType
        BY <3>1, CarriedCycleType
      <3> QED BY <3>4, <3>5, Zenon
    <2>3. cyc' \in [Loops -> CycleType]
      BY <2>1, <2>2 DEF TypeOK
    <2> QED BY <1>4, <2>3, CycleOverTypes DEF CountCycle, TypeOK
  <1>2. CASE StopLoop(l)
    <2>1. StopReason(mem[l], cyc[l]) \in StopReasons
      BY StopReasonType DEF TypeOK
    <2>2. run' \in RunType
      BY <1>2, <2>1 DEF StopLoop, TypeOK, RunType
    <2>3. /\ pc' \in [Loops -> Places] /\ mem' \in [Loops -> RunType]
          /\ phase' \in [Loops -> Phases] /\ hand' \in [Loops -> HandType]
          /\ msg' \in [Loops -> Nat] /\ cyc' \in [Loops -> CycleType]
      BY <1>2, LeaveTypes DEF StopLoop
    <2> QED BY <1>2, <2>2, <2>3 DEF StopLoop, TypeOK
  <1>3. CASE NextCycle(l)
    <2>1. pc' \in [Loops -> Places]
      BY <1>3 DEF NextCycle, Goto, TypeOK, Places
    <2>2. [FreshCycle EXCEPT !.mode = cyc[l].mode, !.left = cyc[l].left,
                             !.grace = cyc[l].grace] \in CycleType
      BY ConstantTypes DEF TypeOK, CycleType
    <2>3. cyc' \in [Loops -> CycleType]
      BY <1>3, <2>2 DEF NextCycle, TypeOK
    <2> QED BY <1>3, <2>1, <2>3 DEF NextCycle, TypeOK
  <1> QED BY <1>1, <1>2, <1>3, <1>4 DEF SafePoint

\* What the operator does preserves the types.
LEMMA OperatorTypes ==
  ASSUME TypeOK, Operator
  PROVE  TypeOK'
  <1> USE DEF durable, world, limits, local
  <1>1. CASE InjectControlMessage
    BY <1>1 DEF InjectControlMessage, RecordControlMessage, TypeOK
  <1>2. CASE SetStopFlag
    BY <1>2 DEF SetStopFlag, TypeOK
  <1>3. CASE ClearStopFlag
    BY <1>3 DEF ClearStopFlag, TypeOK
  <1>4. CASE AnswerApproval
    <2>1. run \in RunType
      BY DEF TypeOK
    <2>2. \A answer \in {"granted", "denied"} :
            [run.turn EXCEPT !.status = "in_progress", !.approval = answer]
              \in TurnType
      BY <2>1 DEF RunType, TurnType
    <2>3. PICK answer \in {"granted", "denied"} :
            control' = [kind |-> "executor",
                        turn |-> [run.turn EXCEPT !.status = "in_progress",
                                                  !.approval = answer]]
      BY <1>4 DEF AnswerApproval
    <2>4. control' \in ControlType
      BY <2>2, <2>3 DEF ControlType
    <2> QED BY <1>4, <2>4 DEF AnswerApproval, TypeOK
  <1>5. CASE SaveExecutorControl
    <2>1. Cleared(run) \in RunType /\ control.turn \in TurnType
      BY ClearedType DEF TypeOK, ControlType
    <2>2. run' \in RunType
      BY <1>5, <2>1 DEF SaveExecutorControl, RunType
    <2> QED BY <1>5, <2>2, ConstantTypes DEF SaveExecutorControl, TypeOK
  <1>6. CASE ControlExecutor \/ AnswerWorker
    <2>1. PICK kind \in {"executor", "workers"} : BeginCommand(kind)
      BY <1>6 DEF ControlExecutor, AnswerWorker
    <2>2. control' \in ControlType
      <3>1. run.turn \in TurnType
        BY DEF TypeOK, RunType
      <3> QED BY <2>1, <3>1 DEF BeginCommand, ControlType
    <2> QED BY <2>1, <2>2 DEF BeginCommand, TypeOK
  <1>7. CASE RefreshWorkerRunStopReason
    <2>1. run' \in RunType
      <3>1. PICK reason \in {"", "executor_approval_required"} :
              run' = [run EXCEPT !.stop = reason]
        BY <1>7 DEF RefreshWorkerRunStopReason
      <3>2. reason \in StopReasons
        BY DEF StopReasons
      <3> QED BY <3>1, <3>2 DEF TypeOK, RunType
    <2> QED BY <1>7, <2>1, ConstantTypes DEF RefreshWorkerRunStopReason, TypeOK
  <1> QED BY <1>1, <1>2, <1>3, <1>4, <1>5, <1>6, <1>7 DEF Operator, SideChatAction

\* Crashes and failing calls preserve the types.
LEMMA DisturbanceTypes ==
  ASSUME TypeOK, NEW l \in Loops, Crash(l) \/ StoreFault(l) \/ SafePointFault(l)
  PROVE  TypeOK'
  <1> USE DEF durable, world
  <1>1. CASE Crash(l)
    BY <1>1, LeaveTypes, SMTT(20) DEF Crash, TypeOK
  <1>2. CASE StoreFault(l)
    <2>1. pc' \in [Loops -> Places] /\ cyc' \in [Loops -> CycleType]
      BY <1>2, AbortTypes DEF StoreFault
    <2> QED BY <1>2, <2>1 DEF StoreFault, TypeOK
  <1>3. CASE SafePointFault(l)
    BY <1>3, LeaveTypes, SMTT(20) DEF SafePointFault, TypeOK
  <1> QED BY <1>1, <1>2, <1>3

\* Every reachable state has the shape the store and the Go structs give it,
\* for any number of loops, messages, crashes and faults.
THEOREM TypeCorrect == Spec => []TypeOK
  <1>1. TypeOK /\ [Next]_vars => TypeOK'
    <2> SUFFICES ASSUME TypeOK, [Next]_vars PROVE TypeOK'
      OBVIOUS
    <2>1. CASE UNCHANGED vars
      BY <2>1 DEF vars, durable, world, limits, local, TypeOK
    <2>2. CASE Operator
      BY <2>2, OperatorTypes
    <2>3. ASSUME NEW l \in Loops,
                 \/ Resume(l) \/ Step(l) \/ Human(l) \/ Executor(l) \/ Workers(l)
                 \/ Crash(l) \/ StoreFault(l) \/ SafePointFault(l)
          PROVE  TypeOK'
      BY <2>3, StartTypes, PlannerTypes, BeforeActionTypes, HumanTypes,
         ExecutorTypes, ActionTypes, WorkersTypes, SafePointTypes, DisturbanceTypes
         DEF Step
    <2> QED BY <2>1, <2>2, <2>3 DEF Next
  <1> QED BY <1>1, InitTypes, PTL DEF Spec

-----------------------------------------------------------------------------
(* The history of a run.  A copy of the run row is a snapshot: it agrees   *)
(* with some recorded checkpoint.  A free sequence number then means that  *)
(* the copy is the latest one, however many loops work on the run.         *)

SameHistory(r, q) == /\ r.seq = q.seq /\ r.planner = q.planner
                     /\ r.exec = q.exec /\ r.resp = q.resp

SnapshotOf(r, rows) == \E c \in rows : SameHistory(r, c)

HistoryInv ==
  /\ CheckpointsLinear
  /\ ResponseChain
  /\ Bootstrap \in checkpoints
  /\ SnapshotOf(run, checkpoints)
  /\ \A l \in Loops : SnapshotOf(mem[l], checkpoints)

\* A step that adds no checkpoint leaves the history columns alone and, at
\* most, reloads or drops copies of the run row.
Quiet ==
  /\ checkpoints' = checkpoints
  /\ SameHistory(run', run)
  /\ \A l \in Loops : \/ SameHistory(mem'[l], mem[l])
                      \/ SameHistory(mem'[l], run)
                      \/ SameHistory(mem'[l], NewRun)

\* Writing other columns of the row keeps the history invariant.
LEMMA ColumnsKeepHistory ==
  ASSUME NEW r \in RunType
  PROVE  /\ SameHistory(r, r)
         /\ SameHistory(Cleared(r), r)
         /\ \A reason : SameHistory(WithIssue(r, reason), r)
         /\ \A reason : SameHistory([r EXCEPT !.stop = reason], r)
         /\ \A turn : SameHistory([Cleared(r) EXCEPT !.turn = turn], r)
         /\ \A id : SameHistory([r EXCEPT !.turn.id = id], r)
  BY DEF RunType, SameHistory, Cleared, WithIssue

\* A loop that returns writes nothing and copies nothing but the row.
LEMMA LeaveKeepsHistory ==
  ASSUME TypeOK, NEW l \in Loops, Leave(l),
         checkpoints' = checkpoints, SameHistory(run', run)
  PROVE  Quiet
  <1>1. \A k \in Loops : mem'[k] = mem[k] \/ mem'[k] = NewRun
    BY DEF Leave, TypeOK
  <1> QED BY <1>1 DEF Quiet, SameHistory

\* All steps of a loop but the two that append a checkpoint are quiet: they add no
\* row and copy only what is on disk.
LEMMA LoopsAreQuiet ==
  ASSUME TypeOK, NEW l \in Loops,
         \/ Resume(l) \/ Step(l) \/ Human(l) \/ Executor(l) \/ Workers(l)
         \/ Crash(l) \/ StoreFault(l) \/ SafePointFault(l)
  PROVE  Quiet \/ SavePlannerTurn(l) \/ ExecutorCompletes(l)
  <1> USE DEF durable, world, limits, local
  <1>1. run \in RunType /\ mem[l] \in RunType /\ SameHistory(run, run)
    BY DEF TypeOK, SameHistory
  <1>2. ASSUME checkpoints' = checkpoints, SameHistory(run', run), mem' = mem
        PROVE  Quiet
    BY <1>2 DEF Quiet, SameHistory
  <1>3. ASSUME checkpoints' = checkpoints, SameHistory(run', run),
               NEW r, mem' = [mem EXCEPT ![l] = r],
               SameHistory(r, run) \/ SameHistory(r, mem[l])
        PROVE  Quiet
    BY <1>3 DEF Quiet, SameHistory, TypeOK
  <1>4. CASE Resume(l)
    <2>1. PICK mode \in AllModes, n \in Nat : Take(l, mode, n)
      BY <1>4, ResumeTakes
    <2> QED BY <1>1, <1>3, <2>1 DEF Take
  <1>5. CASE BeginCycle(l) \/ ContinueWorkerPlan(l)
    BY <1>1, <1>2, <1>5 DEF BeginCycle, PlanWithMessage, ContinueWorkerPlan
  <1>18. CASE WorkerTurnsReturn(l) \/ WorkersNeedApproval(l)
    <2>1. SameHistory(run', run)
      BY <1>1, <1>18, ColumnsKeepHistory DEF WorkerTurnsReturn, WorkersNeedApproval
    <2> QED BY <1>3, <1>18, <2>1 DEF WorkerTurnsReturn, WorkersNeedApproval
  <1>19. CASE WorkersSettled(l)
    <2>1. SameHistory(run', run)
      <3>1. run' = run \/ run' = [run EXCEPT !.stop = ""]
        BY <1>19 DEF WorkersSettled
      <3> QED BY <1>1, <3>1, ColumnsKeepHistory
    <2> QED BY <1>2, <1>3, <1>19, <2>1 DEF WorkersSettled
  <1>6. CASE Plan(l) \/ PlanFails(l) \/ SaveConflict(l)
             \/ PersistPendingAction(l) \/ ConsumeControlMessage(l)
    BY <1>1, <1>2, <1>6 DEF Plan, PlanFails, SaveConflict,
       PersistPendingAction, ConsumeControlMessage
  <1>7. CASE ReloadAfterTurn(l) \/ RefreshAfterAction(l)
    BY <1>1, <1>3, <1>7 DEF ReloadAfterTurn, RefreshAfterAction
  <1>8. CASE BeforeAction(l)
    BY <1>1, <1>2, <1>8 DEF BeforeAction, DriftReviewed, NoDriftReview,
       Intervene, BeginAction, NothingToDo
  <1>9. CASE Human(l)
    BY <1>1, <1>2, <1>9, ColumnsKeepHistory DEF Human, RecordHumanReply, AskFails
  <1>10. CASE CollectContext(l) \/ AskWorkers(l) \/ WorkersReport(l)
              \/ ContinueExecutorTurn(l)
    BY <1>1, <1>2, <1>10, ColumnsKeepHistory
    DEF CollectContext, AskWorkers, WorkersReport, SaveCollectedContext,
        ContinueExecutorTurn
  <1>11. CASE Dispatch(l)
    <2>1. mem' = [mem EXCEPT ![l] = [mem[l] EXCEPT !.turn.id = Len(dispatched) + 1]]
      BY <1>11 DEF Dispatch
    <2> QED BY <1>1, <1>3, <1>11, <2>1, ColumnsKeepHistory DEF Dispatch
  <1>12. CASE PersistRuntimeIssue(l)
    <2>1. SameHistory(run', run)
      BY <1>1, <1>12, ColumnsKeepHistory DEF PersistRuntimeIssue
    <2> QED BY <1>3, <1>12, <2>1 DEF PersistRuntimeIssue
  <1>13. CASE SaveApprovalStop(l)
    <2>1. mem' = [mem EXCEPT ![l] = [mem[l] EXCEPT
                                       !.stop = "executor_approval_required"]]
      BY <1>13 DEF SaveApprovalStop
    <2> QED BY <1>1, <1>3, <1>13, <2>1, ColumnsKeepHistory DEF SaveApprovalStop
  <1>14. CASE \/ ExecutorConflict(l) \/ ExecutorNeedsApproval(l)
              \/ ExecutorFails(l) \/ ExecutorUnavailable(l)
    BY <1>1, <1>2, <1>14, ColumnsKeepHistory
    DEF ExecutorConflict, ExecutorNeedsApproval, ExecutorFails, ExecutorUnavailable
  <1>15. CASE ConsumeStopFlag(l) \/ CountCycle(l) \/ NextCycle(l) \/ StoreFault(l)
    BY <1>1, <1>2, <1>15
    DEF ConsumeStopFlag, CountCycle, CycleOver, NextCycle, StoreFault
  <1>16. CASE StopLoop(l)
    <2>1. SameHistory(run', run)
      BY <1>1, <1>16, ColumnsKeepHistory DEF StopLoop
    <2> QED BY <1>16, <2>1, LeaveKeepsHistory DEF StopLoop
  <1>17. CASE Crash(l) \/ SafePointFault(l)
    BY <1>1, <1>17, LeaveKeepsHistory DEF Crash, SafePointFault
  <1> QED
    BY <1>4, <1>5, <1>6, <1>7, <1>8, <1>9, <1>10, <1>11, <1>12, <1>13, <1>14,
       <1>15, <1>16, <1>17, <1>18, <1>19
    DEF Step, BeforePlan, PlannerTurn, Action, Executor, Workers, SafePoint

\* What the operator does adds no checkpoint.
LEMMA OperatorIsQuiet ==
  ASSUME TypeOK, Operator
  PROVE  Quiet
  <1>1. run \in RunType
    BY DEF TypeOK
  <1>2. checkpoints' = checkpoints /\ mem' = mem
    BY DEF Operator, SideChatAction, InjectControlMessage, SetStopFlag, ClearStopFlag,
       AnswerApproval, ControlExecutor, AnswerWorker, BeginCommand,
       SaveExecutorControl, RefreshWorkerRunStopReason, durable, local
  <1>3. SameHistory(run', run)
    BY <1>1, ColumnsKeepHistory
    DEF Operator, SideChatAction, InjectControlMessage, SetStopFlag, ClearStopFlag,
        AnswerApproval, ControlExecutor, AnswerWorker, BeginCommand,
        SaveExecutorControl, RefreshWorkerRunStopReason, durable
  <1> QED BY <1>2, <1>3 DEF Quiet, SameHistory

\* Quiet steps keep the history invariant.
LEMMA QuietKeepsHistory ==
  ASSUME HistoryInv, Quiet
  PROVE  HistoryInv'
  <1> USE DEF Quiet, SameHistory
  <1>1. CheckpointsLinear'
    BY DEF HistoryInv, CheckpointsLinear
  <1>2. ResponseChain'
    BY DEF HistoryInv, ResponseChain
  <1>3. SnapshotOf(run, checkpoints)'
    BY DEF HistoryInv, SnapshotOf
  <1>4. ASSUME NEW l \in Loops PROVE SnapshotOf(mem[l], checkpoints)'
    <2>1. CASE SameHistory(mem'[l], NewRun)
      BY <2>1 DEF HistoryInv, SnapshotOf, NewRun, Bootstrap
    <2>2. CASE SameHistory(mem'[l], mem[l]) \/ SameHistory(mem'[l], run)
      BY <2>2 DEF HistoryInv, SnapshotOf
    <2> QED BY <2>1, <2>2
  <1> QED BY <1>1, <1>2, <1>3, <1>4 DEF HistoryInv

\* A free sequence number is the one after the latest checkpoint: the copy it
\* was computed from is up to date.
LEMMA FreeMeansLatest ==
  ASSUME TypeOK, HistoryInv, NEW l \in Loops, SequenceFree(mem[l].seq + 1)
  PROVE  SameHistory(mem[l], run)
  <1>1. run \in RunType /\ mem[l] \in RunType /\ checkpoints \subseteq RowType
    BY DEF TypeOK
  <1>2. PICK c \in checkpoints : SameHistory(mem[l], c)
    BY DEF HistoryInv, SnapshotOf
  <1>3. PICK d \in checkpoints : SameHistory(run, d)
    BY DEF HistoryInv, SnapshotOf
  <1>4. mem[l].seq \in Nat /\ run.seq \in Nat
    BY <1>1 DEF RunType
  <1>5. mem[l].seq <= run.seq
    BY <1>2 DEF HistoryInv, CheckpointsLinear, SameHistory
  <1>6. mem[l].seq + 1 \notin 1..run.seq
    BY DEF SequenceFree, HistoryInv, CheckpointsLinear
  <1>7. mem[l].seq = run.seq
    BY <1>4, <1>5, <1>6
  <1>8. c = d
    <2>1. c.seq = d.seq
      BY <1>2, <1>3, <1>7 DEF SameHistory
    <2> QED BY <2>1 DEF HistoryInv, CheckpointsLinear
  <1> QED BY <1>2, <1>3, <1>8 DEF SameHistory

\* Appending the row after the latest keeps the history invariant.
LEMMA AppendKeepsHistory ==
  ASSUME TypeOK, HistoryInv,
         NEW row \in RowType,
         row.seq = run.seq + 1,
         row.planner + row.exec = run.planner + run.exec + 1,
         row.prev = run.resp,
         checkpoints' = checkpoints \union {row},
         SameHistory(run', row),
         mem' = mem
  PROVE  HistoryInv'
  <1>1. run \in RunType /\ checkpoints \subseteq RowType
    BY DEF TypeOK
  <1>2. /\ run.seq \in Nat /\ run.planner \in Nat /\ run.exec \in Nat
        /\ row.seq \in Nat /\ row.planner \in Nat /\ row.exec \in Nat
        /\ \A c \in checkpoints :
             c.seq \in Nat /\ c.planner \in Nat /\ c.exec \in Nat
    BY <1>1 DEF RunType, RowType
  <1>3. /\ \A c \in checkpoints : c.seq <= run.seq
        /\ \A s \in 1..run.seq : \E c \in checkpoints : c.seq = s
        /\ \A c, d \in checkpoints : c.seq = d.seq => c = d
        /\ \A c \in checkpoints : c.seq = 1 + c.planner + c.exec
        /\ run.seq = 1 + run.planner + run.exec
    BY DEF HistoryInv, CheckpointsLinear
  <1>4. /\ run'.seq = run.seq + 1 /\ run'.planner = row.planner
        /\ run'.exec = row.exec /\ run'.resp = row.resp
    BY DEF SameHistory
  <1>5. CheckpointsLinear'
    <2>1. \A c \in checkpoints' : c.seq <= run'.seq
      BY <1>2, <1>3, <1>4
    <2>2. \A s \in 1..run'.seq : \E c \in checkpoints' : c.seq = s
      <3>1. \A s \in 1..run'.seq : s \in 1..run.seq \/ s = row.seq
        BY <1>2, <1>4
      <3> QED BY <1>3, <3>1
    <2>3. \A c, d \in checkpoints' : c.seq = d.seq => c = d
      <3>1. \A c \in checkpoints : c.seq # row.seq
        BY <1>2, <1>3
      <3> QED BY <1>3, <3>1
    <2>4. \A c \in checkpoints' : c.seq = 1 + c.planner + c.exec
      BY <1>2, <1>3
    <2>5. run'.seq = 1 + run'.planner + run'.exec
      BY <1>2, <1>3, <1>4
    <2> QED BY <2>1, <2>2, <2>3, <2>4, <2>5 DEF CheckpointsLinear
  <1>6. ResponseChain'
    <2>1. /\ \A c, d \in checkpoints : d.seq = c.seq + 1 => d.prev = c.resp
          /\ \A c \in checkpoints : c.seq = run.seq => run.resp = c.resp
      BY DEF HistoryInv, ResponseChain
    <2>2. \A c, d \in checkpoints' : d.seq = c.seq + 1 => d.prev = c.resp
      <3>1. ASSUME NEW c \in checkpoints, row.seq = c.seq + 1
            PROVE  row.prev = c.resp
        <4> DEFINE here == c.seq
                   last == run.seq
        <4>1. here \in Nat /\ last \in Nat /\ last + 1 = here + 1
          BY <1>2, <3>1
        <4> HIDE DEF here, last
        <4>2. here = last
          BY <4>1
        <4> USE DEF here, last
        <4> QED BY <2>1, <4>2
      <3>2. \A d \in checkpoints : d.seq # row.seq + 1
        BY <1>2, <1>3
      <3>3. row.seq # row.seq + 1
        BY <1>2
      <3> QED BY <2>1, <3>1, <3>2, <3>3
    <2>3. \A c \in checkpoints' : c.seq = run'.seq => run'.resp = c.resp
      <3>1. \A c \in checkpoints : c.seq # run'.seq
        BY <1>2, <1>3, <1>4
      <3> QED BY <1>4, <3>1
    <2> QED BY <2>2, <2>3 DEF ResponseChain
  <1>7. /\ Bootstrap \in checkpoints'
        /\ SnapshotOf(run, checkpoints)'
        /\ \A l \in Loops : SnapshotOf(mem[l], checkpoints)'
    BY DEF HistoryInv, SnapshotOf
  <1> QED BY <1>5, <1>6, <1>7 DEF HistoryInv

\* A saved planner turn keeps the history invariant.
LEMMA PlannerTurnKeepsHistory ==
  ASSUME TypeOK, HistoryInv, NEW l \in Loops, SavePlannerTurn(l)
  PROVE  HistoryInv'
  <1>1. SameHistory(mem[l], run)
    BY FreeMeansLatest DEF SavePlannerTurn
  <1>2. run \in RunType /\ hand[l] \in HandType /\ mem[l] \in RunType /\ msg[l] \in Nat
    BY DEF TypeOK
  <1>3. /\ PlannerRow(l) \in RowType
        /\ PlannerRow(l).seq = run.seq + 1
        /\ PlannerRow(l).planner + PlannerRow(l).exec = run.planner + run.exec + 1
        /\ PlannerRow(l).prev = run.resp
    BY <1>1, <1>2 DEF PlannerRow, RowType, RunType, HandType, SameHistory
  <1>4. SameHistory(run', PlannerRow(l))
    BY <1>2 DEF SavePlannerTurn, PlannerRow, SameHistory, Cleared, RunType
  <1>5. checkpoints' = checkpoints \union {PlannerRow(l)} /\ mem' = mem
    BY DEF SavePlannerTurn
  <1> QED BY <1>3, <1>4, <1>5, AppendKeepsHistory

\* A saved executor turn keeps the history invariant.
LEMMA ExecutorTurnKeepsHistory ==
  ASSUME TypeOK, HistoryInv, NEW l \in Loops, ExecutorCompletes(l)
  PROVE  HistoryInv'
  <1>1. SameHistory(mem[l], run)
    BY FreeMeansLatest DEF ExecutorCompletes
  <1>2. run \in RunType /\ mem[l] \in RunType
    BY DEF TypeOK
  <1>3. /\ ExecutorRow(l) \in RowType
        /\ ExecutorRow(l).seq = run.seq + 1
        /\ ExecutorRow(l).planner + ExecutorRow(l).exec = run.planner + run.exec + 1
        /\ ExecutorRow(l).prev = run.resp
    BY <1>1, <1>2 DEF ExecutorRow, RowType, RunType, SameHistory
  <1>4. SameHistory(run', ExecutorRow(l))
    BY <1>2 DEF ExecutorCompletes, ExecutorRow, SameHistory, Cleared, RunType
  <1>5. checkpoints' = checkpoints \union {ExecutorRow(l)} /\ mem' = mem
    BY DEF ExecutorCompletes
  <1> QED BY <1>3, <1>4, <1>5, AppendKeepsHistory

\* The history of a new run is its bootstrap checkpoint.
LEMMA InitHistory == Init => HistoryInv
  <1> SUFFICES ASSUME Init PROVE HistoryInv
    OBVIOUS
  <1>1. checkpoints = {Bootstrap} /\ run = NewRun /\ \A l \in Loops : mem[l] = NewRun
    BY DEF Init
  <1>2. SameHistory(NewRun, Bootstrap)
    BY DEF SameHistory, NewRun, Bootstrap
  <1>3. /\ run.seq = 1 /\ run.planner = 0 /\ run.exec = 0 /\ run.resp = 0
        /\ \A c \in checkpoints : /\ c = Bootstrap /\ c.seq = 1 /\ c.planner = 0
                                 /\ c.exec = 0 /\ c.resp = 0
    <2>1. /\ Bootstrap.seq = 1 /\ Bootstrap.planner = 0
          /\ Bootstrap.exec = 0 /\ Bootstrap.resp = 0
      BY DEF Bootstrap
    <2>2. \A c \in checkpoints : c = Bootstrap
      BY <1>1
    <2>3. /\ NewRun.seq = 1 /\ NewRun.planner = 0
          /\ NewRun.exec = 0 /\ NewRun.resp = 0
      BY DEF NewRun
    <2> QED BY <1>1, <2>1, <2>2, <2>3
  <1>4. \A s \in 1..run.seq : s = Bootstrap.seq
    BY <1>1, <1>3
  <1>5. CheckpointsLinear
    BY <1>1, <1>3, <1>4 DEF CheckpointsLinear
  <1>6. ResponseChain
    BY <1>1, <1>3 DEF ResponseChain
  <1> QED BY <1>1, <1>2, <1>5, <1>6 DEF HistoryInv, SnapshotOf

\* The history invariant holds throughout.
LEMMA HistoryInvariant == Spec => []HistoryInv
  <1>1. TypeOK /\ HistoryInv /\ [Next]_vars => HistoryInv'
    <2> SUFFICES ASSUME TypeOK, HistoryInv, [Next]_vars PROVE HistoryInv'
      OBVIOUS
    <2>1. CASE UNCHANGED vars
      <3>1. Quiet
        BY <2>1 DEF vars, durable, local, Quiet, SameHistory
      <3> QED BY <3>1, QuietKeepsHistory
    <2>2. CASE Operator
      BY <2>2, OperatorIsQuiet, QuietKeepsHistory
    <2>3. ASSUME NEW l \in Loops,
                 \/ Resume(l) \/ Step(l) \/ Human(l) \/ Executor(l) \/ Workers(l)
                 \/ Crash(l) \/ StoreFault(l) \/ SafePointFault(l)
          PROVE  HistoryInv'
      BY <2>3, LoopsAreQuiet, QuietKeepsHistory, PlannerTurnKeepsHistory,
         ExecutorTurnKeepsHistory
    <2> QED BY <2>1, <2>2, <2>3 DEF Next
  <1> QED BY <1>1, InitHistory, TypeCorrect, PTL DEF Spec

\* Whatever loops, crashes and faults do to the order of the store calls, the
\* checkpoints of a run are one unbroken line that counts its turns.
THEOREM CheckpointsStayLinear == Spec => []CheckpointsLinear
  <1>1. HistoryInv => CheckpointsLinear
    BY DEF HistoryInv
  <1> QED BY <1>1, HistoryInvariant, PTL

\* The planner conversation of a run never forks: each recorded turn was
\* planned from the response recorded just before it.
THEOREM ConversationNeverForks == Spec => []ResponseChain
  <1>1. HistoryInv => ResponseChain
    BY DEF HistoryInv
  <1> QED BY <1>1, HistoryInvariant, PTL

-----------------------------------------------------------------------------
(* The history.  What is above shows that a turn is only recorded on top  *)
(* of the latest one; what is left is that its response is new, and that   *)
(* the sequence of turns is extended at its end and nowhere else.          *)

\* Responses are new when they are saved.

FreshInv ==
  /\ \A c \in checkpoints : c.resp <= issued
  /\ \A l \in Loops : hand[l].resp <= issued
  /\ \A l \in Loops : pc[l] = "save" =>
       /\ hand[l].resp \in 1..MaxTurns
       /\ \A c \in checkpoints : c.resp # hand[l].resp
       /\ \A k \in Loops \ {l} : hand[k].resp # hand[l].resp

\* A step that lets a loop keep or drop its planner turn, and brings none.
KeepsHands ==
  /\ issued' = issued
  /\ \A k \in Loops : /\ hand'[k] = hand[k] \/ hand'[k] = EmptyHand
                      /\ pc'[k] = "save" => pc[k] = "save" /\ hand'[k] = hand[k]

\* Dropping a loop's memory drops its planner turn.
LEMMA LeaveKeepsHands ==
  ASSUME TypeOK, NEW l \in Loops, Leave(l), issued' = issued
  PROVE  KeepsHands
  BY DEF Leave, Goto, KeepsHands, TypeOK

\* Every step of a loop but the planner call keeps or drops planner turns.
LEMMA OnlyPlanBringsTurns ==
  ASSUME TypeOK, NEW l \in Loops,
         \/ Resume(l) \/ Step(l) \/ Human(l) \/ Executor(l) \/ Workers(l)
         \/ Crash(l) \/ StoreFault(l) \/ SafePointFault(l)
  PROVE  KeepsHands \/ Plan(l)
  <1> USE DEF durable, world, limits, local
  <1>1. ASSUME issued' = issued, hand' = hand,
               NEW place, place # "save", pc' = [pc EXCEPT ![l] = place]
        PROVE  KeepsHands
    BY <1>1 DEF KeepsHands, TypeOK
  <1>2. CASE Resume(l)
    <2>1. PICK mode \in AllModes, n \in Nat : Take(l, mode, n)
      BY <1>2, ResumeTakes
    <2> QED BY <1>1, <2>1 DEF Take, Goto
  <1>3. CASE BeforePlan(l)
    BY <1>1, <1>3 DEF BeforePlan, BeginCycle, PlanWithMessage, ContinueWorkerPlan,
       WorkersNeedApproval, WorkersSettled, Goto
  <1>15. CASE Workers(l)
    BY <1>1, <1>15
    DEF Workers, WorkerTurnsReturn, WorkersReport, SaveCollectedContext, Goto
  <1>4. CASE PlanFails(l)
    BY <1>1, <1>4 DEF PlanFails, Fails, Goto
  <1>5. CASE SavePlannerTurn(l) \/ SaveConflict(l)
    BY <1>1, <1>5 DEF SavePlannerTurn, SaveConflict, Abort, Goto
  <1>6. CASE ReloadAfterTurn(l)
    BY <1>1, <1>6 DEF ReloadAfterTurn, Goto
  <1>7. CASE PersistPendingAction(l) \/ ConsumeControlMessage(l)
    BY <1>1, <1>7, AfterTurnPlace
    DEF PersistPendingAction, ConsumeControlMessage, Goto
  <1>8. CASE BeforeAction(l)
    <2>1. ASSUME hand[l].outcome \in DOMAIN ActionPlace
          PROVE  ActionPlace[hand[l].outcome] # "save"
      BY <2>1 DEF ActionPlace
    <2> QED
      BY <1>1, <1>8, <2>1 DEF BeforeAction, DriftReviewed, NoDriftReview,
         Intervene, BeginAction, NothingToDo, Goto
  <1>9. CASE Human(l)
    BY <1>1, <1>9 DEF Human, RecordHumanReply, AskFails, Fails, Goto
  <1>10. CASE Executor(l)
    BY <1>1, <1>10 DEF Executor, ExecutorCompletes, ExecutorConflict,
       ExecutorNeedsApproval, ExecutorFails, ExecutorUnavailable, Abort, Fails, Goto
  <1>11. CASE Action(l)
    BY <1>1, <1>11 DEF Action, CollectContext, SaveCollectedContext, AskWorkers,
       Dispatch, ContinueExecutorTurn, PersistRuntimeIssue, RefreshAfterAction,
       SaveApprovalStop, Abort, Goto
  <1>12. CASE ConsumeStopFlag(l) \/ CountCycle(l)
    BY <1>12 DEF ConsumeStopFlag, CountCycle, CycleOver, KeepsHands, Goto, TypeOK
  <1>13. CASE StopLoop(l) \/ Crash(l) \/ SafePointFault(l)
    BY <1>13, LeaveKeepsHands DEF StopLoop, Crash, SafePointFault
  <1>14. CASE NextCycle(l) \/ StoreFault(l)
    BY <1>1, <1>14 DEF NextCycle, StoreFault, Abort, Goto
  <1> QED
    BY <1>2, <1>3, <1>4, <1>5, <1>6, <1>7, <1>8, <1>9, <1>10, <1>11, <1>12,
       <1>13, <1>14, <1>15 DEF Step, PlannerTurn, SafePoint

\* The row a step adds, if any, has the response in hand or the latest one.
LEMMA RowsAreSavedTurns ==
  ASSUME TypeOK, HistoryInv, NEW l \in Loops,
         \/ SavePlannerTurn(l)
         \/ ExecutorCompletes(l)
  PROVE  \A c \in checkpoints' :
           \/ \E d \in checkpoints : c.resp = d.resp
           \/ SavePlannerTurn(l) /\ c.resp = hand[l].resp
  <1>1. CASE SavePlannerTurn(l)
    BY <1>1 DEF SavePlannerTurn, PlannerRow
  <1>2. CASE ExecutorCompletes(l)
    <2>1. \E d \in checkpoints : run.resp = d.resp
      BY DEF HistoryInv, SnapshotOf, SameHistory
    <2> QED BY <1>2, <2>1 DEF ExecutorCompletes, ExecutorRow
  <1> QED BY <1>1, <1>2

\* Keeping hands and rows keeps what is known of the responses.
LEMMA QuietKeepsFresh ==
  ASSUME TypeOK, FreshInv, KeepsHands,
         \A c \in checkpoints' : \E d \in checkpoints : c.resp = d.resp
  PROVE  FreshInv'
  <1>1. /\ issued \in Nat /\ EmptyHand.resp = 0
        /\ \A l \in Loops : hand[l].resp \in Nat
    BY ConstantsAssumption DEF TypeOK, EmptyHand, HandType
  <1>2. \A c \in checkpoints' : c.resp <= issued'
    BY DEF FreshInv, KeepsHands
  <1>3. \A l \in Loops : hand'[l].resp <= issued'
    BY <1>1 DEF FreshInv, KeepsHands
  <1>4. ASSUME NEW l \in Loops, pc'[l] = "save"
        PROVE  /\ hand'[l].resp \in 1..MaxTurns
               /\ \A c \in checkpoints' : c.resp # hand'[l].resp
               /\ \A k \in Loops \ {l} : hand'[k].resp # hand'[l].resp
    <2>1. pc[l] = "save" /\ hand'[l] = hand[l]
      BY <1>4 DEF KeepsHands
    <2>2. /\ hand[l].resp \in 1..MaxTurns
          /\ \A c \in checkpoints : c.resp # hand[l].resp
          /\ \A k \in Loops \ {l} : hand[k].resp # hand[l].resp
      BY <2>1 DEF FreshInv
    <2>3. hand[l].resp # 0
      BY <2>2, ConstantsAssumption
    <2> QED BY <1>1, <2>1, <2>2, <2>3 DEF KeepsHands
  <1> QED BY <1>2, <1>3, <1>4 DEF FreshInv

\* A saved turn leaves the place "save", and the others hold other responses.
LEMMA SaveKeepsFresh ==
  ASSUME TypeOK, HistoryInv, FreshInv, NEW l \in Loops, SavePlannerTurn(l)
  PROVE  FreshInv'
  <1>1. /\ hand' = hand /\ issued' = issued /\ pc[l] = "save"
        /\ \A k \in Loops : pc'[k] = "save" => pc[k] = "save" /\ k # l
    BY DEF SavePlannerTurn, Goto, TypeOK, world
  <1>2. \A c \in checkpoints' :
          (\E d \in checkpoints : c.resp = d.resp) \/ c.resp = hand[l].resp
    BY RowsAreSavedTurns
  <1>3. \A c \in checkpoints' : c.resp <= issued'
    BY <1>1, <1>2 DEF FreshInv
  <1>4. \A k \in Loops : hand'[k].resp <= issued'
    BY <1>1 DEF FreshInv
  <1>5. ASSUME NEW k \in Loops, pc'[k] = "save"
        PROVE  /\ hand'[k].resp \in 1..MaxTurns
               /\ \A c \in checkpoints' : c.resp # hand'[k].resp
               /\ \A j \in Loops \ {k} : hand'[j].resp # hand'[k].resp
    <2>1. pc[k] = "save" /\ k # l
      BY <1>1, <1>5
    <2>2. /\ hand[k].resp \in 1..MaxTurns
          /\ \A c \in checkpoints : c.resp # hand[k].resp
          /\ \A j \in Loops \ {k} : hand[j].resp # hand[k].resp
      BY <2>1 DEF FreshInv
    <2> QED BY <1>1, <1>2, <2>1, <2>2
  <1> QED BY <1>3, <1>4, <1>5 DEF FreshInv

\* The planner's response has a number of its own.
LEMMA PlanKeepsFresh ==
  ASSUME TypeOK, FreshInv, NEW l \in Loops, Plan(l)
  PROVE  FreshInv'
  <1>1. /\ issued' = issued + 1 /\ checkpoints' = checkpoints
        /\ hand'[l].resp = issued + 1 /\ issued < MaxTurns
        /\ \A k \in Loops \ {l} : hand'[k] = hand[k] /\ pc'[k] = pc[k]
    BY DEF Plan, Goto, TypeOK, durable
  <1>2. /\ issued \in Nat /\ MaxTurns \in Nat
        /\ \A k \in Loops : hand[k].resp \in Nat
        /\ \A c \in checkpoints : c.resp \in Nat
    BY ConstantsAssumption, SMTT(20) DEF TypeOK, HandType, RowType
  <1>3. /\ \A c \in checkpoints : c.resp <= issued
        /\ \A k \in Loops : hand[k].resp <= issued
    BY DEF FreshInv
  <1>4. \A c \in checkpoints' : c.resp <= issued' /\ c.resp # issued + 1
    BY <1>1, <1>2, <1>3
  <1>5. \A k \in Loops : hand'[k].resp <= issued'
    BY <1>1, <1>2, <1>3
  <1>6. \A k \in Loops \ {l} : hand'[k].resp # issued + 1
    BY <1>1, <1>2, <1>3
  <1>7. ASSUME NEW k \in Loops, pc'[k] = "save"
        PROVE  /\ hand'[k].resp \in 1..MaxTurns
               /\ \A c \in checkpoints' : c.resp # hand'[k].resp
               /\ \A j \in Loops \ {k} : hand'[j].resp # hand'[k].resp
    <2>1. CASE k = l
      <3>1. issued + 1 \in 1..MaxTurns
        BY <1>1, <1>2
      <3> QED BY <1>1, <1>4, <1>6, <2>1, <3>1
    <2>2. CASE k # l
      <3>1. pc[k] = "save" /\ hand'[k] = hand[k]
        BY <1>1, <1>7, <2>2
      <3>2. /\ hand[k].resp \in 1..MaxTurns
            /\ \A c \in checkpoints : c.resp # hand[k].resp
            /\ \A j \in Loops \ {k} : hand[j].resp # hand[k].resp
        BY <3>1 DEF FreshInv
      <3> QED BY <1>1, <1>6, <2>2, <3>1, <3>2
    <2> QED BY <2>1, <2>2
  <1> QED BY <1>4, <1>5, <1>7 DEF FreshInv

\* The operator touches neither rows nor planner turns.
LEMMA OperatorKeepsHands ==
  ASSUME TypeOK, Operator
  PROVE  KeepsHands /\ checkpoints' = checkpoints
  BY DEF Operator, SideChatAction, InjectControlMessage, SetStopFlag, ClearStopFlag,
     AnswerApproval, ControlExecutor, AnswerWorker, BeginCommand,
     SaveExecutorControl, RefreshWorkerRunStopReason, durable, world, local, KeepsHands

\* A response is new when its turn is saved, whatever the loops do.
LEMMA FreshInvariant == Spec => []FreshInv
  <1>1. Init => FreshInv
    <2> SUFFICES ASSUME Init PROVE FreshInv
      OBVIOUS
    <2>1. /\ issued = 0 /\ checkpoints = {Bootstrap} /\ Bootstrap.resp = 0
          /\ \A l \in Loops : pc[l] = "off" /\ hand[l].resp = 0
      BY DEF Init, Bootstrap, EmptyHand
    <2> QED BY <2>1 DEF FreshInv
  <1>2. TypeOK /\ HistoryInv /\ FreshInv /\ [Next]_vars => FreshInv'
    <2> SUFFICES ASSUME TypeOK, HistoryInv, FreshInv, [Next]_vars PROVE FreshInv'
      OBVIOUS
    <2>1. CASE UNCHANGED vars
      BY <2>1, QuietKeepsFresh DEF vars, durable, world, local, KeepsHands
    <2>2. CASE Operator
      BY <2>2, OperatorKeepsHands, QuietKeepsFresh
    <2>3. ASSUME NEW l \in Loops,
                 \/ Resume(l) \/ Step(l) \/ Human(l) \/ Executor(l) \/ Workers(l)
                 \/ Crash(l) \/ StoreFault(l) \/ SafePointFault(l)
          PROVE  FreshInv'
      <3>1. CASE Plan(l)
        BY <3>1, PlanKeepsFresh
      <3>2. CASE SavePlannerTurn(l)
        BY <3>2, SaveKeepsFresh
      <3>3. CASE ~Plan(l) /\ ~SavePlannerTurn(l)
        <4>1. KeepsHands
          BY <2>3, <3>3, OnlyPlanBringsTurns
        <4>2. CASE ExecutorCompletes(l)
          BY <3>3, <4>1, <4>2, RowsAreSavedTurns, QuietKeepsFresh
        <4>3. CASE ~ExecutorCompletes(l)
          <5>1. checkpoints' = checkpoints
            BY <2>3, <3>3, <4>3, LoopsAreQuiet DEF Quiet
          <5> QED BY <4>1, <5>1, QuietKeepsFresh
        <4> QED BY <4>2, <4>3
      <3> QED BY <3>1, <3>2, <3>3
    <2> QED BY <2>1, <2>2, <2>3 DEF Next
  <1> QED BY <1>1, <1>2, TypeCorrect, HistoryInvariant, PTL DEF Spec

-----------------------------------------------------------------------------
(* The turns of the abstract history.                                      *)

TurnSet == [by : {"bootstrap", "planner", "executor"}, from : Nat, response : Nat]

\* Every number up to the latest has its row, and the row its turn.
LEMMA RecordedTurns ==
  TypeOK /\ HistoryInv =>
         /\ Recorded \in Seq(TurnSet)
         /\ Len(Recorded) = run.seq
         /\ run.seq \in Nat \ {0}
         /\ \A i \in 1..run.seq : /\ RowAt(i) \in checkpoints
                                  /\ RowAt(i).seq = i
                                  /\ Recorded[i] = Turn(RowAt(i))
  <1> SUFFICES ASSUME TypeOK, HistoryInv
               PROVE  /\ Recorded \in Seq(TurnSet)
                      /\ Len(Recorded) = run.seq
                      /\ run.seq \in Nat \ {0}
                      /\ \A i \in 1..run.seq : /\ RowAt(i) \in checkpoints
                                               /\ RowAt(i).seq = i
                                               /\ Recorded[i] = Turn(RowAt(i))
    OBVIOUS
  <1>1. run.seq \in Nat \ {0} /\ checkpoints \subseteq RowType
    BY DEF TypeOK, RunType
  <1>2. \A i \in 1..run.seq : RowAt(i) \in checkpoints /\ RowAt(i).seq = i
    BY DEF HistoryInv, CheckpointsLinear, RowAt
  <1>3. \A c \in RowType : Turn(c) \in TurnSet
    BY DEF RowType, Turn, TurnSet
  <1>4. \A i \in 1..run.seq : Turn(RowAt(i)) \in TurnSet
    BY <1>1, <1>2, <1>3
  <1>5. Recorded \in Seq(TurnSet) /\ Len(Recorded) = run.seq
    BY <1>1, <1>4 DEF Recorded
  <1> QED BY <1>1, <1>2, <1>5 DEF Recorded

\* The latest turn carries the response of the run row.
LEMMA LatestIsRunResponse ==
  ASSUME TypeOK, HistoryInv
  PROVE  History!Latest = run.resp
  <1>1. /\ Len(Recorded) = run.seq /\ run.seq \in 1..run.seq
        /\ RowAt(run.seq) \in checkpoints /\ RowAt(run.seq).seq = run.seq
        /\ Recorded[run.seq] = Turn(RowAt(run.seq))
    BY RecordedTurns
  <1>2. RowAt(run.seq).resp = run.resp
    BY <1>1 DEF HistoryInv, ResponseChain
  <1> QED BY <1>1, <1>2 DEF History!Latest, Turn

\* A new row at the next number appends its turn: the other numbers keep the
\* row they name.
LEMMA NewRowAppends ==
  ASSUME TypeOK, HistoryInv, TypeOK', HistoryInv',
         NEW row \in RowType, row.seq = run.seq + 1, run'.seq = row.seq,
         checkpoints' = checkpoints \union {row}
  PROVE  Recorded' = Append(Recorded, Turn(row))
  <1> DEFINE after == Append(Recorded, Turn(row))
  <1>1. /\ Recorded \in Seq(TurnSet) /\ Len(Recorded) = run.seq
        /\ run.seq \in Nat
        /\ \A i \in 1..run.seq : /\ RowAt(i) \in checkpoints /\ RowAt(i).seq = i
                                 /\ Recorded[i] = Turn(RowAt(i))
    BY RecordedTurns
  <1>2. /\ Recorded' \in Seq(TurnSet) /\ Len(Recorded') = run.seq + 1
        /\ \A i \in 1..(run.seq + 1) :
             RowAt(i)' \in checkpoints' /\ RowAt(i)'.seq = i
        /\ \A i \in 1..(run.seq + 1) : Recorded'[i] = Turn(RowAt(i)')
    <2>1. (TypeOK /\ HistoryInv =>
             /\ Recorded \in Seq(TurnSet)
             /\ Len(Recorded) = run.seq
             /\ run.seq \in Nat \ {0}
             /\ \A i \in 1..run.seq : /\ RowAt(i) \in checkpoints
                                      /\ RowAt(i).seq = i
                                      /\ Recorded[i] = Turn(RowAt(i)))'
      BY RecordedTurns, PTL
    <2>2. run'.seq = run.seq + 1
      OBVIOUS
    <2>3. /\ Recorded' \in Seq(TurnSet) /\ Len(Recorded') = run'.seq
          /\ \A i \in 1..run'.seq : RowAt(i)' \in checkpoints' /\ RowAt(i)'.seq = i
      BY <2>1
    <2>4. \A i \in 1..run'.seq : Recorded'[i] = Turn(RowAt(i)')
      BY <2>1 DEF Turn
    <2> QED BY <2>2, <2>3, <2>4
  <1>3. \A c, d \in checkpoints' : c.seq = d.seq => c = d
    BY DEF HistoryInv, CheckpointsLinear
  <1>4. Turn(row) \in TurnSet
    BY DEF RowType, Turn, TurnSet
  <1>5. /\ after \in Seq(TurnSet) /\ Len(after) = run.seq + 1
        /\ \A i \in 1..run.seq : after[i] = Recorded[i]
        /\ after[run.seq + 1] = Turn(row)
    BY <1>1, <1>4, AppendProperties
  <1> HIDE DEF after
  <1>6. ASSUME NEW i \in 1..(run.seq + 1) PROVE Recorded'[i] = after[i]
    <2>1. CASE i = run.seq + 1
      <3>1. RowAt(i)' = row
        BY <1>2, <1>3, <2>1
      <3> QED BY <1>2, <1>5, <2>1, <3>1
    <2>2. CASE i # run.seq + 1
      <3>1. i \in 1..run.seq
        BY <1>1, <2>2
      <3>2. RowAt(i)' = RowAt(i)
        <4>1. RowAt(i)' \in checkpoints' /\ RowAt(i)'.seq = i
          BY <1>2
        <4>2. RowAt(i) \in checkpoints' /\ RowAt(i).seq = i
          BY <1>1, <3>1
        <4> QED BY <4>1, <4>2, <1>3
      <3> QED BY <1>1, <1>2, <1>5, <3>1, <3>2
    <2> QED BY <2>1, <2>2
  <1>7. Recorded' = after
    BY <1>2, <1>5, <1>6, SeqEqual
  <1> QED BY <1>7 DEF after

\* A step that adds no row is a stutter of the abstract history.
LEMMA QuietStutters ==
  ASSUME Quiet
  PROVE  Recorded' = Recorded
  BY DEF Quiet, SameHistory, Recorded, RowAt, Turn

\* A saved planner turn is a planner turn of the abstract history.
LEMMA SaveIsPlannerTurn ==
  ASSUME TypeOK, HistoryInv, FreshInv, TypeOK', HistoryInv',
         NEW l \in Loops, SavePlannerTurn(l)
  PROVE  History!PlannerTurn
  <1>1. SameHistory(mem[l], run)
    BY FreeMeansLatest DEF SavePlannerTurn
  <1>2. run \in RunType /\ hand[l] \in HandType /\ mem[l] \in RunType /\ msg[l] \in Nat
    BY DEF TypeOK
  <1>3. /\ PlannerRow(l) \in RowType /\ PlannerRow(l).seq = run.seq + 1
        /\ Turn(PlannerRow(l)) = [by |-> "planner", from |-> run.resp,
                                  response |-> hand[l].resp]
    BY <1>1, <1>2 DEF PlannerRow, RowType, RunType, HandType, SameHistory, Turn
  <1>4. run'.seq = run.seq + 1 /\ checkpoints' = checkpoints \union {PlannerRow(l)}
    BY <1>1, <1>2 DEF SavePlannerTurn, SameHistory, Cleared, RunType
  <1>5. Recorded' = Append(Recorded, Turn(PlannerRow(l)))
    BY <1>3, <1>4, NewRowAppends
  <1>6. hand[l].resp \in 1..MaxTurns /\ \A c \in checkpoints : c.resp # hand[l].resp
    BY DEF FreshInv, SavePlannerTurn
  <1>7. \A i \in 1..Len(Recorded) : Recorded[i].response # hand[l].resp
    <2> SUFFICES ASSUME NEW i \in 1..run.seq
                 PROVE  Recorded[i].response # hand[l].resp
      BY RecordedTurns
    <2>1. RowAt(i) \in checkpoints /\ Recorded[i] = Turn(RowAt(i))
      BY RecordedTurns
    <2>2. Recorded[i].response = RowAt(i).resp
      BY <2>1 DEF Turn
    <2> QED BY <1>6, <2>1, <2>2
  <1> QED BY <1>3, <1>5, <1>6, <1>7, LatestIsRunResponse DEF History!PlannerTurn

\* A saved executor result is an executor turn of the abstract history.
LEMMA CompletionIsExecutorTurn ==
  ASSUME TypeOK, HistoryInv, TypeOK', HistoryInv',
         NEW l \in Loops, ExecutorCompletes(l)
  PROVE  History!ExecutorTurn
  <1>1. SameHistory(mem[l], run)
    BY FreeMeansLatest DEF ExecutorCompletes
  <1>2. run \in RunType /\ mem[l] \in RunType
    BY DEF TypeOK
  <1>3. /\ ExecutorRow(l) \in RowType /\ ExecutorRow(l).seq = run.seq + 1
        /\ Turn(ExecutorRow(l)) = [by |-> "executor", from |-> run.resp,
                                   response |-> run.resp]
    BY <1>1, <1>2 DEF ExecutorRow, RowType, RunType, SameHistory, Turn
  <1>4. run'.seq = run.seq + 1 /\ checkpoints' = checkpoints \union {ExecutorRow(l)}
    BY <1>1, <1>2 DEF ExecutorCompletes, SameHistory, Cleared, RunType
  <1>5. Recorded' = Append(Recorded, Turn(ExecutorRow(l)))
    BY <1>3, <1>4, NewRowAppends
  <1> QED BY <1>3, <1>5, LatestIsRunResponse DEF History!ExecutorTurn

\* A new run has the one turn the abstract history begins with.
LEMMA InitIsBegin == Init => History!Init
  <1> SUFFICES ASSUME Init PROVE History!Init
    OBVIOUS
  <1>1. /\ run.seq = 1 /\ checkpoints = {Bootstrap} /\ Bootstrap.seq = 1
        /\ Turn(Bootstrap) = History!Begin
    BY DEF Init, NewRun, Bootstrap, Turn, History!Begin
  <1>2. RowAt(1) = Bootstrap
    BY <1>1 DEF RowAt
  <1>3. Recorded = [i \in 1..1 |-> History!Begin]
    BY <1>1, <1>2 DEF Recorded
  <1>4. <<History!Begin>> = [i \in 1..1 |-> History!Begin]
    OBVIOUS
  <1> QED BY <1>3, <1>4 DEF History!Init

\* However many loops, crashes and failing calls there are, what the store
\* shows of a run is an append-only history of planner turns, each with a new
\* response to the one before, and of executor turns.
THEOREM HistoryRefined == Spec => HistoryOnlyGrows
  <1>1. /\ TypeOK /\ HistoryInv /\ FreshInv /\ TypeOK' /\ HistoryInv'
        /\ [Next]_vars
        => [History!Next]_Recorded
    <2> SUFFICES ASSUME TypeOK, HistoryInv, FreshInv, TypeOK', HistoryInv',
                        [Next]_vars
                 PROVE  History!Next \/ Recorded' = Recorded
      OBVIOUS
    <2>1. CASE UNCHANGED vars
      BY <2>1, QuietStutters DEF vars, durable, local, Quiet, SameHistory
    <2>2. CASE Operator
      BY <2>2, OperatorIsQuiet, QuietStutters
    <2>3. ASSUME NEW l \in Loops,
                 \/ Resume(l) \/ Step(l) \/ Human(l) \/ Executor(l) \/ Workers(l)
                 \/ Crash(l) \/ StoreFault(l) \/ SafePointFault(l)
          PROVE  History!Next \/ Recorded' = Recorded
      BY <2>3, LoopsAreQuiet, QuietStutters, SaveIsPlannerTurn,
         CompletionIsExecutorTurn DEF History!Next
    <2> QED BY <2>1, <2>2, <2>3 DEF Next
  <1> QED
    BY <1>1, InitIsBegin, TypeCorrect, HistoryInvariant, FreshInvariant, PTL
    DEF Spec, HistoryOnlyGrows, History!Spec

-----------------------------------------------------------------------------
(* Steps.                                                                  *)

LoopStep(l) == \/ Resume(l) \/ Step(l) \/ Human(l) \/ Executor(l) \/ Workers(l)
               \/ Crash(l) \/ StoreFault(l) \/ SafePointFault(l)

-----------------------------------------------------------------------------
(* Planner turns.                                                          *)

\* Where a cycle still holds a turn that was recorded, and that nothing was
\* done about; before it is recorded, it is at "save".
Decided == {"reload", "consume", "pending", "drift", "intervene", "act", "dispatch"}
Planned == Decided \union {"save"}

RowOf(resp, outcome, rows) == \E c \in rows : c.resp = resp /\ c.outcome = outcome

\* Every turn dispatched was planned and is recorded as an execute outcome;
\* a turn that can still be dispatched is no other loop's and was not.
TurnsInv ==
  /\ \A i \in 1..Len(dispatched) :
       /\ dispatched[i] \in Nat /\ dispatched[i] <= issued
       /\ RowOf(dispatched[i], "execute", checkpoints)
  /\ DispatchedOnce
  /\ \A l \in Loops : hand[l].resp \in Nat /\ hand[l].resp <= issued
  /\ \A k, l \in Loops : k # l /\ hand[k].resp = hand[l].resp => hand[k].resp = 0
  /\ \A l \in Loops : pc[l] \in Planned =>
       hand[l].resp # 0 /\ \A i \in 1..Len(dispatched) : dispatched[i] # hand[l].resp
  /\ \A l \in Loops : pc[l] \in Decided => RowOf(hand[l].resp, hand[l].outcome, checkpoints)
  /\ \A l \in Loops : pc[l] = "dispatch" => hand[l].outcome = "execute"

\* A step that only carries the planner turns along, or drops them.
CarriesTurns ==
  /\ issued' = issued /\ dispatched' = dispatched /\ checkpoints \subseteq checkpoints'
  /\ \A k \in Loops :
       /\ hand'[k] = hand[k] \/ hand'[k] = EmptyHand
       /\ pc'[k] \in Planned => pc[k] \in Planned /\ hand'[k] = hand[k]
       /\ pc'[k] \in Decided => pc[k] \in Decided
       /\ pc'[k] = "dispatch" => pc[k] = "dispatch" \/ hand[k].outcome = "execute"

\* Such a step keeps the invariant.
LEMMA CarryingKeepsTurns ==
  ASSUME TypeOK, TurnsInv, CarriesTurns
  PROVE  TurnsInv'
<1>1. /\ issued' = issued /\ dispatched' = dispatched /\ checkpoints \subseteq checkpoints'
      /\ EmptyHand.resp = 0
      /\ \A k \in Loops : hand'[k] = hand[k] \/ hand'[k] = EmptyHand
  BY DEF CarriesTurns, EmptyHand
<1>2. \A resp, outcome : RowOf(resp, outcome, checkpoints) => RowOf(resp, outcome, checkpoints')
  BY <1>1 DEF RowOf
<1>3. \A i \in 1..Len(dispatched') :
        /\ dispatched'[i] \in Nat /\ dispatched'[i] <= issued'
        /\ RowOf(dispatched'[i], "execute", checkpoints')
  BY <1>1, <1>2 DEF TurnsInv
<1>4. DispatchedOnce'
  BY <1>1 DEF TurnsInv, DispatchedOnce
<1>5. \A l \in Loops : hand'[l].resp \in Nat /\ hand'[l].resp <= issued'
  <2>1. issued \in Nat
    BY ConstantsAssumption DEF TypeOK
  <2> QED
    BY <1>1, <2>1 DEF TurnsInv
<1>6. \A k, l \in Loops : k # l /\ hand'[k].resp = hand'[l].resp => hand'[k].resp = 0
  BY <1>1 DEF TurnsInv
<1>7. ASSUME NEW l \in Loops, pc'[l] \in Planned
      PROVE  /\ hand'[l].resp # 0
             /\ \A i \in 1..Len(dispatched') : dispatched'[i] # hand'[l].resp
  <2>1. pc[l] \in Planned /\ hand'[l] = hand[l]
    BY <1>7 DEF CarriesTurns
  <2> QED
    BY <1>1, <2>1 DEF TurnsInv
<1>8. ASSUME NEW l \in Loops, pc'[l] \in Decided
      PROVE  RowOf(hand'[l].resp, hand'[l].outcome, checkpoints')
  <2>1. pc[l] \in Decided /\ hand'[l] = hand[l]
    BY <1>8 DEF CarriesTurns, Planned
  <2> QED
    BY <1>2, <2>1 DEF TurnsInv
<1>9. ASSUME NEW l \in Loops, pc'[l] = "dispatch"
      PROVE  hand'[l].outcome = "execute"
  <2>1. hand'[l] = hand[l]
    BY <1>9 DEF CarriesTurns, Planned, Decided
  <2> QED
    BY <1>9, <2>1 DEF TurnsInv, CarriesTurns
<1> QED
  BY <1>3, <1>4, <1>5, <1>6, <1>7, <1>8, <1>9 DEF TurnsInv

\* A loop that goes on to another place, its turn in hand.
LEMMA GoingOnCarriesTurns ==
  ASSUME TypeOK, NEW l \in Loops, NEW place, pc' = [pc EXCEPT ![l] = place],
         hand' = hand, issued' = issued, dispatched' = dispatched,
         checkpoints \subseteq checkpoints',
         place \in Planned => pc[l] \in Planned,
         place \in Decided => pc[l] \in Decided,
         place = "dispatch" => hand[l].outcome = "execute"
  PROVE  CarriesTurns
<1>1. \A k \in Loops : pc'[k] = IF k = l THEN place ELSE pc[k]
  BY DEF TypeOK
<1> QED
  BY <1>1 DEF CarriesTurns

\* A loop that drops what it had in memory.
LEMMA LeavingCarriesTurns ==
  ASSUME TypeOK, NEW l \in Loops, Leave(l),
         issued' = issued, dispatched' = dispatched, checkpoints' = checkpoints
  PROVE  CarriesTurns
<1>1. \A k \in Loops : /\ pc'[k] = IF k = l THEN "off" ELSE pc[k]
                       /\ hand'[k] = IF k = l THEN EmptyHand ELSE hand[k]
  BY DEF Leave, Goto, TypeOK
<1>2. "off" \notin Planned /\ "off" \notin Decided
  BY DEF Planned, Decided
<1> QED
  BY <1>1, <1>2 DEF CarriesTurns

\* Every step of a loop but those that plan, record or dispatch a turn.
LEMMA LoopsCarryTurns ==
  ASSUME TypeOK, NEW l \in Loops, LoopStep(l)
  PROVE  CarriesTurns \/ Plan(l) \/ SavePlannerTurn(l) \/ Dispatch(l)
<1> USE DEF durable, world, limits, local, Planned, Decided
<1>1. CASE Resume(l)
  <2>1. PICK mode \in AllModes, n \in Nat : Take(l, mode, n)
    BY <1>1, ResumeTakes
  <2> QED
    BY <2>1, GoingOnCarriesTurns DEF Take, Goto
<1>2. CASE BeforePlan(l)
  BY <1>2, GoingOnCarriesTurns
     DEF BeforePlan, BeginCycle, PlanWithMessage, ContinueWorkerPlan,
         WorkersNeedApproval, WorkersSettled, Goto
<1>16. CASE Workers(l)
  BY <1>16, GoingOnCarriesTurns
     DEF Workers, WorkerTurnsReturn, WorkersReport, SaveCollectedContext, Goto
<1>3. CASE PlanFails(l)
  BY <1>3, GoingOnCarriesTurns DEF PlanFails, Fails, Goto
<1>4. CASE SaveConflict(l)
  BY <1>4, GoingOnCarriesTurns DEF SaveConflict, Abort, Goto
<1>5. CASE ReloadAfterTurn(l)
  BY <1>5, GoingOnCarriesTurns DEF ReloadAfterTurn, Goto
<1>6. CASE PersistPendingAction(l) \/ ConsumeControlMessage(l)
  BY <1>6, AfterTurnPlace, GoingOnCarriesTurns
     DEF PersistPendingAction, ConsumeControlMessage, Goto
<1>7. CASE DriftReviewed(l) \/ NoDriftReview(l) \/ Intervene(l) \/ NothingToDo(l)
  BY <1>7, GoingOnCarriesTurns
     DEF DriftReviewed, NoDriftReview, Intervene, NothingToDo, Goto
<1>8. CASE BeginAction(l)
  <2>1. hand[l].outcome \in {"execute", "collect_context", "ask_human"}
    BY <1>8 DEF BeginAction, ActionPlace
  <2>2. /\ ActionPlace[hand[l].outcome] \in {"dispatch", "collect", "ask"}
        /\ ActionPlace[hand[l].outcome] = "dispatch" => hand[l].outcome = "execute"
    BY <2>1 DEF ActionPlace
  <2> QED
    BY <1>8, <2>2, GoingOnCarriesTurns DEF BeginAction, Goto
<1>9. CASE Human(l)
  BY <1>9, GoingOnCarriesTurns DEF Human, RecordHumanReply, AskFails, Fails, Goto
<1>10. CASE Executor(l)
  BY <1>10, GoingOnCarriesTurns DEF Executor, ExecutorCompletes, ExecutorConflict,
     ExecutorNeedsApproval, ExecutorFails, ExecutorUnavailable, Abort, Fails, Goto
<1>11. CASE CollectContext(l) \/ AskWorkers(l) \/ ContinueExecutorTurn(l)
  BY <1>11, GoingOnCarriesTurns
     DEF CollectContext, SaveCollectedContext, AskWorkers, ContinueExecutorTurn, Goto
<1>12. CASE PersistRuntimeIssue(l) \/ RefreshAfterAction(l) \/ SaveApprovalStop(l)
  BY <1>12, GoingOnCarriesTurns
     DEF PersistRuntimeIssue, RefreshAfterAction, SaveApprovalStop, Abort, Goto
<1>13. CASE ConsumeStopFlag(l) \/ CountCycle(l)
  <2>1. \A k \in Loops : /\ pc'[k] = IF k = l THEN "decide" ELSE pc[k]
                         /\ hand'[k] = IF k = l THEN EmptyHand ELSE hand[k]
    BY <1>13 DEF ConsumeStopFlag, CountCycle, CycleOver, Goto, TypeOK
  <2> QED
    BY <1>13, <2>1 DEF ConsumeStopFlag, CountCycle, CycleOver, CarriesTurns
<1>14. CASE StopLoop(l) \/ Crash(l) \/ SafePointFault(l)
  BY <1>14, LeavingCarriesTurns DEF StopLoop, Crash, SafePointFault
<1>15. CASE NextCycle(l) \/ StoreFault(l)
  BY <1>15, GoingOnCarriesTurns DEF NextCycle, StoreFault, Abort, Goto
<1> QED
  BY <1>1, <1>2, <1>3, <1>4, <1>5, <1>6, <1>7, <1>8, <1>9, <1>10, <1>11, <1>12, <1>13,
     <1>14, <1>15, <1>16, Zenon
  DEF LoopStep, Step, PlannerTurn, BeforeAction, Action, SafePoint

\* The planner's response has a number of its own.
LEMMA PlanKeepsTurns ==
  ASSUME TypeOK, TurnsInv, NEW l \in Loops, Plan(l)
  PROVE  TurnsInv'
<1>1. PICK o \in PlannerChoices :
        hand' = [hand EXCEPT ![l] = [outcome |-> o, resp |-> issued + 1]]
  BY DEF Plan
<1>2. /\ issued' = issued + 1 /\ issued \in Nat
      /\ dispatched' = dispatched /\ checkpoints' = checkpoints
      /\ \A k \in Loops : pc'[k] = IF k = l THEN "save" ELSE pc[k]
      /\ \A k \in Loops : hand'[k].resp = IF k = l THEN issued + 1 ELSE hand[k].resp
      /\ \A k \in Loops \ {l} : hand'[k] = hand[k]
  BY <1>1, ConstantsAssumption DEF Plan, Goto, TypeOK, durable
<1>3. \A i \in 1..Len(dispatched') :
        /\ dispatched'[i] \in Nat /\ dispatched'[i] <= issued'
        /\ RowOf(dispatched'[i], "execute", checkpoints')
  BY <1>2 DEF TurnsInv
<1>4. DispatchedOnce'
  BY <1>2 DEF TurnsInv, DispatchedOnce
<1>5. \A k \in Loops : /\ hand[k].resp \in Nat /\ hand[k].resp # issued + 1
                       /\ hand'[k].resp \in Nat /\ hand'[k].resp <= issued'
  BY <1>2 DEF TurnsInv
<1>6. \A j, k \in Loops : j # k /\ hand'[j].resp = hand'[k].resp => hand'[j].resp = 0
  BY <1>2, <1>5 DEF TurnsInv
<1>7. ASSUME NEW k \in Loops, pc'[k] \in Planned
      PROVE  /\ hand'[k].resp # 0
             /\ \A i \in 1..Len(dispatched') : dispatched'[i] # hand'[k].resp
  <2>1. CASE k = l
    BY <1>2, <2>1 DEF TurnsInv
  <2>2. CASE k # l
    BY <1>2, <1>7, <2>2 DEF TurnsInv
  <2> QED
    BY <2>1, <2>2
<1>8. \A k \in Loops : pc'[k] \in Decided => RowOf(hand'[k].resp, hand'[k].outcome, checkpoints')
  BY <1>2 DEF TurnsInv, Decided
<1>9. \A k \in Loops : pc'[k] = "dispatch" => hand'[k].outcome = "execute"
  BY <1>2 DEF TurnsInv
<1> QED
  BY <1>3, <1>4, <1>5, <1>6, <1>7, <1>8, <1>9 DEF TurnsInv

\* The turn in hand is on disk once it is saved.
LEMMA SaveKeepsTurns ==
  ASSUME TypeOK, TurnsInv, NEW l \in Loops, SavePlannerTurn(l)
  PROVE  TurnsInv'
<1>1. /\ pc[l] = "save" /\ checkpoints' = checkpoints \union {PlannerRow(l)}
      /\ issued' = issued /\ dispatched' = dispatched /\ hand' = hand
      /\ \A k \in Loops : pc'[k] = IF k = l THEN "reload" ELSE pc[k]
  BY DEF SavePlannerTurn, Goto, TypeOK, world
<1>2. RowOf(hand[l].resp, hand[l].outcome, checkpoints')
  <2>1. PlannerRow(l).resp = hand[l].resp /\ PlannerRow(l).outcome = hand[l].outcome
    BY DEF PlannerRow
  <2> QED
    BY <1>1, <2>1 DEF RowOf
<1>3. \A resp, outcome : RowOf(resp, outcome, checkpoints) => RowOf(resp, outcome, checkpoints')
  BY <1>1 DEF RowOf
<1>4. \A i \in 1..Len(dispatched') :
        /\ dispatched'[i] \in Nat /\ dispatched'[i] <= issued'
        /\ RowOf(dispatched'[i], "execute", checkpoints')
  BY <1>1, <1>3 DEF TurnsInv
<1>5. DispatchedOnce'
  BY <1>1 DEF TurnsInv, DispatchedOnce
<1>6. /\ \A k \in Loops : hand'[k].resp \in Nat /\ hand'[k].resp <= issued'
      /\ \A j, k \in Loops : j # k /\ hand'[j].resp = hand'[k].resp => hand'[j].resp = 0
  BY <1>1 DEF TurnsInv
<1>7. ASSUME NEW k \in Loops, pc'[k] \in Planned
      PROVE  /\ hand'[k].resp # 0
             /\ \A i \in 1..Len(dispatched') : dispatched'[i] # hand'[k].resp
  <2>1. pc[k] \in Planned
    BY <1>1, <1>7 DEF Planned
  <2> QED
    BY <1>1, <2>1 DEF TurnsInv
<1>8. ASSUME NEW k \in Loops, pc'[k] \in Decided
      PROVE  RowOf(hand'[k].resp, hand'[k].outcome, checkpoints')
  BY <1>1, <1>2, <1>3, <1>8 DEF TurnsInv
<1>9. \A k \in Loops : pc'[k] = "dispatch" => hand'[k].outcome = "execute"
  BY <1>1 DEF TurnsInv
<1> QED
  BY <1>4, <1>5, <1>6, <1>7, <1>8, <1>9 DEF TurnsInv

\* The turn dispatched is new, and no other loop has it.
LEMMA DispatchKeepsTurns ==
  ASSUME TypeOK, TurnsInv, NEW l \in Loops, Dispatch(l)
  PROVE  TurnsInv'
<1> DEFINE resp == hand[l].resp
           n == Len(dispatched)
<1>1. /\ pc[l] = "dispatch" /\ dispatched' = Append(dispatched, resp)
      /\ issued' = issued /\ checkpoints' = checkpoints /\ hand' = hand
      /\ \A k \in Loops : pc'[k] = IF k = l THEN "executing" ELSE pc[k]
  BY DEF Dispatch, Goto, TypeOK, durable
<1>2. /\ resp \in Nat /\ resp <= issued /\ resp # 0
      /\ \A i \in 1..n : dispatched[i] # resp
      /\ RowOf(resp, "execute", checkpoints)
  BY <1>1 DEF TurnsInv, Planned, Decided
<1>3. /\ n \in Nat /\ Len(dispatched') = n + 1
      /\ \A i \in 1..n : dispatched'[i] = dispatched[i]
      /\ dispatched'[n + 1] = resp
  BY <1>1, <1>2, AppendProperties, LenProperties DEF TypeOK
<1>4. \A i \in 1..Len(dispatched') : i = n + 1 \/ i \in 1..n
  BY <1>3
<1>5. \A i \in 1..n : /\ dispatched[i] \in Nat /\ dispatched[i] <= issued
                      /\ RowOf(dispatched[i], "execute", checkpoints)
  BY DEF TurnsInv
<1> HIDE DEF n, resp
<1>6. \A i \in 1..Len(dispatched') :
        /\ dispatched'[i] \in Nat /\ dispatched'[i] <= issued'
        /\ RowOf(dispatched'[i], "execute", checkpoints')
  BY <1>1, <1>2, <1>3, <1>4, <1>5
<1>7. DispatchedOnce'
  <2> SUFFICES ASSUME NEW i \in 1..Len(dispatched'), NEW j \in 1..Len(dispatched'),
                      dispatched'[i] = dispatched'[j]
               PROVE  i = j
    BY DEF DispatchedOnce
  <2>1. \A g, h \in 1..n : dispatched[g] = dispatched[h] => g = h
    BY DEF TurnsInv, DispatchedOnce, n
  <2> QED
    BY <1>2, <1>3, <1>4, <2>1
<1>8. /\ \A k \in Loops : hand'[k].resp \in Nat /\ hand'[k].resp <= issued'
      /\ \A j, k \in Loops : j # k /\ hand'[j].resp = hand'[k].resp => hand'[j].resp = 0
  BY <1>1 DEF TurnsInv
<1>9. ASSUME NEW k \in Loops, pc'[k] \in Planned
      PROVE  /\ hand'[k].resp # 0
             /\ \A i \in 1..Len(dispatched') : dispatched'[i] # hand'[k].resp
  <2>1. k # l /\ pc[k] \in Planned
    BY <1>1, <1>9 DEF Planned, Decided
  <2>2. hand[k].resp # 0 /\ \A i \in 1..n : dispatched[i] # hand[k].resp
    BY <2>1 DEF TurnsInv, n
  <2>3. hand[k].resp # resp
    BY <2>1, <2>2 DEF TurnsInv, resp
  <2> QED
    BY <1>1, <1>3, <1>4, <2>2, <2>3
<1>10. \A k \in Loops : pc'[k] \in Decided =>
         RowOf(hand'[k].resp, hand'[k].outcome, checkpoints')
  BY <1>1 DEF TurnsInv, Decided
<1>11. \A k \in Loops : pc'[k] = "dispatch" => hand'[k].outcome = "execute"
  BY <1>1 DEF TurnsInv
<1> QED
  BY <1>6, <1>7, <1>8, <1>9, <1>10, <1>11 DEF TurnsInv

\* The operator touches no turn.
LEMMA OperatorCarriesTurns ==
  ASSUME TypeOK, Operator
  PROVE  CarriesTurns
BY DEF Operator, SideChatAction, InjectControlMessage, SetStopFlag, ClearStopFlag,
   AnswerApproval, ControlExecutor, AnswerWorker, BeginCommand, SaveExecutorControl,
   RefreshWorkerRunStopReason, durable, world, local, CarriesTurns, Planned

LEMMA TurnsInvariant == Spec => []TurnsInv
<1>1. Init => TurnsInv
  <2> SUFFICES ASSUME Init PROVE TurnsInv
    OBVIOUS
  <2>1. /\ issued = 0 /\ dispatched = <<>> /\ Len(dispatched) = 0
        /\ \A l \in Loops : pc[l] = "off" /\ hand[l].resp = 0
    BY DEF Init, EmptyHand
  <2> QED
    BY <2>1 DEF TurnsInv, DispatchedOnce, Planned, Decided
<1>2. TypeOK /\ TurnsInv /\ [Next]_vars => TurnsInv'
  <2> SUFFICES ASSUME TypeOK, TurnsInv, [Next]_vars PROVE TurnsInv'
    OBVIOUS
  <2>1. CASE UNCHANGED vars
    <3>1. CarriesTurns
      BY <2>1 DEF vars, durable, world, local, CarriesTurns
    <3> QED
      BY <3>1, CarryingKeepsTurns
  <2>2. CASE Operator
    BY <2>2, OperatorCarriesTurns, CarryingKeepsTurns
  <2>3. ASSUME NEW l \in Loops, LoopStep(l)
        PROVE  TurnsInv'
    BY <2>3, LoopsCarryTurns, CarryingKeepsTurns, PlanKeepsTurns, SaveKeepsTurns,
       DispatchKeepsTurns
  <2> QED
    BY <2>1, <2>2, <2>3 DEF Next, LoopStep
<1> QED
  BY <1>1, <1>2, TypeCorrect, PTL DEF Spec

\* One planner response starts at most one executor turn, over crashes,
\* restarts and competing loops (handleExecute of the bounded cycle).
THEOREM ExecutorStartsOnce == Spec => []DispatchedOnce
<1>1. TurnsInv => DispatchedOnce
  BY DEF TurnsInv
<1> QED
  BY <1>1, TurnsInvariant, PTL

\* The executor is only started for a turn that is on disk as an execute
\* outcome, whichever loop saved it.
THEOREM ExecutorStartIsRecorded == Spec => []DispatchRecorded
<1>1. TurnsInv => DispatchRecorded
  BY DEF TurnsInv, DispatchRecorded, RowOf
<1> QED
  BY <1>1, TurnsInvariant, PTL

-----------------------------------------------------------------------------
(* Control messages.                                                       *)

\* Where a loop holds a message whose turn is being recorded.
Recording == {"reload", "consume", "pending"}

\* Where a loop must have one: it is to be consumed.
NeedsMessage(l) == \/ pc[l] = "consume"
                   \/ phase[l] = "intervention" /\ pc[l] \in {"plan", "save", "reload", "pending"}

\* Where a cycle has not been at the planner, or is over.
Outside == {"off", "begin", "rejoin", "rejoined", "settle", "decide"}

\* Where a loop acts on a turn after which no message was queued.
ActsUndisturbed(l) == /\ pc[l] \in {"act", "ask", "collect", "workers", "dispatch"}
                      /\ phase[l] # "intervention"

Answered(m, rows) == \E c \in rows : c.msg = m

\* All messages before one in the hands of a loop are consumed, and it is on
\* disk, as the input of a turn, before it is consumed itself.
MessagesInv ==
  /\ ConsumedInOrder /\ ConsumedAreAnswered
  /\ \A l \in Loops : msg[l] \in 0..injected /\ \A n \in 1..injected : n < msg[l] => n \in consumed
  /\ \A l \in Loops : pc[l] \in Outside => phase[l] = "first"
  /\ \A l \in Loops : pc[l] = "refresh" => phase[l] # "intervention"
  /\ \A l \in Loops : NeedsMessage(l) => msg[l] # 0
  /\ \A l \in Loops : pc[l] \in Recording /\ msg[l] # 0 => Answered(msg[l], checkpoints)
  /\ \A l \in Loops : cyc[l].due \in 0..injected
  /\ \A l \in Loops : ActsUndisturbed(l) => (1..cyc[l].due) \subseteq consumed

\* A step that only carries the messages along, or drops them.
CarriesMessages ==
  /\ consumed' = consumed /\ checkpoints \subseteq checkpoints'
  /\ injected' \in Nat /\ injected <= injected'
  /\ \A k \in Loops :
       /\ msg'[k] = msg[k] \/ msg'[k] = 0
       /\ cyc'[k].due = cyc[k].due \/ cyc'[k].due = 0
       /\ pc'[k] \in Outside => phase'[k] = "first"
       /\ pc'[k] = "refresh" => phase'[k] # "intervention"
       /\ NeedsMessage(k)' => msg'[k] # 0
       /\ pc'[k] \in Recording => pc[k] \in Recording
       /\ ActsUndisturbed(k)' => ActsUndisturbed(k)

\* Such a step keeps the invariant.
LEMMA CarryingKeepsMessages ==
  ASSUME TypeOK, MessagesInv, CarriesMessages
  PROVE  MessagesInv'
<1>1. /\ consumed' = consumed /\ checkpoints \subseteq checkpoints'
      /\ injected \in Nat /\ injected' \in Nat /\ injected <= injected'
  BY DEF CarriesMessages, TypeOK
<1>2. ConsumedInOrder'
  BY <1>1 DEF MessagesInv, ConsumedInOrder
<1>3. ConsumedAreAnswered' /\ \A m : Answered(m, checkpoints) => Answered(m, checkpoints')
  BY <1>1 DEF MessagesInv, ConsumedAreAnswered, Answered
<1>4. ASSUME NEW l \in Loops
      PROVE  /\ msg'[l] \in 0..injected'
             /\ \A n \in 1..injected' : n < msg'[l] => n \in consumed'
             /\ cyc'[l].due \in 0..injected'
  <2>1. /\ msg[l] \in 0..injected /\ cyc[l].due \in 0..injected
        /\ \A n \in 1..injected : n < msg[l] => n \in consumed
    BY DEF MessagesInv
  <2>2. /\ msg'[l] = msg[l] \/ msg'[l] = 0
        /\ cyc'[l].due = cyc[l].due \/ cyc'[l].due = 0
    BY DEF CarriesMessages
  <2> QED
    BY <1>1, <2>1, <2>2
<1>5. ASSUME NEW l \in Loops, pc'[l] \in Recording, msg'[l] # 0
      PROVE  Answered(msg'[l], checkpoints')
  BY <1>3, <1>5 DEF MessagesInv, CarriesMessages
<1>6. ASSUME NEW l \in Loops, ActsUndisturbed(l)'
      PROVE  (1..cyc'[l].due) \subseteq consumed'
  <2>1. (1..cyc[l].due) \subseteq consumed
    BY <1>6 DEF MessagesInv, CarriesMessages
  <2>2. cyc'[l].due = cyc[l].due \/ 1..cyc'[l].due = {}
    BY DEF CarriesMessages
  <2> QED
    BY <1>1, <2>1, <2>2
<1>7. \A l \in Loops : /\ pc'[l] \in Outside => phase'[l] = "first"
                       /\ pc'[l] = "refresh" => phase'[l] # "intervention"
                       /\ NeedsMessage(l)' => msg'[l] # 0
  BY DEF CarriesMessages
<1> QED
  BY <1>2, <1>3, <1>4, <1>5, <1>6, <1>7 DEF MessagesInv

\* The messages a loop remembers at its last save, by what it does.
LEMMA DueFields ==
  ASSUME NEW c \in CycleType
  PROVE  /\ [c EXCEPT !.failed = TRUE].due = c.due
         /\ \A reason : [c EXCEPT !.reason = reason].due = c.due
         /\ \A waiting : [c EXCEPT !.approval = waiting].due = c.due
         /\ \A mode, limit : [c EXCEPT !.mode = mode, !.left = limit].due = c.due
         /\ \A turn, outcome : Heard(turn, outcome, c).due = c.due
         /\ FreshCycle.due = 0
BY DEF CycleType, Heard, FreshCycle

\* A loop that goes on to another place, in the phase it is in or another.
LEMMA GoingOnCarriesMessages ==
  ASSUME TypeOK, MessagesInv, NEW l \in Loops, NEW place, pc' = [pc EXCEPT ![l] = place],
         consumed' = consumed, checkpoints \subseteq checkpoints', injected' = injected,
         \A k \in Loops \ {l} : phase'[k] = phase[k], msg' = msg,
         \A k \in Loops : cyc'[k].due = cyc[k].due \/ cyc'[k].due = 0,
         place \in Outside => phase'[l] = "first",
         place = "refresh" => phase'[l] # "intervention",
         place = "consume" => msg[l] # 0,
         phase'[l] = "intervention" /\ place \in {"plan", "save", "reload", "pending"}
           => msg[l] # 0,
         place \in Recording => pc[l] \in Recording,
         place \in {"act", "ask", "collect", "workers", "dispatch"} /\ phase'[l] # "intervention"
           => ActsUndisturbed(l)
  PROVE  CarriesMessages
<1>1. \A k \in Loops : pc'[k] = IF k = l THEN place ELSE pc[k]
  BY DEF TypeOK
<1>2. injected \in Nat
  BY DEF TypeOK
<1>3. ASSUME NEW k \in Loops
      PROVE  /\ pc'[k] \in Outside => phase'[k] = "first"
             /\ pc'[k] = "refresh" => phase'[k] # "intervention"
             /\ NeedsMessage(k)' => msg'[k] # 0
             /\ pc'[k] \in Recording => pc[k] \in Recording
             /\ ActsUndisturbed(k)' => ActsUndisturbed(k)
  <2>1. CASE k = l
    BY <1>1, <2>1 DEF NeedsMessage, ActsUndisturbed
  <2>2. CASE k # l
    BY <1>1, <2>2 DEF MessagesInv, NeedsMessage, ActsUndisturbed
  <2> QED
    BY <2>1, <2>2
<1> QED
  BY <1>2, <1>3 DEF CarriesMessages

\* The same, when the phase stays.
LEMMA MovingCarriesMessages ==
  ASSUME TypeOK, MessagesInv, NEW l \in Loops, NEW place, pc' = [pc EXCEPT ![l] = place],
         consumed' = consumed, checkpoints \subseteq checkpoints', injected' = injected,
         phase' = phase, msg' = msg,
         \A k \in Loops : cyc'[k].due = cyc[k].due \/ cyc'[k].due = 0,
         place \in Outside => phase[l] = "first",
         place = "refresh" => phase[l] # "intervention",
         place = "consume" => msg[l] # 0,
         phase[l] = "intervention" /\ place \in {"plan", "save", "reload", "pending"}
           => msg[l] # 0,
         place \in Recording => pc[l] \in Recording,
         place \in {"act", "ask", "collect", "workers", "dispatch"} /\ phase[l] # "intervention"
           => ActsUndisturbed(l)
  PROVE  CarriesMessages
BY GoingOnCarriesMessages

\* The same, when another planner turn is prepared, of a phase of its own.
LEMMA NewPhaseCarriesMessages ==
  ASSUME TypeOK, MessagesInv, NEW l \in Loops,
         NEW place \in {"plan", "refresh"}, pc' = [pc EXCEPT ![l] = place],
         NEW p, p # "intervention", phase' = [phase EXCEPT ![l] = p],
         consumed' = consumed, checkpoints \subseteq checkpoints', injected' = injected,
         msg' = msg, \A k \in Loops : cyc'[k].due = cyc[k].due \/ cyc'[k].due = 0
  PROVE  CarriesMessages
<1>1. phase'[l] = p /\ \A k \in Loops \ {l} : phase'[k] = phase[k]
  BY DEF TypeOK
<1> QED
  BY <1>1, GoingOnCarriesMessages DEF Recording, Outside

\* A loop that drops what it had in memory.
LEMMA LeavingCarriesMessages ==
  ASSUME TypeOK, MessagesInv, NEW l \in Loops, Leave(l),
         consumed' = consumed, checkpoints' = checkpoints, injected' = injected
  PROVE  CarriesMessages
<1>1. \A k \in Loops : /\ pc'[k] = IF k = l THEN "off" ELSE pc[k]
                       /\ phase'[k] = IF k = l THEN "first" ELSE phase[k]
                       /\ msg'[k] = IF k = l THEN 0 ELSE msg[k]
                       /\ cyc'[k] = IF k = l THEN FreshCycle ELSE cyc[k]
  BY DEF Leave, Goto, TypeOK
<1>2. FreshCycle.due = 0 /\ injected \in Nat
  BY DEF FreshCycle, TypeOK
<1>3. ASSUME NEW k \in Loops
      PROVE  /\ pc'[k] \in Outside => phase'[k] = "first"
             /\ pc'[k] = "refresh" => phase'[k] # "intervention"
             /\ NeedsMessage(k)' => msg'[k] # 0
             /\ pc'[k] \in Recording => pc[k] \in Recording
             /\ ActsUndisturbed(k)' => ActsUndisturbed(k)
  <2>1. CASE k = l
    BY <1>1, <2>1 DEF NeedsMessage, ActsUndisturbed, Recording, Outside
  <2>2. CASE k # l
    BY <1>1, <2>2 DEF MessagesInv, NeedsMessage, ActsUndisturbed
  <2> QED
    BY <2>1, <2>2
<1> QED
  BY <1>1, <1>2, <1>3 DEF CarriesMessages

\* What a step does to the messages a loop remembers.
LEMMA DueOf ==
  ASSUME TypeOK, NEW l \in Loops, NEW c, c.due = cyc[l].due \/ c.due = 0,
         cyc' = [cyc EXCEPT ![l] = c]
  PROVE  \A k \in Loops : cyc'[k].due = cyc[k].due \/ cyc'[k].due = 0
BY DEF TypeOK

LEMMA AbortKeepsDue ==
  ASSUME TypeOK, NEW l \in Loops,
         Abort(l) \/ \E reason \in StopReasons : Fails(l, reason)
  PROVE  \A k \in Loops : cyc'[k].due = cyc[k].due \/ cyc'[k].due = 0
<1>1. cyc[l] \in CycleType
  BY DEF TypeOK
<1>2. CASE Abort(l)
  BY <1>1, <1>2, DueFields, DueOf DEF Abort
<1>3. ASSUME NEW reason \in StopReasons, Fails(l, reason)
      PROVE  \A k \in Loops : cyc'[k].due = cyc[k].due \/ cyc'[k].due = 0
  BY <1>1, <1>3, DueFields, DueOf DEF Fails
<1> QED
  BY <1>2, <1>3

\* The oldest message is read for the first planner turn of a cycle.
ReadsFirst(l) == PlanWithMessage(l) /\ (BeginCycle(l) \/ WorkersSettled(l))

\* Every step of a loop but those that read, save or consume a message.
LEMMA LoopsCarryMessages ==
  ASSUME TypeOK, MessagesInv, NEW l \in Loops, LoopStep(l)
  PROVE  \/ CarriesMessages
         \/ ReadsFirst(l) \/ SavePlannerTurn(l) \/ ConsumeControlMessage(l) \/ Intervene(l)
<1> USE DEF durable, world, limits, local, Recording, Outside
<1>1. cyc[l] \in CycleType /\ phase[l] \in Phases
  BY DEF TypeOK
<1>2. /\ pc[l] \in Outside => phase[l] = "first"
      /\ phase[l] = "intervention" /\ pc[l] \in {"plan", "save", "reload", "pending"}
           => msg[l] # 0
  BY DEF MessagesInv, NeedsMessage
<1>3. cyc' = cyc => \A k \in Loops : cyc'[k].due = cyc[k].due \/ cyc'[k].due = 0
  OBVIOUS
<1>4. CASE Resume(l)
  <2>1. PICK mode \in AllModes, n \in Nat : Take(l, mode, n)
    BY <1>4, ResumeTakes
  <2>2. \A k \in Loops : cyc'[k].due = cyc[k].due \/ cyc'[k].due = 0
    <3>1. cyc' = [cyc EXCEPT ![l] = [cyc[l] EXCEPT !.mode = mode, !.left = n]]
      BY <2>1 DEF Take, TypeOK
    <3> QED
      BY <1>1, <3>1, DueFields, DueOf
  <2> QED
    BY <1>2, <2>1, <2>2, MovingCarriesMessages DEF Take, Goto
<1>25. CASE BeginCycle(l)
  <2>1. PICK place \in {"continue", "rejoin", "plan"} :
          Goto(l, place) /\ (place = "plan" => PlanWithMessage(l))
    BY <1>25 DEF BeginCycle, PlanWithMessage
  <2>2. CASE place = "plan"
    BY <1>25, <2>1, <2>2 DEF ReadsFirst
  <2>3. CASE place # "plan"
    <3>1. msg' = msg
      <4>1. "continue" # "plan" /\ "rejoin" # "plan" /\ pc[l] \in Places
        BY DEF TypeOK
      <4>2. ~PlanWithMessage(l)
        BY <2>1, <2>3 DEF PlanWithMessage, Goto, TypeOK
      <4> QED
        BY <1>25, <4>2 DEF BeginCycle
    <3>2. phase[l] = "first"
      BY <1>2, <1>25 DEF BeginCycle
    <3> QED
      BY <1>3, <1>25, <2>1, <2>3, <3>1, <3>2, MovingCarriesMessages DEF BeginCycle, Goto
  <2> QED
    BY <2>2, <2>3
<1>26. CASE ContinueWorkerPlan(l) \/ WorkerTurnsReturn(l) \/ WorkersNeedApproval(l)
  BY <1>2, <1>3, <1>26, MovingCarriesMessages
     DEF ContinueWorkerPlan, WorkerTurnsReturn, WorkersNeedApproval, Goto
<1>27. CASE WorkersSettled(l)
  BY <1>27 DEF WorkersSettled, ReadsFirst
<1>5. CASE Plan(l)
  BY <1>2, <1>3, <1>5, MovingCarriesMessages DEF Plan, Goto
<1>6. CASE PlanFails(l)
  <2>1. \A k \in Loops : cyc'[k].due = cyc[k].due \/ cyc'[k].due = 0
    BY <1>6, AbortKeepsDue, ConstantsAssumption DEF PlanFails, StopReasons
  <2> QED
    BY <1>6, <2>1, MovingCarriesMessages DEF PlanFails, Fails, Goto
<1>7. CASE SaveConflict(l) \/ ExecutorConflict(l) \/ StoreFault(l)
  <2>1. \A k \in Loops : cyc'[k].due = cyc[k].due \/ cyc'[k].due = 0
    BY <1>7, AbortKeepsDue DEF SaveConflict, ExecutorConflict, StoreFault
  <2> QED
    BY <1>7, <2>1, MovingCarriesMessages
       DEF SaveConflict, ExecutorConflict, StoreFault, Abort, Goto
<1>8. CASE ReloadAfterTurn(l)
  <2>1. \A k \in Loops : cyc'[k].due = cyc[k].due \/ cyc'[k].due = 0
    BY <1>1, <1>8, DueFields, DueOf DEF ReloadAfterTurn
  <2> QED
    BY <1>2, <1>8, <2>1, MovingCarriesMessages DEF ReloadAfterTurn, Goto
<1>9. CASE PersistPendingAction(l)
  <2>1. phase[l] # "intervention" => AfterTurn(l) \in {"end", "drift", "intervene", "approval"}
    BY DEF AfterTurn
  <2> QED
    BY <1>2, <1>3, <1>9, <2>1, MovingCarriesMessages DEF PersistPendingAction, Goto
<1>10. CASE DriftReviewed(l)
  <2>1. "drift" # "intervention"
    OBVIOUS
  <2> QED
    BY <1>3, <1>10, <2>1, NewPhaseCarriesMessages DEF DriftReviewed, Goto
<1>11. CASE NoDriftReview(l) \/ NothingToDo(l)
  BY <1>3, <1>11, MovingCarriesMessages DEF NoDriftReview, NothingToDo, Goto
<1>12. CASE BeginAction(l)
  <2>1. hand[l].outcome \in {"execute", "collect_context", "ask_human"}
    BY <1>12 DEF BeginAction, ActionPlace
  <2>2. ActionPlace[hand[l].outcome] \in {"dispatch", "collect", "ask"}
    BY <2>1 DEF ActionPlace
  <2> QED
    BY <1>3, <1>12, <2>2, MovingCarriesMessages DEF BeginAction, Goto, ActsUndisturbed
<1>13. CASE RecordHumanReply(l)
  <2>1. "human" # "intervention"
    OBVIOUS
  <2> QED
    BY <1>3, <1>13, <2>1, NewPhaseCarriesMessages DEF RecordHumanReply, Goto
<1>14. CASE AskFails(l) \/ ExecutorFails(l) \/ ExecutorUnavailable(l)
  <2>1. \A k \in Loops : cyc'[k].due = cyc[k].due \/ cyc'[k].due = 0
    BY <1>14, AbortKeepsDue DEF AskFails, ExecutorFails, ExecutorUnavailable, StopReasons
  <2> QED
    BY <1>14, <2>1, MovingCarriesMessages
       DEF AskFails, ExecutorFails, ExecutorUnavailable, Fails, Goto
<1>15. CASE ExecutorCompletes(l)
  <2>1. "executor" # "intervention"
    OBVIOUS
  <2> QED
    BY <1>3, <1>15, <2>1, NewPhaseCarriesMessages DEF ExecutorCompletes, Goto
<1>16. CASE ExecutorNeedsApproval(l)
  <2>1. "executor" # "intervention"
    OBVIOUS
  <2>2. \A k \in Loops : cyc'[k].due = cyc[k].due \/ cyc'[k].due = 0
    BY <1>1, <1>16, DueFields, DueOf DEF ExecutorNeedsApproval
  <2> QED
    BY <1>16, <2>1, <2>2, NewPhaseCarriesMessages DEF ExecutorNeedsApproval, Goto
<1>17. CASE CollectContext(l) \/ WorkersReport(l)
  <2>1. "context" # "intervention"
    OBVIOUS
  <2>2. PICK waiting \in BOOLEAN : SaveCollectedContext(l, waiting)
    BY <1>17 DEF CollectContext, WorkersReport
  <2>3. \A k \in Loops : cyc'[k].due = cyc[k].due \/ cyc'[k].due = 0
    BY <1>1, <2>2, DueFields, DueOf DEF SaveCollectedContext
  <2> QED
    BY <2>1, <2>2, <2>3, NewPhaseCarriesMessages DEF SaveCollectedContext, Goto
<1>28. CASE AskWorkers(l)
  BY <1>3, <1>28, MovingCarriesMessages DEF AskWorkers, Goto, ActsUndisturbed
<1>18. CASE Dispatch(l) \/ ContinueExecutorTurn(l)
  BY <1>3, <1>18, MovingCarriesMessages DEF Dispatch, ContinueExecutorTurn, Goto
<1>19. CASE PersistRuntimeIssue(l)
  <2>1. \A k \in Loops : cyc'[k].due = cyc[k].due \/ cyc'[k].due = 0
    BY <1>19, AbortKeepsDue DEF PersistRuntimeIssue
  <2> QED
    BY <1>19, <2>1, MovingCarriesMessages DEF PersistRuntimeIssue, Abort, Goto
<1>20. CASE SaveApprovalStop(l)
  BY <1>3, <1>20, MovingCarriesMessages DEF SaveApprovalStop, Goto
<1>21. CASE StopLoop(l) \/ Crash(l) \/ SafePointFault(l)
  BY <1>21, LeavingCarriesMessages DEF StopLoop, Crash, SafePointFault
<1>22. CASE NextCycle(l)
  <2>1. \A k \in Loops : cyc'[k].due = cyc[k].due \/ cyc'[k].due = 0
    <3> DEFINE c == [FreshCycle EXCEPT !.mode = cyc[l].mode, !.left = cyc[l].left,
                                       !.grace = cyc[l].grace]
    <3>1. c.due = 0
      BY DEF FreshCycle
    <3>2. cyc' = [cyc EXCEPT ![l] = c]
      BY <1>22 DEF NextCycle
    <3> HIDE DEF c
    <3> QED
      BY <3>1, <3>2, DueOf
  <2> QED
    BY <1>2, <1>22, <2>1, MovingCarriesMessages DEF NextCycle, Goto
<1>23. CASE RefreshAfterAction(l)
  <2>1. phase[l] # "intervention"
    BY <1>23 DEF RefreshAfterAction, MessagesInv
  <2> QED
    BY <1>3, <1>23, <2>1, MovingCarriesMessages DEF RefreshAfterAction, Goto
<1>24. CASE ConsumeStopFlag(l) \/ CountCycle(l)
  <2>1. /\ CycleOver(l)
        /\ consumed' = consumed /\ checkpoints' = checkpoints /\ injected' = injected
    BY <1>24 DEF ConsumeStopFlag, CountCycle, CycleOver
  <2>2. \A k \in Loops : /\ pc'[k] = IF k = l THEN "decide" ELSE pc[k]
                         /\ phase'[k] = IF k = l THEN "first" ELSE phase[k]
                         /\ msg'[k] = IF k = l THEN 0 ELSE msg[k]
    BY <2>1 DEF CycleOver, Goto, TypeOK
  <2>3. \A k \in Loops : cyc'[k].due = cyc[k].due \/ cyc'[k].due = 0
    <3>1. CASE ConsumeStopFlag(l)
      <4> DEFINE c == [FreshCycle EXCEPT !.last = cyc[l].last, !.failed = cyc[l].failed,
                                         !.stop = stopFlag]
      <4>1. c.due = 0
        BY DEF FreshCycle
      <4>2. cyc' = [cyc EXCEPT ![l] = c]
        BY <3>1 DEF ConsumeStopFlag
      <4> HIDE DEF c
      <4> QED
        BY <4>1, <4>2, DueOf
    <3>2. CASE CountCycle(l)
      <4>1. PICK over \in BOOLEAN : cyc' = [cyc EXCEPT ![l] = Counted(l, over)]
        BY <3>2 DEF CountCycle
      <4>2. Counted(l, over).due = 0
        BY DEF Counted, FreshCycle
      <4> QED
        BY <4>1, <4>2, DueOf
    <3> QED
      BY <1>24, <3>1, <3>2
  <2>4. injected \in Nat
    BY DEF TypeOK
  <2>5. ASSUME NEW k \in Loops
        PROVE  /\ pc'[k] \in Outside => phase'[k] = "first"
               /\ pc'[k] = "refresh" => phase'[k] # "intervention"
               /\ NeedsMessage(k)' => msg'[k] # 0
               /\ pc'[k] \in Recording => pc[k] \in Recording
               /\ ActsUndisturbed(k)' => ActsUndisturbed(k)
    <3>1. CASE k = l
      BY <2>2, <3>1 DEF NeedsMessage, ActsUndisturbed
    <3>2. CASE k # l
      BY <2>2, <3>2 DEF MessagesInv, NeedsMessage, ActsUndisturbed
    <3> QED
      BY <3>1, <3>2
  <2> QED
    BY <2>1, <2>2, <2>3, <2>4, <2>5 DEF CarriesMessages
<1> QED
  BY <1>4, <1>5, <1>6, <1>7, <1>8, <1>9, <1>10, <1>11, <1>12, <1>13, <1>14, <1>15, <1>16,
     <1>17, <1>18, <1>19, <1>20, <1>21, <1>22, <1>23, <1>24, <1>25, <1>26, <1>27, <1>28,
     Zenon
  DEF LoopStep, Step, BeforePlan, PlannerTurn, BeforeAction, Action, SafePoint, Human,
      Executor, Workers

\* A message is taken up after all before it were consumed.
LEMMA NextQueuedIsDue ==
  ASSUME TypeOK, NEW m \in 0..injected, IsNextQueued(m)
  PROVE  /\ \A n \in 1..injected : n < m => n \in consumed
         /\ m = 0 => (1..injected) \subseteq consumed
<1>1. injected \in Nat
  BY DEF TypeOK
<1> QED
  BY <1>1 DEF IsNextQueued, Queued

\* What the invariant asks of one loop.
MessagesOf(l) ==
  /\ msg[l] \in 0..injected /\ \A n \in 1..injected : n < msg[l] => n \in consumed
  /\ pc[l] \in Outside => phase[l] = "first"
  /\ pc[l] = "refresh" => phase[l] # "intervention"
  /\ NeedsMessage(l) => msg[l] # 0
  /\ pc[l] \in Recording /\ msg[l] # 0 => Answered(msg[l], checkpoints)
  /\ cyc[l].due \in 0..injected
  /\ ActsUndisturbed(l) => (1..cyc[l].due) \subseteq consumed

\* A step of one loop that consumes or records leaves the others as they are.
LEMMA OneLoopKeepsMessages ==
  ASSUME MessagesInv, NEW l \in Loops, injected' = injected,
         consumed \subseteq consumed', checkpoints \subseteq checkpoints',
         ConsumedInOrder', ConsumedAreAnswered', MessagesOf(l)',
         \A k \in Loops \ {l} : /\ pc'[k] = pc[k] /\ phase'[k] = phase[k]
                                /\ msg'[k] = msg[k] /\ cyc'[k] = cyc[k]
  PROVE  MessagesInv'
<1>1. ASSUME NEW k \in Loops \ {l}
      PROVE  MessagesOf(k)'
  <2>1. MessagesOf(k)
    BY DEF MessagesInv, MessagesOf
  <2>2. Answered(msg[k], checkpoints) => Answered(msg[k], checkpoints')
    BY DEF Answered
  <2>3. /\ pc'[k] = pc[k] /\ phase'[k] = phase[k] /\ msg'[k] = msg[k] /\ cyc'[k] = cyc[k]
        /\ NeedsMessage(k)' <=> NeedsMessage(k)
        /\ ActsUndisturbed(k)' <=> ActsUndisturbed(k)
    BY DEF NeedsMessage, ActsUndisturbed
  <2> QED
    BY <2>1, <2>2, <2>3 DEF MessagesOf
<1> QED
  BY <1>1 DEF MessagesInv, MessagesOf

\* Reading a message, or finding none, before the first planner turn.
LEMMA BeginKeepsMessages ==
  ASSUME TypeOK, MessagesInv, NEW l \in Loops, ReadsFirst(l)
  PROVE  MessagesInv'
<1>1. PICK m \in 0..injected : IsNextQueued(m) /\ msg' = [msg EXCEPT ![l] = m]
  BY DEF ReadsFirst, PlanWithMessage
<1>2. /\ phase[l] = "first"
      /\ \A k \in Loops : pc'[k] = IF k = l THEN "plan" ELSE pc[k]
      /\ UNCHANGED <<checkpoints, consumed, injected, phase, cyc>>
  <2>1. pc[l] \in {"begin", "settle"}
    BY DEF ReadsFirst, BeginCycle, WorkersSettled
  <2>2. phase[l] = "first"
    BY <2>1 DEF MessagesInv, Outside
  <2>3. UNCHANGED <<checkpoints, consumed, injected, phase, cyc>>
    BY DEF ReadsFirst, BeginCycle, WorkersSettled, durable, world
  <2> QED
    BY <2>2, <2>3 DEF ReadsFirst, PlanWithMessage, Goto, TypeOK
<1>3. \A k \in Loops : msg'[k] = IF k = l THEN m ELSE msg[k]
  BY <1>1 DEF TypeOK
<1>4. ConsumedInOrder' /\ ConsumedAreAnswered'
  BY <1>2 DEF MessagesInv, ConsumedInOrder, ConsumedAreAnswered
<1>5. cyc[l].due \in 0..injected /\ \A n \in 1..injected : n < m => n \in consumed
  BY <1>1, NextQueuedIsDue DEF MessagesInv
<1>6. MessagesOf(l)'
  BY <1>1, <1>2, <1>3, <1>5
     DEF MessagesOf, NeedsMessage, ActsUndisturbed, Recording, Outside
<1> QED
  BY <1>2, <1>3, <1>4, <1>6, OneLoopKeepsMessages

\* A queued message goes to the planner before the action; without one, every
\* message there is was consumed.
LEMMA InterveneKeepsMessages ==
  ASSUME TypeOK, MessagesInv, NEW l \in Loops, Intervene(l)
  PROVE  MessagesInv'
<1>1. PICK m \in 0..injected :
        /\ IsNextQueued(m)
        /\ \/ /\ m # 0 /\ Goto(l, "plan")
              /\ msg' = [msg EXCEPT ![l] = m]
              /\ phase' = [phase EXCEPT ![l] = "intervention"]
           \/ /\ m = 0 /\ Goto(l, "act")
              /\ UNCHANGED <<msg, phase>>
  BY DEF Intervene
<1>2. UNCHANGED <<checkpoints, consumed, injected, cyc>>
  BY DEF Intervene, world
<1>3. ConsumedInOrder' /\ ConsumedAreAnswered'
  BY <1>2 DEF MessagesInv, ConsumedInOrder, ConsumedAreAnswered
<1>4. /\ cyc[l].due \in 0..injected /\ injected \in Nat
      /\ \A n \in 1..injected : n < m => n \in consumed
      /\ m = 0 => (1..injected) \subseteq consumed
  BY <1>1, NextQueuedIsDue DEF MessagesInv, TypeOK
<1>5. CASE m # 0
  <2>1. \A k \in Loops : /\ pc'[k] = IF k = l THEN "plan" ELSE pc[k]
                         /\ msg'[k] = IF k = l THEN m ELSE msg[k]
                         /\ phase'[k] = IF k = l THEN "intervention" ELSE phase[k]
    BY <1>1, <1>5 DEF Goto, TypeOK
  <2>2. MessagesOf(l)'
    BY <1>2, <1>4, <1>5, <2>1 DEF MessagesOf, NeedsMessage, ActsUndisturbed, Recording, Outside
  <2> QED
    BY <1>2, <1>3, <2>1, <2>2, OneLoopKeepsMessages
<1>6. CASE m = 0
  <2>1. /\ \A k \in Loops : pc'[k] = IF k = l THEN "act" ELSE pc[k]
        /\ msg' = msg /\ phase' = phase
    BY <1>1, <1>6 DEF Goto, TypeOK
  <2>2. (1..cyc[l].due) \subseteq consumed
    BY <1>4, <1>6
  <2>3. msg[l] \in 0..injected /\ \A n \in 1..injected : n < msg[l] => n \in consumed
    BY DEF MessagesInv
  <2>4. MessagesOf(l)'
    BY <1>2, <1>4, <2>1, <2>2, <2>3 DEF MessagesOf, NeedsMessage, Recording, Outside
  <2> QED
    BY <1>2, <1>3, <2>1, <2>4, OneLoopKeepsMessages
<1> QED
  BY <1>5, <1>6

\* The turn is on disk with the message that was its input.
LEMMA SaveKeepsMessages ==
  ASSUME TypeOK, MessagesInv, NEW l \in Loops, SavePlannerTurn(l)
  PROVE  MessagesInv'
<1>1. /\ pc[l] = "save" /\ checkpoints' = checkpoints \union {PlannerRow(l)}
      /\ UNCHANGED <<consumed, injected, phase, msg>>
      /\ injected \in Nat
      /\ \A k \in Loops : pc'[k] = IF k = l THEN "reload" ELSE pc[k]
  BY DEF SavePlannerTurn, Goto, TypeOK, world
<1>2. cyc'[l].due = injected /\ \A k \in Loops \ {l} : cyc'[k] = cyc[k]
  <2>1. cyc[l] \in CycleType /\ cyc' = [cyc EXCEPT ![l] = [cyc[l] EXCEPT !.due = injected]]
    BY DEF SavePlannerTurn, TypeOK
  <2>2. [cyc[l] EXCEPT !.due = injected].due = injected
    BY <2>1 DEF CycleType
  <2> QED
    BY <2>1, <2>2 DEF TypeOK
<1>3. ConsumedInOrder' /\ ConsumedAreAnswered'
  BY <1>1 DEF MessagesInv, ConsumedInOrder, ConsumedAreAnswered
<1>4. Answered(msg[l], checkpoints')
  <2>1. PlannerRow(l).msg = msg[l]
    BY DEF PlannerRow
  <2> QED
    BY <1>1, <2>1 DEF Answered
<1>5. /\ msg[l] \in 0..injected /\ \A n \in 1..injected : n < msg[l] => n \in consumed
      /\ phase[l] = "intervention" => msg[l] # 0
  BY <1>1 DEF MessagesInv, NeedsMessage
<1>6. MessagesOf(l)'
  BY <1>1, <1>2, <1>4, <1>5 DEF MessagesOf, NeedsMessage, ActsUndisturbed, Outside
<1> QED
  BY <1>1, <1>2, <1>3, <1>6, OneLoopKeepsMessages

\* The message consumed is the next one, and its turn is on disk.
LEMMA ConsumeKeepsMessages ==
  ASSUME TypeOK, MessagesInv, NEW l \in Loops, ConsumeControlMessage(l)
  PROVE  MessagesInv'
<1>1. /\ pc[l] = "consume" /\ consumed' = consumed \union {msg[l]}
      /\ UNCHANGED <<checkpoints, injected, phase, cyc>>
      /\ injected \in Nat
  BY DEF ConsumeControlMessage, TypeOK, world
<1>2. PICK place \in {"pending", "end", "drift", "intervene", "act", "approval"} :
        /\ Goto(l, place)
        /\ place = "pending" => phase[l] = "first"
        /\ place = "act" => phase[l] = "intervention"
  <2>1. AfterTurn(l) = "act" => phase[l] = "intervention"
    BY DEF AfterTurn
  <2> QED
    BY <2>1, AfterTurnPlace DEF ConsumeControlMessage
<1>3. \A k \in Loops : /\ pc'[k] = IF k = l THEN place ELSE pc[k]
                       /\ msg'[k] = IF k = l THEN 0 ELSE msg[k]
  BY <1>2 DEF ConsumeControlMessage, Goto, TypeOK
<1>4. /\ msg[l] \in 1..injected /\ \A n \in 1..injected : n < msg[l] => n \in consumed
      /\ Answered(msg[l], checkpoints)
      /\ cyc[l].due \in 0..injected
  BY <1>1 DEF MessagesInv, NeedsMessage, Recording
<1>5. ConsumedInOrder'
  <2> SUFFICES ASSUME NEW m \in consumed'
               PROVE  m \in 1..injected /\ \A n \in 1..m : n \in consumed'
    BY <1>1 DEF ConsumedInOrder
  <2>1. CASE m \in consumed
    BY <1>1, <2>1 DEF MessagesInv, ConsumedInOrder
  <2>2. CASE m = msg[l]
    <3>1. \A n \in 1..m : n = m \/ (n \in 1..injected /\ n < m)
      BY <1>1, <1>4, <2>2
    <3> QED
      BY <1>1, <1>4, <2>2, <3>1
  <2> QED
    BY <1>1, <2>1, <2>2
<1>6. ConsumedAreAnswered'
  BY <1>1, <1>4 DEF MessagesInv, ConsumedAreAnswered, Answered
<1>7. MessagesOf(l)'
  BY <1>1, <1>2, <1>3, <1>4 DEF MessagesOf, NeedsMessage, ActsUndisturbed, Outside
<1> QED
  BY <1>1, <1>3, <1>5, <1>6, <1>7, OneLoopKeepsMessages

\* The operator's commands only add messages.
LEMMA OperatorCarriesMessages ==
  ASSUME TypeOK, MessagesInv, Operator
  PROVE  CarriesMessages
<1>1. UNCHANGED <<consumed, checkpoints, pc, phase, msg, cyc>>
  BY DEF Operator, SideChatAction, InjectControlMessage, SetStopFlag, ClearStopFlag,
     AnswerApproval, ControlExecutor, AnswerWorker, BeginCommand, SaveExecutorControl,
     RefreshWorkerRunStopReason, durable, world, local
<1>2. injected' \in {injected, injected + 1}
  BY DEF Operator, SideChatAction, InjectControlMessage, RecordControlMessage,
     SetStopFlag, ClearStopFlag, AnswerApproval, ControlExecutor, AnswerWorker,
     BeginCommand, SaveExecutorControl, RefreshWorkerRunStopReason, world
<1>3. injected \in Nat /\ injected' \in Nat /\ injected <= injected'
  BY <1>2 DEF TypeOK
<1> QED
  BY <1>1, <1>3 DEF MessagesInv, CarriesMessages, NeedsMessage, ActsUndisturbed

LEMMA MessagesInvariant == Spec => []MessagesInv
<1>1. Init => MessagesInv
  <2> SUFFICES ASSUME Init PROVE MessagesInv
    OBVIOUS
  <2>1. /\ injected = 0 /\ consumed = {}
        /\ \A l \in Loops : /\ pc[l] = "off" /\ phase[l] = "first" /\ msg[l] = 0
                            /\ cyc[l].due = 0
    BY DEF Init, FreshCycle
  <2> QED
    BY <2>1 DEF MessagesInv, ConsumedInOrder, ConsumedAreAnswered, NeedsMessage,
                ActsUndisturbed, Recording, Outside
<1>2. TypeOK /\ MessagesInv /\ [Next]_vars => MessagesInv'
  <2> SUFFICES ASSUME TypeOK, MessagesInv, [Next]_vars PROVE MessagesInv'
    OBVIOUS
  <2>1. CASE UNCHANGED vars
    BY <2>1 DEF vars, durable, world, local, MessagesInv, ConsumedInOrder,
                ConsumedAreAnswered, NeedsMessage, ActsUndisturbed
  <2>2. CASE Operator
    BY <2>2, OperatorCarriesMessages, CarryingKeepsMessages
  <2>3. ASSUME NEW l \in Loops, LoopStep(l)
        PROVE  MessagesInv'
    BY <2>3, LoopsCarryMessages, CarryingKeepsMessages, BeginKeepsMessages,
       InterveneKeepsMessages, SaveKeepsMessages, ConsumeKeepsMessages
  <2> QED
    BY <2>1, <2>2, <2>3 DEF Next, LoopStep
<1> QED
  BY <1>1, <1>2, TypeCorrect, PTL DEF Spec

\* A control message is marked consumed only after a planner turn that had it
\* as input is on disk: crashes, failures and other loops do not lose it.
THEOREM ConsumedMeansAnswered == Spec => []ConsumedAreAnswered
<1>1. MessagesInv => ConsumedAreAnswered
  BY DEF MessagesInv
<1> QED
  BY <1>1, MessagesInvariant, PTL

\* Control messages are consumed in the order they were injected, whichever
\* loop consumes them.
THEOREM MessagesGoInOrder == Spec => []ConsumedInOrder
<1>1. MessagesInv => ConsumedInOrder
  BY DEF MessagesInv
<1> QED
  BY <1>1, MessagesInvariant, PTL

\* A cycle acts on a turn without an intervention only when every message that
\* was queued as the turn was saved has been answered.
THEOREM ActionsWaitForMessages == Spec => []AnsweredBeforeAction
<1>1. MessagesInv => AnsweredBeforeAction
  BY DEF MessagesInv, ActsUndisturbed, AnsweredBeforeAction
<1> QED
  BY <1>1, MessagesInvariant, PTL

=============================================================================

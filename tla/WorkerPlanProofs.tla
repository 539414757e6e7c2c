-------------------------- MODULE WorkerPlanProofs --------------------------
(***************************************************************************)
(* What holds of WorkerPlan for any number of goroutines, requests of the  *)
(* operator, workers and cycles: the shape of the plan's own state, that a *)
(* plan that is reported completed is, and that no worker is left pending. *)
(*                                                                         *)
(* The first part shows that the cycle's own steps keep what the requests  *)
(* of the registry keep of the table (WorkerRegistryProofs); the plan's    *)
(* invariants then only need to know of a request that rows do not come    *)
(* back and completed turns stay completed.                                *)
(***************************************************************************)
EXTENDS WorkerPlan, WorkerRegistryProofs, FiniteSetTheorems

RegistryInv == TypeInv /\ WorktreeInv /\ VerdictInv

RegistryStep(q) == \/ Create(q) \/ Dispatch(q) \/ Approve(q) \/ Interrupt(q) \/ Steer(q)
                   \/ Kill(q) \/ Remove(q) \/ Abandon(q)

\* A row that is found was found before, at the same path, and none goes back to
\* being created.
RowsGoOn ==
  \A w \in 1..created : rows'[w].status # "none" =>
    /\ Found(w) /\ rows'[w].path = rows[w].path
    /\ rows'[w].status = "creating" => rows[w].status = "creating"

\* What the plan needs to know of a step of anyone else.
Goes == /\ created <= created' /\ started <= started' /\ created' \in Nat /\ started' \in Nat
        /\ TurnsStay /\ RowsGoOn

LEMMA RegistryNumbers ==
  ASSUME TypeInv
  PROVE  /\ created \in Nat /\ started \in Nat /\ 1..created \subseteq 1..MaxWorkers
         /\ 1..started \subseteq 1..MaxTurns
  BY TableTypes, RegistryAssumption

-----------------------------------------------------------------------------
(* The steps of the registry.                                              *)

LEMMA RegistryStepKeeps ==
  ASSUME RegistryInv, NEW q \in Requests, RegistryStep(q)
  PROVE  RegistryInv'
  <1> USE DEF RegistryInv
  <1>1. TypeInv'
    BY CreateTypes, DispatchTypes, ApproveTypes, ControlTypes, RemoveTypes, SurroundingTypes
       DEF RegistryStep
  <1>2. WorktreeInv'
    <2>1. CASE Dispatch(q) \/ Approve(q) \/ Interrupt(q) \/ Steer(q) \/ Kill(q)
      BY <1>1, <2>1, DispatchIsQuiet, ApproveIsQuiet, ControlIsQuiet, QuietKeepsWorktrees
    <2>2. CASE Abandon(q)
      <3>1. "idle" \notin Creating \union {"delete"}
        BY DEF Creating
      <3> QED BY <1>1, <2>2, <3>1, SaveIsQuiet, QuietKeepsWorktrees DEF Abandon
    <2> QED BY <1>1, <2>1, <2>2, CreateKeepsWorktrees, RemoveKeepsWorktrees DEF RegistryStep
  <1>3. VerdictInv'
    BY CreateKeepsVerdicts, DispatchKeepsVerdicts, CommandsKeepVerdicts DEF RegistryStep
  <1> QED BY <1>1, <1>2, <1>3

\* A quiet step, and one that changes no row.
LEMMA QuietRowsGoOn ==
  ASSUME RegistryInv, NEW q \in Requests, QuietStep(q) \/ UNCHANGED rows
  PROVE  RowsGoOn
  BY RegistryNumbers DEF RegistryInv, QuietStep, RowsGoOn, Found

LEMMA RegistryStepGoes ==
  ASSUME RegistryInv, NEW q \in Requests, RegistryStep(q)
  PROVE  Goes
  <1> USE DEF RegistryInv
  <1>1. created <= created' /\ started <= started' /\ created' \in Nat /\ started' \in Nat
    <2>1. created' \in {created, created + 1} /\ started' \in {started, started + 1}
      <3>1. CASE Create(q)
        BY <3>1 DEF Create, InsertRow, AddWorktree, UndoRow, SaveCreated
      <3>2. CASE Dispatch(q)
        BY <3>2 DEF Dispatch, ReadForDispatch, Activate, ClientUnavailable, StartTurn,
           StartFails, TurnReturns, SaveResult
      <3>3. CASE Approve(q) \/ Interrupt(q) \/ Steer(q) \/ Kill(q) \/ Remove(q) \/ Abandon(q)
        BY <3>3 DEF Approve, ReadForAnswer, Answer, SaveAnswered, ListForReason, SaveReason,
           Interrupt, ReadForInterrupt, InterruptTurn, Steer, ReadForSteer, SteerTurn, Kill,
           ReadForKill, SaveControl, Remove, ReadForRemoval, RemoveWorktree, DeleteRow, Abandon
      <3> QED BY ZenonT(40), <3>1, <3>2, <3>3 DEF RegistryStep
    <2> QED BY <2>1, RegistryNumbers
  <1>2. TurnsStay
    <2>1. CASE StartTurn(q)
      BY <2>1, TableTypes, RegistryAssumption DEF StartTurn, TurnsStay
    <2>2. CASE Answer(q)
      BY <2>2, TableTypes, StartedTurns DEF Answer, TurnsStay
    <2>3. CASE InterruptTurn(q)
      BY <2>3, TableTypes, StartedTurns DEF InterruptTurn, TurnsStay
    <2>4. CASE ~StartTurn(q) /\ ~Answer(q) /\ ~InterruptTurn(q)
      <3>1. turns' = turns
        <4>1. CASE Create(q)
          BY <4>1 DEF Create, InsertRow, AddWorktree, UndoRow, SaveCreated
        <4>2. CASE Dispatch(q)
          BY <2>4, <4>2 DEF Dispatch, ReadForDispatch, Activate, ClientUnavailable,
             StartFails, TurnReturns, SaveResult
        <4>3. CASE Approve(q) \/ Interrupt(q) \/ Steer(q) \/ Kill(q) \/ Remove(q) \/ Abandon(q)
          BY <2>4, <4>3 DEF Approve, ReadForAnswer, SaveAnswered, ListForReason,
             SaveReason, Interrupt, ReadForInterrupt, Steer, ReadForSteer, SteerTurn, Kill,
             ReadForKill, SaveControl, Remove, ReadForRemoval, RemoveWorktree, DeleteRow, Abandon
        <4> QED BY ZenonT(40), <4>1, <4>2, <4>3 DEF RegistryStep
      <3> QED BY <3>1 DEF TurnsStay
    <2> QED BY <2>1, <2>2, <2>3, <2>4
  <1>3. RowsGoOn
    <2> USE RegistryNumbers, TableTypes
    <2>1. CASE Dispatch(q) \/ Approve(q) \/ Interrupt(q) \/ Steer(q) \/ Kill(q)
      BY <2>1, DispatchIsQuiet, ApproveIsQuiet, ControlIsQuiet, QuietRowsGoOn
    <2>2. CASE \/ Abandon(q) \/ AddWorktree(q) \/ ReadForRemoval(q) \/ RemoveWorktree(q)
      BY <2>2, QuietRowsGoOn DEF Abandon, AddWorktree, ReadForRemoval, RemoveWorktree
    <2>3. CASE InsertRow(q)
      <3>1. \A w \in 1..created : rows'[w] = rows[w]
        BY <2>3 DEF InsertRow
      <3> QED BY <3>1 DEF RowsGoOn, Found
    <2>4. CASE UndoRow(q) \/ DeleteRow(q)
      <3>1. rows' = [rows EXCEPT ![job[q].worker] = NoRow] /\ NoRow.status = "none"
        BY <2>4 DEF UndoRow, DeleteRow, NoRow
      <3> QED BY <3>1 DEF RowsGoOn, Found
    <2>5. CASE SaveCreated(q)
      <3> DEFINE row == [job[q].copy EXCEPT !.status = "idle"]
      <3>1. row.status = "idle" /\ row.path = job[q].copy.path
        BY StatusSaved DEF Statuses
      <3>2. Save(q, row) /\ (Found(job[q].worker) => job[q].copy.path = rows[job[q].worker].path)
        BY <2>5 DEF SaveCreated, WorktreeInv, CopiesAgree
      <3> HIDE DEF row
      <3> QED BY <3>1, <3>2 DEF RowsGoOn, Found, Save
    <2> QED BY <2>1, <2>2, <2>3, <2>4, <2>5 DEF RegistryStep, Create, Remove
  <1> QED BY <1>1, <1>2, <1>3 DEF Goes

-----------------------------------------------------------------------------
(* The cycle's own steps, as far as the table and its requests go.         *)

StoreSame == UNCHANGED <<rows, created, trees, turns, started>>

\* A step that changes no row and no turn.
LEMMA SameGoes ==
  ASSUME TypeInv, StoreSame
  PROVE  Goes
  BY RegistryNumbers DEF StoreSame, Goes, TurnsStay, RowsGoOn, Found

\* A request takes up a worker with a copy that may be written back.
Takes(q, place, j) ==
  /\ j \in JobType /\ j.worker # 0
  /\ Found(j.worker) => j.copy.path = rows[j.worker].path
  /\ j.copy.status \notin {"none", "creating"}
  /\ rows[j.worker].status # "creating"
  /\ Earned(j.copy)
  /\ place = "turn" => j.turn # 0
  /\ Goto(q, place)
  /\ job' = [job EXCEPT ![q] = j]
  /\ StoreSame
  /\ UNCHANGED <<reason, lost, losses>>

LEMMA TakeKeeps ==
  ASSUME RegistryInv, NEW q \in Requests, NEW j, NEW place \in Places,
         place \notin Creating \union {"idle", "delete"}, Takes(q, place, j)
  PROVE  RegistryInv'
  <1> USE DEF RegistryInv
  <1>1. /\ job' = [job EXCEPT ![q] = j] /\ pc' = [pc EXCEPT ![q] = place]
        /\ UNCHANGED <<rows, created, trees, turns, started, reason, lost, losses>>
    BY DEF Takes, Goto, StoreSame
  <1>2. TypeInv'
    <2>1. place # "add"
      BY DEF Creating
    <2> QED BY <1>1, <2>1, TableTypes, StepTypes DEF Takes
  <1>3. /\ job'[q] = j /\ pc'[q] = place
        /\ \A r \in Requests \ {q} : pc'[r] = pc[r] /\ job'[r] = job[r]
    BY <1>1 DEF TypeInv
  <1>4. QuietStep(q)
    BY <1>1, <1>3 DEF QuietStep, Takes
  <1>5. WorktreeInv'
    BY <1>2, <1>4, QuietKeepsWorktrees
  <1>6. VerdictInv'
    <2>1. TurnsStay /\ UNCHANGED <<rows, turns>>
      BY <1>1 DEF TurnsStay
    <2>2. Earned(job[q].copy)'
      BY <1>1, <1>3 DEF Takes, Earned
    <2> QED BY <1>3, <2>1, <2>2, StepKeepsVerdicts DEF Takes
  <1> QED BY <1>2, <1>5, <1>6

\* The row it took up is written back.
LEMMA WriteKeeps ==
  ASSUME RegistryInv, NEW q \in Requests, pc[q] \in {"assign", "queue"},
         Save(q, job[q].copy),
         Return(q) \/ (Goto(q, "activate") /\ UNCHANGED job),
         UNCHANGED <<created, trees, turns, started, reason, losses>>,
         lost' \subseteq 1..created
  PROVE  RegistryInv' /\ Goes
  <1> USE DEF RegistryInv
  <1>1. pc[q] # "idle" /\ pc[q] \notin Creating
    BY DEF Creating
  <1>2. rows' \in [1..MaxWorkers -> RowType]
    BY HeldTypes, SaveTypes
  <1>3. TypeInv'
    <2>1. "activate" \in Places \ {"add"}
      BY DEF Places
    <2> QED BY <1>1, <1>2, <2>1, TableTypes, ReturnTypes, GoOnTypes
  <1>4. QuietStep(q)
    <2>1. job[q].copy \in RowType /\ job[q].copy.status \notin {"none", "creating"}
      BY <1>1, HeldTypes DEF WorktreeInv, CopiesAgree
    <2>2. "activate" \notin Creating \union {"delete"}
      BY DEF Creating
    <2> QED BY <1>1, <2>1, <2>2, SaveIsQuiet
  <1>5. WorktreeInv'
    BY <1>3, <1>4, QuietKeepsWorktrees
  <1>6. TurnsStay
    BY DEF TurnsStay
  <1>7. VerdictInv'
    <2>1. Earned(job[q].copy) /\ job[q].copy \in RowType
      BY <1>1, HeldTypes DEF VerdictInv
    <2>2. UNCHANGED rows \/ rows' = [rows EXCEPT ![job[q].worker] = job[q].copy]
      BY SaveWrites
    <2> QED BY <1>1, <1>6, <2>1, <2>2, SaveKeepsVerdicts
  <1>8. Goes
    BY <1>4, <1>6, QuietRowsGoOn, RegistryNumbers DEF Goes
  <1> QED BY <1>3, <1>5, <1>7, <1>8

\* Requests end, one or all those of the cycle, and others go on.
LEMMA DropKeeps ==
  ASSUME RegistryInv, StoreSame, reason' \in BOOLEAN,
         pc' \in [Requests -> Places], job' \in [Requests -> JobType],
         \A q \in Requests : \/ pc'[q] = pc[q] /\ job'[q] = job[q]
                             \/ pc'[q] = "idle",
         lost' \subseteq 1..created, losses' \in 0..MaxLosses
  PROVE  RegistryInv'
  <1> USE DEF RegistryInv, StoreSame
  <1>1. RowType' = RowType /\ JobType' = JobType
    BY DEF RowType, JobType
  <1>2. TypeInv'
    <2>1. \A q \in Requests : /\ job'[q].worker \in 0..created'
                              /\ job'[q].copy \in RowType'
                              /\ job'[q].turn \in 0..started'
      BY <1>1 DEF JobType
    <2>2. TypeOK'
      BY <1>1, <2>1 DEF TypeInv, TypeOK
    <2>3. \A q \in Requests : /\ pc'[q] # "idle" => job'[q].worker # 0
                              /\ pc'[q] = "add" => job'[q].copy.path \in Paths
      BY DEF TypeInv
    <2> QED BY <1>1, <2>2, <2>3 DEF TypeInv
  <1>3. \A q \in Requests : pc'[q] # "idle" => pc'[q] = pc[q] /\ job'[q] = job[q]
    OBVIOUS
  <1>4. WorktreeInv'
    <2>1. OnePathEach' /\ NoOrphanWorktree'
      BY DEF WorktreeInv, OnePathEach, NoOrphanWorktree, Found
    <2>2. CopiesAgree'
      BY <1>3 DEF WorktreeInv, CopiesAgree, Found
    <2>3. CreatorsAlone'
      BY <1>3 DEF WorktreeInv, CreatorsAlone, Creating
    <2>4. NothingLeft'
      BY <1>3 DEF WorktreeInv, NothingLeft, Found
    <2> QED BY <2>1, <2>2, <2>3, <2>4 DEF WorktreeInv
  <1>5. VerdictInv'
    BY <1>3 DEF VerdictInv, Earned
  <1> QED BY <1>2, <1>4, <1>5

-----------------------------------------------------------------------------
(* The plan's own state.                                                   *)

PlanType ==
  [actions : Nat, wish : {"none", "integrate", "apply"}, asked : SUBSET Paths, wanted : SUBSET Paths,
   made : SUBSET (1..created), queued : SUBSET (1..created),
   batch : [1..MaxWorkers -> RowType], failed : BOOLEAN, waiting : BOOLEAN,
   broken : BOOLEAN, ready : BOOLEAN, verdict : [1..MaxWorkers -> 0..started]]

\* A plan is made, queued and dispatched, and settled in these steps.
Making == {"create", "queue", "save_queued"}
Settling == {"integrate", "apply", "finish"}
Planning == Making \union {"dispatch"} \union Settling
Steps == Planning \union {"idle", "continue", "sync", "recount", "stop", "go_on",
                          "planner", "actions", "end"}

\* Where the cycle's own request and its goroutines can be in each step.
CycleAt ==
  CASE step = "create" -> {"idle", "add", "undo", "created"}
    [] step = "save_queued" -> {"queue"}
    [] step = "actions" -> {"idle", "add", "undo", "created", "assign", "activate",
                            "start", "turn", "save", "remove", "delete"}
    [] OTHER -> {"idle"}

LanesAt ==
  CASE step = "continue" -> {"idle", "turn", "save"}
    [] step = "dispatch" -> {"idle", "activate", "start", "turn", "save"}
    [] OTHER -> {"idle"}

PlaceInv ==
  /\ step \in Steps
  /\ pc[Cycle] \in CycleAt
  /\ \A l \in Lanes : pc[l] \in LanesAt

PlanTypeInv ==
  /\ plan \in PlanType /\ plan.wanted \subseteq plan.asked /\ IsFiniteSet(plan.asked)
  /\ report \in Reports /\ restored \subseteq 1..created

\* What a plan holds in which step.
HoldsInv ==
  /\ step = "idle" => plan = NoPlan
  /\ step \notin Planning => plan.made = {} /\ plan.asked = {} /\ plan.wanted = {}
  /\ step \notin Making => plan.wanted = {}
  /\ step # "continue" => plan.queued \subseteq plan.made
  /\ step \notin Making \union {"continue", "dispatch"} => plan.queued = {}

\* The worker that was created last is queued first, and is the newest of them.
NewestInv ==
  /\ step \in {"queue", "save_queued"} =>
       \E w \in plan.queued : \A v \in plan.made : v <= w
  /\ step = "save_queued" => job[Cycle].worker = Newest
  /\ step = "create" /\ pc[Cycle] # "idle" => \A v \in plan.made : v < job[Cycle].worker

\* A worker is being made, in the step "create".
Unfinished == IF step = "create" /\ pc[Cycle] # "idle" THEN 1 ELSE 0

\* Every worker asked for is made, being made or still to be made, unless one failed.
CountInv ==
  LET workers == Cardinality(plan.made) + Cardinality(plan.wanted) + Unfinished IN
    /\ workers <= Cardinality(plan.asked)
    /\ ~plan.failed => workers = Cardinality(plan.asked)

\* A worker of the plan waits for its slot, has a goroutine, has completed a turn,
\* or it is known why not.
Accounted(w) ==
  \/ w \in plan.queued \/ plan.failed \/ plan.waiting \/ plan.broken
  \/ \E l \in Lanes : pc[l] # "idle" /\ job[l].worker = w
  \/ plan.verdict[w] # 0 /\ turns[plan.verdict[w]] = "completed"

HonestInv ==
  /\ \A w \in plan.made : Accounted(w)
  /\ step \in Settling => ~plan.broken

\* The rows a cycle continues from are copies of rows it may write back.
BatchInv ==
  step = "continue" => \A w \in plan.queued :
    /\ plan.batch[w].turn # 0
    /\ plan.batch[w].status \in {"executor_active", "approval_required"}
    /\ rows[w].status # "creating"
    /\ Found(w) => plan.batch[w].path = rows[w].path

LocalInv == /\ PlaceInv /\ PlanTypeInv /\ HoldsInv /\ NewestInv
            /\ CountInv /\ HonestInv /\ BatchInv

-----------------------------------------------------------------------------
(* What keeps the parts of LocalInv.                                       *)

\* More workers and turns there may be, not fewer.
LEMMA PlanTypeGrows ==
  ASSUME Goes, created \in Nat, started \in Nat, NEW p \in PlanType
  PROVE  p \in PlanType'
  <1>1. p.batch \in [1..MaxWorkers -> RowType']
    <2>1. \A w \in 1..MaxWorkers : p.batch[w] \in RowType'
      BY RowTypeGrows DEF Goes, PlanType
    <2> QED BY <2>1 DEF PlanType
  <1>2. /\ p.made \subseteq 1..created' /\ p.queued \subseteq 1..created'
        /\ p.verdict \in [1..MaxWorkers -> 0..started']
    BY DEF PlanType, Goes
  <1> QED BY <1>1, <1>2 DEF PlanType

LEMMA NoPlanType ==
  ASSUME TypeInv
  PROVE  NoPlan \in PlanType /\ IsFiniteSet(NoPlan.asked)
  BY EmptyRowType, RegistryNumbers, FS_EmptySet DEF NoPlan, PlanType

\* The count of actions left is of no matter to the rest of the plan.
ActionsCounted(p, q) ==
  /\ q \in PlanType /\ q.asked = p.asked /\ q.wanted = p.wanted /\ q.made = p.made
  /\ q.queued = p.queued /\ q.verdict = p.verdict /\ q.failed = p.failed
  /\ q.waiting = p.waiting /\ q.broken = p.broken

LEMMA CountingActions ==
  ASSUME NEW p \in PlanType
  PROVE  /\ ActionsCounted(p, p)
         /\ \A n \in Nat : ActionsCounted(p, [p EXCEPT !.actions = n])
  BY DEF PlanType, ActionsCounted

\* Accounts stay as long as the plan keeps them, and goroutines go on.
LEMMA AccountsStay ==
  ASSUME TypeInv, Goes, plan \in PlanType, NEW w \in plan.made, Accounted(w),
         plan'.verdict[w] = plan.verdict[w],
         w \in plan.queued => Accounted(w)' \/ w \in plan'.queued,
         plan.failed => plan'.failed, plan.waiting => plan'.waiting,
         plan.broken => plan'.broken,
         \A l \in Lanes : pc[l] # "idle" /\ job[l].worker = w =>
           Accounted(w)' \/ (pc'[l] # "idle" /\ job'[l].worker = w)
  PROVE  Accounted(w)'
  <1>1. plan.verdict[w] \in 0..started /\ started \in Nat
    BY RegistryNumbers DEF PlanType
  <1> QED BY <1>1 DEF Accounted, Goes, TurnsStay

\* The others leave the plan alone.
LEMMA OthersKeepPlan ==
  ASSUME TypeInv, LocalInv, Goes, UNCHANGED <<step, plan, report>>,
         restored' \subseteq 1..created',
         pc'[Cycle] = pc[Cycle], job'[Cycle] = job[Cycle],
         \A l \in Lanes : pc'[l] = pc[l] /\ job'[l] = job[l]
  PROVE  LocalInv'
  <1>1. PlaceInv'
    BY DEF LocalInv, PlaceInv, CycleAt, LanesAt
  <1>2. PlanTypeInv'
    BY PlanTypeGrows, RegistryNumbers DEF LocalInv, PlanTypeInv
  <1>3. HoldsInv' /\ NewestInv'
    BY DEF LocalInv, HoldsInv, NewestInv, Newest
  <1>4. CountInv'
    BY DEF LocalInv, CountInv, Unfinished
  <1>5. HonestInv'
    BY AccountsStay DEF LocalInv, PlanTypeInv, HonestInv
  <1>6. BatchInv'
    <2> SUFFICES ASSUME step = "continue", NEW w \in plan.queued
                 PROVE  /\ plan.batch[w].turn # 0
                        /\ plan.batch[w].status \in {"executor_active", "approval_required"}
                        /\ rows'[w].status # "creating"
                        /\ rows'[w].status # "none" => plan.batch[w].path = rows'[w].path
      BY DEF BatchInv, Found
    <2>1. w \in 1..created
      BY DEF LocalInv, PlanTypeInv, PlanType
    <2> QED BY <2>1 DEF LocalInv, BatchInv, Goes, RowsGoOn
  <1> QED BY <1>1, <1>2, <1>3, <1>4, <1>5, <1>6 DEF LocalInv

\* The cycle drops its plan, when it has no request under way.
LEMMA ResetKeepsPlan ==
  ASSUME TypeInv, Goes, step' \in Steps \ {"queue", "save_queued"}, plan' = NoPlan,
         pc'[Cycle] = "idle", \A l \in Lanes : pc'[l] = "idle",
         report' \in Reports, restored' \subseteq 1..created'
  PROVE  LocalInv'
  <1>1. PlaceInv'
    BY DEF PlaceInv, CycleAt, LanesAt
  <1>2. PlanTypeInv'
    <2>1. NoPlan \in PlanType' /\ IsFiniteSet(NoPlan.asked)
      BY NoPlanType, PlanTypeGrows, RegistryNumbers
    <2>2. NoPlan.wanted \subseteq NoPlan.asked
      BY DEF NoPlan
    <2> QED BY <2>1, <2>2 DEF PlanTypeInv
  <1>3. /\ NoPlan.made = {} /\ NoPlan.queued = {} /\ NoPlan.asked = {} /\ NoPlan.wanted = {}
        /\ ~NoPlan.broken
    BY DEF NoPlan
  <1>4. HoldsInv' /\ NewestInv'
    BY <1>3 DEF HoldsInv, NewestInv
  <1>5. CountInv'
    <2>1. Unfinished' = 0
      BY DEF Unfinished
    <2> QED BY <1>3, <2>1, FS_EmptySet DEF CountInv
  <1>6. HonestInv' /\ BatchInv'
    BY <1>3 DEF HonestInv, BatchInv
  <1> QED BY <1>1, <1>2, <1>4, <1>5, <1>6 DEF LocalInv

\* The cycle goes on to another step with what it holds, when it has no request
\* under way.
LEMMA MoveKeepsPlan ==
  ASSUME TypeInv, LocalInv, Goes,
         step \notin {"continue", "idle"},
         step' \in Steps \ {"queue", "save_queued", "continue"},
         step' = "idle" => plan' = NoPlan,
         step' \notin Planning => plan.made = {} /\ plan.asked = {},
         step' \notin Making => plan.wanted = {},
         step' \notin Making \union {"dispatch"} => plan.queued = {},
         step' \in Settling => ~plan'.broken,
         plan' \in PlanType, plan'.asked = plan.asked, plan'.wanted = plan.wanted,
         plan'.made = plan.made, plan'.queued = plan.queued, plan'.verdict = plan.verdict,
         plan.failed => plan'.failed, plan'.waiting = plan.waiting, plan'.broken = plan.broken,
         UNCHANGED <<pc, job, restored>>, pc[Cycle] = "idle", LanesIdle,
         report' \in Reports
  PROVE  LocalInv'
  <1>1. PlaceInv'
    BY DEF LanesIdle, PlaceInv, CycleAt, LanesAt
  <1>2. PlanTypeInv'
    <2>1. restored' \subseteq 1..created'
      BY RegistryNumbers DEF LocalInv, PlanTypeInv, Goes
    <2> QED BY <2>1, PlanTypeGrows, RegistryNumbers DEF LocalInv, PlanTypeInv
  <1>3. HoldsInv'
    BY DEF LocalInv, HoldsInv, Planning
  <1>4. NewestInv'
    BY DEF NewestInv
  <1>5. CountInv'
    <2>1. Unfinished = 0 /\ Unfinished' = 0
      BY DEF Unfinished
    <2> QED BY <2>1 DEF LocalInv, CountInv
  <1>6. HonestInv'
    BY AccountsStay DEF LocalInv, PlanTypeInv, HonestInv
  <1>7. BatchInv'
    BY DEF BatchInv
  <1> QED BY <1>1, <1>2, <1>3, <1>4, <1>5, <1>6, <1>7 DEF LocalInv

-----------------------------------------------------------------------------
(* The steps in which the cycle only goes on.                              *)

LEMMA IdlePlaces ==
  ASSUME PlaceInv
  PROVE  /\ step \notin {"create", "save_queued", "actions"} => pc[Cycle] = "idle"
         /\ step \notin {"continue", "dispatch"} => LanesIdle
         /\ \A l \in Lanes : pc[l] # "idle" => step \in {"continue", "dispatch"}
  BY DEF PlaceInv, CycleAt, LanesAt, LanesIdle

\* Before a plan is begun, and after it is over, there is none.
LEMMA EarlyMovesKeepPlan ==
  ASSUME TypeInv, LocalInv,
         SyncPlan \/ Recount \/ SaveStopReason \/ ChooseActions \/ EndActions \/ EndPlan
  PROVE  LocalInv'
  <1>1. /\ step \in {"sync", "recount", "stop", "go_on", "planner", "actions", "end"}
        /\ step' \in {"idle", "recount", "stop", "go_on", "planner", "actions"}
        /\ IF step' = "idle" THEN plan' = NoPlan ELSE ActionsCounted(plan, plan')
        /\ pc[Cycle] = "idle" \/ step # "actions"
        /\ UNCHANGED <<rows, created, trees, turns, started, pc, job, restored>>
        /\ report' \in Reports
    <2>1. report \in Reports
      BY DEF LocalInv, PlanTypeInv
    <2>2. StatusFromWorkers \in Reports /\ "none" \in Reports
      BY DEF StatusFromWorkers, Reports
    <2>3. /\ ActionsCounted(plan, plan)
          /\ ActionsCounted(plan, [plan EXCEPT !.actions = MaxActions])
      BY PlanAssumption, CountingActions DEF LocalInv, PlanTypeInv
    <2> QED BY <2>1, <2>2, <2>3 DEF SyncPlan, Recount, SaveStopReason, ChooseActions, EndActions,
            EndPlan, Move, vars
  <1>2. step \notin Planning \union {"continue", "idle"} /\ step' \in Steps
    BY <1>1 DEF Planning, Making, Settling, Steps
  <1>3. step' \notin Planning \union {"queue", "save_queued", "continue"}
    BY <1>1 DEF Planning, Making, Settling
  <1>4. pc[Cycle] = "idle" /\ LanesIdle
    BY <1>1, IdlePlaces DEF LocalInv
  <1>5. Goes
    BY <1>1, SameGoes DEF StoreSame
  <1>6. CASE step' = "idle"
    BY <1>1, <1>2, <1>3, <1>4, <1>5, <1>6, ResetKeepsPlan, RegistryNumbers
       DEF LanesIdle, LocalInv, PlanTypeInv
  <1>7. CASE step' # "idle"
    <2>1. /\ plan.made = {} /\ plan.asked = {} /\ plan.wanted = {} /\ plan.queued = {}
          /\ ActionsCounted(plan, plan')
      BY <1>1, <1>2, <1>7 DEF LocalInv, HoldsInv, Planning
    <2>2. step' \notin Settling /\ step' \in Steps \ {"queue", "save_queued", "continue"}
      BY <1>2, <1>3 DEF Planning
    <2> QED BY <1>1, <1>2, <1>3, <1>4, <1>5, <1>7, <2>1, <2>2, MoveKeepsPlan
            DEF ActionsCounted
  <1> QED BY <1>6, <1>7

\* The plan is settled: what was made stays, and failures are only added.
LEMMA SettlingKeepsPlan ==
  ASSUME TypeInv, LocalInv, BeginDispatch \/ Reload \/ Integrate \/ Apply
  PROVE  LocalInv'
  <1>1. plan \in PlanType
    BY DEF LocalInv, PlanTypeInv
  <1>2. /\ UNCHANGED <<rows, created, trees, turns, started, pc, job, report, restored>>
        /\ step \in {"create", "dispatch", "integrate", "apply"}
        /\ step' \in {"dispatch", "integrate", "apply", "finish"}
        /\ step = "create" => plan.wanted = {} /\ pc[Cycle] = "idle" /\ step' = "dispatch"
        /\ step = "dispatch" => plan.queued = {} /\ LanesIdle /\ ~plan.broken
        /\ step # "create" => step' # "dispatch"
    BY DEF BeginDispatch, Reload, TurnsReturned, Integrate, Apply, Move, vars
  <1>3. /\ plan' \in PlanType /\ plan'.asked = plan.asked /\ plan'.wanted = plan.wanted
        /\ plan'.made = plan.made /\ plan'.queued = plan.queued
        /\ plan'.verdict = plan.verdict
        /\ (plan.failed => plan'.failed) /\ plan'.waiting = plan.waiting
        /\ plan'.broken = plan.broken
    <2>1. CASE BeginDispatch
      BY <1>1, <2>1 DEF BeginDispatch, Move
    <2>2. CASE Reload
      <3>1. PICK x \in {"none", "integrate", "apply"}, b \in BOOLEAN :
              plan' = [plan EXCEPT !.wish = x, !.ready = b]
        BY <2>2 DEF Reload, Move, AllCompleted
      <3> QED BY <1>1, <3>1 DEF PlanType
    <2>3. CASE Integrate
      <3>1. plan' = plan \/ plan' = [plan EXCEPT !.ready = FALSE, !.failed = TRUE]
        BY <2>3 DEF Integrate, Move
      <3> QED BY <1>1, <3>1 DEF PlanType
    <2>4. CASE Apply
      <3>1. plan' = plan \/ plan' = [plan EXCEPT !.failed = TRUE]
        BY <2>4 DEF Apply, Move
      <3> QED BY <1>1, <3>1 DEF PlanType
    <2> QED BY <2>1, <2>2, <2>3, <2>4
  <1>4. pc[Cycle] = "idle" /\ LanesIdle
    BY <1>2, IdlePlaces DEF LocalInv
  <1>5. Goes
    BY <1>2, SameGoes DEF StoreSame
  <1>6. /\ step \notin {"continue", "idle"} /\ step' \in Planning /\ step' # "idle"
        /\ step' \in Steps \ {"queue", "save_queued", "continue"} /\ step' \notin Making
    BY <1>2 DEF Planning, Making, Settling, Steps
  <1>7. plan.wanted = {}
    BY <1>2 DEF LocalInv, HoldsInv, Making
  <1>8. step' \notin Making \union {"dispatch"} => plan.queued = {}
    BY <1>2 DEF LocalInv, HoldsInv, Making
  <1>9. step' \in Settling => ~plan'.broken
    BY <1>2, <1>3 DEF LocalInv, HonestInv, Settling
  <1>10. report' \in Reports
    BY <1>2 DEF LocalInv, PlanTypeInv
  <1> QED BY <1>2, <1>3, <1>4, <1>5, <1>6, <1>7, <1>8, <1>9, <1>10, MoveKeepsPlan

\* An error, or the result, ends the plan.
LEMMA EndsKeepPlan ==
  ASSUME TypeInv, LocalInv, TurnsContinued \/ BreakPlan \/ FinishPlan
  PROVE  LocalInv'
  <1>1. /\ UNCHANGED <<rows, created, trees, turns, started, pc, job, restored>>
        /\ plan' = NoPlan /\ step' \in {"idle", "sync", "end"}
        /\ step \in {"continue", "dispatch", "finish"}
        /\ step = "finish" \/ LanesIdle
    BY DEF TurnsContinued, BreakPlan, TurnsReturned, FinishPlan, Move, vars
  <1>2. report' \in Reports
    BY DEF LocalInv, PlanTypeInv, TurnsContinued, BreakPlan, FinishPlan, Reports
  <1>3. Goes
    BY <1>1, SameGoes DEF StoreSame
  <1>4. pc[Cycle] = "idle" /\ LanesIdle
    BY <1>1, IdlePlaces DEF LocalInv
  <1>5. step' \in Steps \ {"queue", "save_queued"}
    BY <1>1 DEF Steps
  <1> QED BY <1>1, <1>2, <1>3, <1>4, <1>5, ResetKeepsPlan DEF LanesIdle, LocalInv, PlanTypeInv

-----------------------------------------------------------------------------
(* The steps that make a plan.                                             *)

\* The sets of a plan are finite.
LEMMA PlanSets ==
  ASSUME TypeInv, LocalInv
  PROVE  /\ IsFiniteSet(plan.made) /\ IsFiniteSet(plan.wanted) /\ IsFiniteSet(plan.asked)
         /\ Cardinality(plan.made) \in Nat /\ Cardinality(plan.wanted) \in Nat
         /\ Cardinality(plan.asked) \in Nat
  <1>1. plan.made \subseteq 1..created /\ plan.wanted \subseteq plan.asked
        /\ IsFiniteSet(plan.asked)
    BY DEF LocalInv, PlanTypeInv, PlanType
  <1>2. IsFiniteSet(1..created)
    BY RegistryNumbers, FS_Interval
  <1> QED BY <1>1, <1>2, FS_Subset, FS_CardinalityType

\* While a plan is made nothing of it is settled and no goroutine is under way.
LEMMA MakeKeepsPlan ==
  ASSUME TypeInv, LocalInv, Goes, step' \in Making,
         pc'[Cycle] \in CycleAt', \A l \in Lanes : pc'[l] = "idle",
         plan' \in PlanType', plan'.wanted \subseteq plan'.asked, IsFiniteSet(plan'.asked),
         plan'.queued \subseteq plan'.made, \A w \in plan'.made : Accounted(w)',
         NewestInv', CountInv', UNCHANGED <<report, restored>>
  PROVE  LocalInv'
  <1>1. PlaceInv'
    BY DEF PlaceInv, LanesAt, Steps, Planning, Making
  <1>2. PlanTypeInv'
    BY RegistryNumbers DEF LocalInv, PlanTypeInv, Goes
  <1>3. HoldsInv'
    BY DEF HoldsInv, Planning, Making
  <1>4. HonestInv'
    BY DEF HonestInv, Making, Settling
  <1>5. BatchInv'
    BY DEF BatchInv, Making
  <1> QED BY <1>1, <1>2, <1>3, <1>4, <1>5 DEF LocalInv

LEMMA ListTurnsKeepsPlan ==
  ASSUME RegistryInv, LocalInv, ListTurns
  PROVE  LocalInv'
  <1> DEFINE left == {w \in 1..created : Continuable(rows[w])}
             listed == [w \in 1..MaxWorkers |-> IF w \in left THEN rows[w] ELSE NoRow]
  <1>1. /\ step = "idle" /\ UNCHANGED <<vars, report, restored>>
        /\ step' = (IF left = {} THEN "planner" ELSE "continue")
        /\ plan' = [plan EXCEPT !.queued = left, !.batch = listed]
    BY DEF ListTurns, Move
  <1>2. listed \in [1..MaxWorkers -> RowType]
    BY EmptyRowType, TableTypes DEF RegistryInv
  <1>3. left \subseteq 1..created /\ \A w \in left : listed[w] = rows[w] /\ Continuable(rows[w])
    BY RegistryNumbers DEF RegistryInv
  <1> HIDE DEF left, listed
  <1>4. plan = NoPlan /\ plan \in PlanType
    BY <1>1 DEF LocalInv, PlanTypeInv, HoldsInv
  <1>5. /\ plan' \in PlanType /\ plan'.queued = left /\ plan'.batch = listed
        /\ plan'.made = plan.made /\ plan'.asked = plan.asked /\ plan'.wanted = plan.wanted
        /\ plan'.broken = plan.broken
    BY <1>1, <1>2, <1>3, <1>4 DEF PlanType
  <1>6. plan.made = {} /\ plan.asked = {} /\ plan.wanted = {} /\ ~plan.broken
    BY <1>4 DEF NoPlan
  <1>7. Goes /\ TypeInv /\ UNCHANGED <<pc, rows>>
    BY <1>1, SameGoes DEF RegistryInv, StoreSame, vars
  <1>8. PlaceInv'
    <2>1. pc[Cycle] = "idle" /\ LanesIdle
      BY <1>1, IdlePlaces DEF LocalInv
    <2> QED BY <1>1, <1>7, <2>1 DEF PlaceInv, LanesIdle, CycleAt, LanesAt, Steps
  <1>9. PlanTypeInv'
    <2>1. plan' \in PlanType'
      BY <1>5, <1>7, PlanTypeGrows, RegistryNumbers
    <2>2. IsFiniteSet(plan'.asked) /\ plan'.wanted \subseteq plan'.asked
      BY <1>5, <1>6, FS_EmptySet
    <2> QED BY <1>1, <2>1, <2>2 DEF LocalInv, PlanTypeInv, vars
  <1>10. HoldsInv' /\ NewestInv' /\ HonestInv'
    BY <1>1, <1>5, <1>6 DEF HoldsInv, NewestInv, HonestInv, Planning, Making, Settling
  <1>11. CountInv'
    <2>1. Unfinished' = 0
      BY <1>1 DEF Unfinished
    <2> QED BY <1>5, <1>6, <2>1, FS_EmptySet DEF CountInv
  <1>12. BatchInv'
    BY <1>3, <1>5, <1>7 DEF BatchInv, Continuable, Found
  <1> QED BY <1>8, <1>9, <1>10, <1>11, <1>12 DEF LocalInv

LEMMA BeginPlanKeepsPlan ==
  ASSUME TypeInv, LocalInv, BeginPlan
  PROVE  LocalInv'
  <1>1. PICK paths \in SUBSET Paths \ {{}} :
          /\ step = "planner" /\ step' = "create"
          /\ plan' = [plan EXCEPT !.asked = paths, !.wanted = paths]
          /\ UNCHANGED <<vars, report, restored>>
    BY DEF BeginPlan, Move
  <1>2. Goes /\ pc' = pc
    BY <1>1, SameGoes DEF StoreSame, vars
  <1>3. pc[Cycle] = "idle" /\ LanesIdle
    BY <1>1, IdlePlaces DEF LocalInv
  <1>4. plan \in PlanType /\ plan.made = {} /\ plan.queued = {}
    BY <1>1 DEF LocalInv, PlanTypeInv, HoldsInv, Planning, Making, Settling
  <1>5. /\ plan' \in PlanType /\ plan'.asked = paths /\ plan'.wanted = paths
        /\ plan'.made = {} /\ plan'.queued = {}
    BY <1>1, <1>4 DEF PlanType
  <1>6. IsFiniteSet(paths) /\ Cardinality(paths) \in Nat
    BY FS_Subset, FS_CardinalityType, PlanAssumption
  <1>7. CountInv'
    <2>1. Unfinished' = 0
      BY <1>2, <1>3 DEF Unfinished
    <2> QED BY <1>5, <1>6, <2>1, FS_EmptySet DEF CountInv
  <1>8. NewestInv'
    BY <1>1, <1>2, <1>3 DEF NewestInv
  <1>9. pc'[Cycle] \in CycleAt' /\ \A l \in Lanes : pc'[l] = "idle"
    BY <1>1, <1>2, <1>3 DEF CycleAt, LanesIdle
  <1>10. plan' \in PlanType' /\ step' \in Making
    BY <1>1, <1>2, <1>5, PlanTypeGrows, RegistryNumbers DEF Making
  <1> QED BY <1>1, <1>2, <1>5, <1>6, <1>7, <1>8, <1>9, <1>10, MakeKeepsPlan

LEMMA CreateWorkerKeepsPlan ==
  ASSUME RegistryInv, LocalInv, CreateWorker
  PROVE  LocalInv'
  <1>1. /\ step = "create" /\ step' = "create" /\ pc[Cycle] = "idle" /\ InsertRow(Cycle)
        /\ UNCHANGED <<report, restored>>
    BY DEF CreateWorker
  <1>2. PICK p \in plan.wanted : plan' = [plan EXCEPT !.wanted = @ \ {p}]
    BY DEF CreateWorker
  <1>3. TypeInv /\ Cycle \in Requests /\ Cycle \notin Lanes /\ Lanes \subseteq Requests
    BY PlanAssumption DEF RegistryInv
  <1>4. Goes
    BY <1>1, <1>3, RegistryStepGoes DEF RegistryStep, Create
  <1>5. plan \in PlanType /\ plan.wanted \subseteq plan.asked /\ IsFiniteSet(plan.asked)
        /\ plan.queued \subseteq plan.made
    BY <1>1 DEF LocalInv, PlanTypeInv, HoldsInv
  <1>6. /\ plan' \in PlanType /\ plan'.wanted = plan.wanted \ {p}
        /\ plan'.asked = plan.asked /\ plan'.made = plan.made /\ plan'.queued = plan.queued
        /\ plan'.verdict = plan.verdict /\ plan'.failed = plan.failed
        /\ plan'.waiting = plan.waiting /\ plan'.broken = plan.broken
    BY <1>2, <1>5 DEF PlanType
  <1>7. pc'[Cycle] = "add" /\ \A l \in Lanes : pc'[l] = pc[l] /\ job'[l] = job[l]
    BY <1>1, <1>3 DEF InsertRow, Goto, TypeInv
  <1>8. job'[Cycle].worker = created + 1
    <2>1. PICK row : job' = [job EXCEPT ![Cycle] = [NoJob EXCEPT !.worker = created + 1,
                                                                 !.copy = row]]
      BY <1>1 DEF InsertRow
    <2> DEFINE j == [worker |-> created + 1, copy |-> row, turn |-> 0]
    <2>2. job' = [job EXCEPT ![Cycle] = j] /\ j.worker = created + 1
      BY <2>1, NewJob
    <2> HIDE DEF j
    <2>3. job'[Cycle] = j
      BY <1>3, <2>2 DEF TypeInv
    <2> QED BY <2>2, <2>3
  <1>9. \A l \in Lanes : pc'[l] = "idle"
    BY <1>1, <1>7, IdlePlaces DEF LocalInv, LanesIdle
  <1>10. \A w \in plan'.made : Accounted(w)'
    BY <1>3, <1>4, <1>5, <1>6, <1>7, AccountsStay DEF LocalInv, HonestInv
  <1>11. NewestInv'
    <2>1. \A v \in plan.made : v < created + 1
      BY <1>3, <1>5, RegistryNumbers DEF PlanType
    <2> QED BY <1>1, <1>6, <1>8, <2>1 DEF NewestInv
  <1>12. CountInv'
    <2>1. Unfinished = 0 /\ Unfinished' = 1
      BY <1>1, <1>7 DEF Unfinished
    <2>2. Cardinality(plan.wanted \ {p}) = Cardinality(plan.wanted) - 1
      BY <1>3, PlanSets, FS_RemoveElement
    <2> QED BY <1>3, <1>6, <2>1, <2>2, PlanSets DEF LocalInv, CountInv
  <1>13. pc'[Cycle] \in CycleAt' /\ step' \in Making
    BY <1>1, <1>7 DEF CycleAt, Making
  <1>14. plan' \in PlanType'
    BY <1>3, <1>4, <1>6, PlanTypeGrows, RegistryNumbers
  <1> QED BY <1>1, <1>3, <1>4, <1>5, <1>6, <1>9, <1>10, <1>11, <1>12, <1>13, <1>14,
             MakeKeepsPlan

LEMMA CreateRefusedKeepsPlan ==
  ASSUME TypeInv, LocalInv, CreateRefused
  PROVE  LocalInv'
  <1>1. PICK p \in plan.wanted : plan' = [plan EXCEPT !.wanted = @ \ {p}, !.failed = TRUE]
    BY DEF CreateRefused
  <1>2. /\ step = "create" /\ step' = "create" /\ pc[Cycle] = "idle"
        /\ UNCHANGED <<vars, report, restored>>
    BY DEF CreateRefused
  <1>3. Goes /\ UNCHANGED <<pc, job>>
    BY <1>2, SameGoes DEF StoreSame, vars
  <1>4. plan \in PlanType /\ plan.wanted \subseteq plan.asked /\ IsFiniteSet(plan.asked)
        /\ plan.queued \subseteq plan.made
    BY <1>2 DEF LocalInv, PlanTypeInv, HoldsInv
  <1>5. /\ plan' \in PlanType /\ plan'.wanted = plan.wanted \ {p}
        /\ plan'.asked = plan.asked /\ plan'.made = plan.made /\ plan'.queued = plan.queued
        /\ plan'.verdict = plan.verdict /\ plan'.failed
        /\ plan'.waiting = plan.waiting /\ plan'.broken = plan.broken
    BY <1>1, <1>4 DEF PlanType
  <1>6. \A l \in Lanes : pc'[l] = "idle"
    BY <1>2, <1>3, IdlePlaces DEF LocalInv, LanesIdle
  <1>7. \A w \in plan'.made : Accounted(w)'
    BY <1>5 DEF Accounted
  <1>8. NewestInv'
    BY <1>2, <1>3 DEF NewestInv
  <1>9. CountInv'
    <2>1. Unfinished = 0 /\ Unfinished' = 0
      BY <1>2, <1>3 DEF Unfinished
    <2>2. Cardinality(plan.wanted \ {p}) = Cardinality(plan.wanted) - 1
      BY PlanSets, FS_RemoveElement
    <2> QED BY <1>5, <2>1, <2>2, PlanSets DEF LocalInv, CountInv
  <1>10. pc'[Cycle] \in CycleAt' /\ step' \in Making
    BY <1>2, <1>3 DEF CycleAt, Making
  <1>11. plan' \in PlanType'
    BY <1>3, <1>5, PlanTypeGrows, RegistryNumbers
  <1> QED BY <1>2, <1>3, <1>4, <1>5, <1>6, <1>7, <1>8, <1>9, <1>10, <1>11, MakeKeepsPlan

LEMMA MakeWorktreeKeepsPlan ==
  ASSUME RegistryInv, LocalInv, MakeWorktree
  PROVE  LocalInv'
  <1>1. /\ step = "create" /\ step' = "create" /\ UNCHANGED <<report, restored>>
        /\ AddWorktree(Cycle) \/ UndoRow(Cycle)
    BY DEF MakeWorktree
  <1>2. TypeInv /\ Cycle \in Requests /\ Cycle \notin Lanes /\ Lanes \subseteq Requests
    BY PlanAssumption DEF RegistryInv
  <1>3. Goes
    BY <1>1, <1>2, RegistryStepGoes DEF RegistryStep, Create
  <1>4. /\ plan \in PlanType /\ plan.wanted \subseteq plan.asked /\ IsFiniteSet(plan.asked)
        /\ plan.queued \subseteq plan.made
    BY <1>1 DEF LocalInv, PlanTypeInv, HoldsInv
  <1>5. /\ plan' \in PlanType /\ plan'.wanted = plan.wanted
        /\ plan'.asked = plan.asked /\ plan'.made = plan.made /\ plan'.queued = plan.queued
        /\ plan'.verdict = plan.verdict
        /\ plan'.waiting = plan.waiting /\ plan'.broken = plan.broken
        /\ \/ /\ AddWorktree(Cycle) /\ plan'.failed = plan.failed
           \/ /\ UndoRow(Cycle) /\ plan'.failed
    <2>1. CASE AddWorktree(Cycle) /\ plan' = plan
      BY <1>4, <2>1
    <2>2. CASE UndoRow(Cycle) /\ plan' = [plan EXCEPT !.failed = TRUE]
      BY <1>4, <2>2 DEF PlanType
    <2> QED BY <2>1, <2>2 DEF MakeWorktree
  <1>6. /\ pc[Cycle] # "idle"
        /\ \A l \in Lanes : pc'[l] = pc[l] /\ job'[l] = job[l]
        /\ \/ /\ AddWorktree(Cycle) /\ pc'[Cycle] \in {"created", "undo"}
              /\ job'[Cycle] = job[Cycle]
           \/ UndoRow(Cycle) /\ pc'[Cycle] = "idle"
    BY <1>1, <1>2 DEF AddWorktree, UndoRow, Return, Goto, TypeInv
  <1>7. \A l \in Lanes : pc'[l] = "idle"
    BY <1>1, <1>6, IdlePlaces DEF LocalInv, LanesIdle
  <1>8. \A w \in plan'.made : Accounted(w)'
    BY <1>2, <1>3, <1>4, <1>5, <1>6, AccountsStay DEF LocalInv, HonestInv
  <1>9. NewestInv'
    BY <1>1, <1>5, <1>6 DEF LocalInv, NewestInv
  <1>10. CountInv'
    <2>1. Unfinished = 1 /\ Unfinished' \in {0, 1} /\ (~plan'.failed => Unfinished' = 1)
      BY <1>1, <1>5, <1>6 DEF Unfinished, AddWorktree, UndoRow
    <2> QED BY <1>2, <1>5, <2>1, PlanSets DEF LocalInv, CountInv
  <1>11. pc'[Cycle] \in CycleAt' /\ step' \in Making
    BY <1>1, <1>6 DEF CycleAt, Making
  <1>12. plan' \in PlanType'
    BY <1>2, <1>3, <1>5, PlanTypeGrows, RegistryNumbers
  <1> QED BY <1>1, <1>2, <1>3, <1>4, <1>5, <1>7, <1>8, <1>9, <1>10, <1>11, <1>12,
             MakeKeepsPlan

LEMMA WorkerCreatedKeepsPlan ==
  ASSUME RegistryInv, LocalInv, WorkerCreated
  PROVE  LocalInv'
  <1> DEFINE w == job[Cycle].worker
  <1>1. /\ step = "create" /\ step' = "queue" /\ UNCHANGED <<report, restored>>
        /\ SaveCreated(Cycle)
        /\ plan' = [plan EXCEPT !.made = @ \union {w}, !.queued = @ \union {w}]
    BY DEF WorkerCreated, Move
  <1>2. TypeInv /\ Cycle \in Requests /\ Cycle \notin Lanes /\ Lanes \subseteq Requests
    BY PlanAssumption DEF RegistryInv
  <1>3. Goes
    BY <1>1, <1>2, RegistryStepGoes DEF RegistryStep, Create
  <1>4. /\ plan \in PlanType /\ plan.wanted \subseteq plan.asked /\ IsFiniteSet(plan.asked)
        /\ plan.queued \subseteq plan.made
    BY <1>1 DEF LocalInv, PlanTypeInv, HoldsInv
  <1>5. /\ pc[Cycle] = "created" /\ pc'[Cycle] = "idle"
        /\ \A l \in Lanes : pc'[l] = pc[l] /\ job'[l] = job[l]
    BY <1>1, <1>2 DEF SaveCreated, Return, Goto, TypeInv
  <1>6. w \in 1..created /\ \A v \in plan.made : v < w
    <2>1. w \in 0..created /\ w # 0
      BY <1>2, <1>5, HeldTypes DEF TypeInv
    <2> QED BY <1>1, <1>2, <1>5, <2>1, RegistryNumbers DEF LocalInv, NewestInv
  <1> HIDE DEF w
  <1>7. /\ plan' \in PlanType /\ plan'.wanted = plan.wanted
        /\ plan'.asked = plan.asked /\ plan'.made = plan.made \union {w}
        /\ plan'.queued = plan.queued \union {w}
        /\ plan'.verdict = plan.verdict /\ plan'.failed = plan.failed
        /\ plan'.waiting = plan.waiting /\ plan'.broken = plan.broken
    BY <1>1, <1>4, <1>6 DEF PlanType
  <1>8. \A l \in Lanes : pc'[l] = "idle"
    BY <1>1, <1>5, IdlePlaces DEF LocalInv, LanesIdle
  <1>9. ASSUME NEW v \in plan'.made PROVE Accounted(v)'
    <2>1. CASE v = w
      BY <1>7, <2>1 DEF Accounted
    <2>2. CASE v \in plan.made
      BY <1>2, <1>3, <1>4, <1>5, <1>7, <2>2, AccountsStay DEF LocalInv, HonestInv
    <2> QED BY <1>7, <2>1, <2>2
  <1>10. NewestInv'
    <2>1. w \in plan'.queued /\ \A v \in plan'.made : v <= w
      BY <1>2, <1>4, <1>6, <1>7, RegistryNumbers DEF PlanType
    <2> QED BY <1>1, <2>1 DEF NewestInv
  <1>11. CountInv'
    <2>1. Unfinished = 1 /\ Unfinished' = 0
      BY <1>1, <1>5 DEF Unfinished
    <2>2. w \notin plan.made
      BY <1>2, <1>4, <1>6, RegistryNumbers DEF PlanType
    <2>3. Cardinality(plan.made \union {w}) = Cardinality(plan.made) + 1
      BY <1>2, <2>2, PlanSets, FS_AddElement
    <2> QED BY <1>2, <1>7, <2>1, <2>3, PlanSets DEF LocalInv, CountInv
  <1>12. pc'[Cycle] \in CycleAt' /\ step' \in Making
    BY <1>1, <1>5 DEF CycleAt, Making
  <1>13. plan' \in PlanType'
    BY <1>2, <1>3, <1>7, PlanTypeGrows, RegistryNumbers
  <1>14. plan'.queued \subseteq plan'.made
    BY <1>4, <1>7
  <1> QED BY <1>1, <1>2, <1>3, <1>4, <1>7, <1>8, <1>9, <1>10, <1>11, <1>12, <1>13, <1>14,
             MakeKeepsPlan

\* The worker that is queued is one of the plan's.
LEMMA NewestIsMade ==
  ASSUME TypeInv, LocalInv, step \in {"queue", "save_queued"}
  PROVE  /\ Newest \in plan.queued /\ Newest \in plan.made /\ Newest \in 1..created
         /\ \A v \in plan.made : v <= Newest
  <1>1. plan.queued \subseteq plan.made /\ plan.made \subseteq 1..created
    BY DEF LocalInv, PlanTypeInv, PlanType, HoldsInv
  <1>2. PICK w \in plan.queued : \A v \in plan.made : v <= w
    BY DEF LocalInv, NewestInv
  <1>3. Newest \in plan.made /\ \A v \in plan.made : v <= Newest
    BY <1>1, <1>2 DEF Newest
  <1>4. Newest = w
    BY <1>1, <1>2, <1>3, RegistryNumbers
  <1> QED BY <1>1, <1>2, <1>3, <1>4

\* What a request holds that takes up a worker.
LEMMA TakenJob ==
  ASSUME TypeInv, NEW q \in Requests, NEW w, NEW s, Take(q, w, s)
  PROVE  /\ job'[q].worker = w /\ job'[q].turn = 0
         /\ rows[w] \in RowType => job'[q].copy.status = s
         /\ \A r \in Requests \ {q} : job'[r] = job[r]
  <1> DEFINE row == [rows[w] EXCEPT !.status = s]
             j == [worker |-> w, copy |-> row, turn |-> 0]
  <1>1. job' = [job EXCEPT ![q] = j]
    BY NewJob DEF Take
  <1>2. j.worker = w /\ j.turn = 0 /\ j.copy = row
    OBVIOUS
  <1> HIDE DEF j
  <1>3. job'[q] = j /\ \A r \in Requests \ {q} : job'[r] = job[r]
    BY <1>1 DEF TypeInv
  <1>4. rows[w] \in RowType => row.status = s
    BY DEF RowType
  <1> HIDE DEF row
  <1> QED BY <1>2, <1>3, <1>4

LEMMA QueueKeepsPlan ==
  ASSUME TypeInv, LocalInv, ReadForQueue
  PROVE  LocalInv'
  <1>1. /\ step = "queue" /\ UNCHANGED <<rows, created, trees, turns, started>>
        /\ UNCHANGED <<report, restored>> /\ Cycle \in Requests /\ Cycle \notin Lanes
        /\ Lanes \subseteq Requests
    BY PlanAssumption DEF ReadForQueue
  <1>2. Goes
    BY <1>1, SameGoes DEF StoreSame
  <1>3. /\ plan \in PlanType /\ plan.wanted \subseteq plan.asked /\ IsFiniteSet(plan.asked)
        /\ plan.queued \subseteq plan.made
    BY <1>1 DEF LocalInv, PlanTypeInv, HoldsInv
  <1>4. pc[Cycle] = "idle" /\ LanesIdle
    BY <1>1, IdlePlaces DEF LocalInv
  <1>5. CASE Dispatchable(Newest)
    <2>1. /\ step' = "save_queued" /\ plan' = plan
          /\ Take(Cycle, Newest, "pending") /\ Goto(Cycle, "queue")
      BY <1>5 DEF ReadForQueue, Move
    <2>2. /\ pc'[Cycle] = "queue" /\ job'[Cycle].worker = Newest
          /\ \A l \in Lanes : pc'[l] = "idle" /\ pc[l] = "idle"
      BY <1>1, <1>4, <2>1, TakenJob DEF Goto, TypeInv, LanesIdle
    <2>3. NewestInv'
      <3>1. Newest' = Newest
        BY <2>1 DEF Newest
      <3> QED BY <1>1, <2>1, <2>2, <3>1 DEF LocalInv, NewestInv
    <2>4. CountInv'
      <3>1. Unfinished = 0 /\ Unfinished' = 0
        BY <1>1, <2>1 DEF Unfinished
      <3> QED BY <2>1, <3>1 DEF LocalInv, CountInv
    <2>5. \A w \in plan'.made : Accounted(w)'
      BY <1>2, <1>3, <2>1, <2>2, AccountsStay DEF LocalInv, HonestInv
    <2>6. pc'[Cycle] \in CycleAt' /\ step' \in Making
      BY <2>1, <2>2 DEF CycleAt, Making
    <2>7. plan' \in PlanType'
      BY <1>2, <1>3, <2>1, PlanTypeGrows, RegistryNumbers
    <2> QED BY <1>1, <1>2, <1>3, <2>1, <2>2, <2>3, <2>4, <2>5, <2>6, <2>7, MakeKeepsPlan
  <1>6. CASE ~Dispatchable(Newest)
    <2>1. /\ step' = "create" /\ UNCHANGED <<pc, job>>
          /\ plan' = [plan EXCEPT !.failed = TRUE, !.queued = @ \ {Newest}]
      BY <1>6 DEF ReadForQueue, Move
    <2>2. /\ plan' \in PlanType /\ plan'.wanted = plan.wanted
          /\ plan'.asked = plan.asked /\ plan'.made = plan.made
          /\ plan'.queued = plan.queued \ {Newest}
          /\ plan'.verdict = plan.verdict /\ plan'.failed
      BY <1>3, <2>1 DEF PlanType
    <2>3. NewestInv'
      BY <1>4, <2>1 DEF NewestInv
    <2>4. CountInv'
      <3>1. Unfinished = 0 /\ Unfinished' = 0
        BY <1>1, <1>4, <2>1 DEF Unfinished
      <3> QED BY <2>2, <3>1 DEF LocalInv, CountInv
    <2>5. \A w \in plan'.made : Accounted(w)'
      BY <2>2 DEF Accounted
    <2>6. /\ pc'[Cycle] \in CycleAt' /\ step' \in Making
          /\ \A l \in Lanes : pc'[l] = "idle"
      BY <1>4, <2>1 DEF CycleAt, Making, LanesIdle
    <2>7. plan' \in PlanType'
      BY <1>2, <2>2, PlanTypeGrows, RegistryNumbers
    <2> QED BY <1>1, <1>2, <1>3, <2>2, <2>3, <2>4, <2>5, <2>6, <2>7, MakeKeepsPlan
  <1> QED BY <1>5, <1>6

LEMMA SaveQueuedKeepsPlan ==
  ASSUME RegistryInv, LocalInv, SaveQueued
  PROVE  RegistryInv' /\ LocalInv' /\ Goes
  <1>1. /\ step = "save_queued" /\ Save(Cycle, job[Cycle].copy) /\ Return(Cycle)
        /\ UNCHANGED <<created, trees, turns, started, reason, losses, report, restored>>
        /\ lost' \in {lost, lost \union plan.queued}
        /\ Cycle \in Requests /\ Cycle \notin Lanes /\ Lanes \subseteq Requests
    BY PlanAssumption DEF SaveQueued
  <1>2. TypeInv
    BY DEF RegistryInv
  <1>3. /\ plan \in PlanType /\ plan.wanted \subseteq plan.asked /\ IsFiniteSet(plan.asked)
        /\ plan.queued \subseteq plan.made
    BY <1>1 DEF LocalInv, PlanTypeInv, HoldsInv
  <1>4. pc[Cycle] = "queue" /\ LanesIdle
    BY <1>1, IdlePlaces DEF LocalInv, PlaceInv, CycleAt
  <1>5. RegistryInv' /\ Goes
    <2>1. lost' \subseteq 1..created
      BY <1>1, <1>2, <1>3, TableTypes DEF PlanType
    <2> QED BY <1>1, <1>4, <2>1, WriteKeeps
  <1>6. pc'[Cycle] = "idle" /\ \A l \in Lanes : /\ pc'[l] = "idle"
                                                 /\ pc'[l] = pc[l] /\ job'[l] = job[l]
    BY <1>1, <1>2, <1>4 DEF Return, Goto, TypeInv, LanesIdle
  <1>7. CASE rows[Newest].status = "none"
    <2>1. step' = "idle" /\ plan' = NoPlan
      BY <1>7 DEF SaveQueued, Move
    <2>2. report' \in Reports /\ restored' \subseteq 1..created'
      BY <1>1 DEF LocalInv, PlanTypeInv
    <2>3. step' \in Steps \ {"queue", "save_queued"}
      BY <2>1 DEF Steps
    <2> QED BY <1>2, <1>5, <1>6, <2>1, <2>2, <2>3, ResetKeepsPlan
  <1>8. CASE rows[Newest].status # "none"
    <2>1. step' = "create" /\ plan' = plan
      BY <1>8 DEF SaveQueued, Move
    <2>2. NewestInv'
      BY <1>6, <2>1 DEF NewestInv
    <2>3. CountInv'
      <3>1. Unfinished = 0 /\ Unfinished' = 0
        BY <1>1, <1>6, <2>1 DEF Unfinished
      <3> QED BY <2>1, <3>1 DEF LocalInv, CountInv
    <2>4. \A w \in plan'.made : Accounted(w)'
      BY <1>2, <1>3, <1>5, <1>6, <2>1, AccountsStay DEF LocalInv, HonestInv
    <2>5. pc'[Cycle] \in CycleAt' /\ step' \in Making
      BY <1>6, <2>1 DEF CycleAt, Making
    <2>6. plan' \in PlanType'
      BY <1>2, <1>3, <1>5, <2>1, PlanTypeGrows, RegistryNumbers
    <2>7. LocalInv'
      BY <1>1, <1>2, <1>3, <1>5, <1>6, <2>1, <2>2, <2>3, <2>4, <2>5, <2>6, MakeKeepsPlan
    <2> QED BY <1>5, <2>7
  <1> QED BY <1>7, <1>8

-----------------------------------------------------------------------------
(* Worker actions.                                                         *)

\* A dispatch, queued or not, takes up its row under a status that is not a verdict,
\* or under the one it has.
LEMMA TakeTakes ==
  ASSUME RegistryInv, NEW q \in Requests, NEW place \in Places, place # "turn",
         NEW w \in 1..created, Dispatchable(w),
         NEW s \in {"assigned", "pending", rows[w].status}, Take(q, w, s), Goto(q, place),
         StoreSame, UNCHANGED <<reason, lost, losses>>
  PROVE  Takes(q, place, [worker |-> w, copy |-> [rows[w] EXCEPT !.status = s], turn |-> 0])
  <1>1. rows[w] \in RowType /\ w \in 1..MaxWorkers /\ created \in Nat /\ started \in Nat
    BY RegistryNumbers, TableTypes DEF RegistryInv
  <1>2. rows[w].status \notin {"none", "creating"} /\ Earned(rows[w])
    BY <1>1 DEF Dispatchable, Active, RegistryInv, VerdictInv
  <1>3. s \in Statuses \ {"none", "creating"} /\ (s = "completed" => rows[w].status = s)
    BY <1>1, <1>2 DEF RowType, Statuses
  <1> DEFINE row == [rows[w] EXCEPT !.status = s]
             j == [worker |-> w, copy |-> row, turn |-> 0]
  <1>4. /\ row \in RowType /\ row.status = s /\ row.path = rows[w].path
        /\ row.turn = rows[w].turn
    BY <1>1, <1>3 DEF RowType
  <1>5. job' = [job EXCEPT ![q] = j]
    BY NewJob DEF Take
  <1> HIDE DEF row
  <1>6. j \in JobType /\ j.worker = w /\ j.copy = row
    BY <1>1, <1>4 DEF JobType
  <1>7. Earned(row)
    BY <1>2, <1>3, <1>4 DEF Earned
  <1> HIDE DEF j
  <1>8. Takes(q, place, j)
    BY <1>1, <1>2, <1>3, <1>4, <1>5, <1>6, <1>7 DEF Takes
  <1> QED BY <1>8 DEF j, row

LEMMA NextActionCounts ==
  ASSUME plan \in PlanType, NextAction
  PROVE  ActionsCounted(plan, plan')
  <1>1. plan.actions \in Nat
    BY DEF PlanType
  <1>2. plan.actions > 0 => plan.actions - 1 \in Nat
    BY <1>1
  <1> QED BY <1>2, CountingActions DEF NextAction

LEMMA ActKeepsPlan ==
  ASSUME RegistryInv, LocalInv, Act
  PROVE  RegistryInv' /\ LocalInv' /\ Goes
  <1> DEFINE Acting == {"idle", "add", "undo", "created", "assign", "activate",
                        "start", "turn", "save", "remove", "delete"}
  <1>1. TypeInv /\ Cycle \in Requests /\ Cycle \notin Lanes /\ Lanes \subseteq Requests
    BY PlanAssumption DEF RegistryInv
  <1>2. /\ step = "actions" /\ UNCHANGED <<step, report, restored, cycles, requests>>
        /\ ActionsCounted(plan, plan')
    <2>1. step = "actions"
      BY DEF Act, MakeWorker, ReadForAssign, SaveAssigned, DispatchWorker, RemoveWorker,
         LocalInv, PlaceInv, CycleAt
    <2>2. ActionsCounted(plan, plan')
      BY NextActionCounts DEF Act, LocalInv, PlanTypeInv
    <2> QED BY <2>1, <2>2 DEF Act
  <1>3. RegistryInv' /\ Goes
    <2>1. CASE MakeWorker \/ DispatchWorker \/ RemoveWorker
      <3>1. RegistryStep(Cycle)
        BY <2>1 DEF MakeWorker, DispatchWorker, RemoveWorker, RegistryStep, Dispatch
      <3> QED BY <1>1, <3>1, RegistryStepKeeps, RegistryStepGoes
    <2>2. CASE ReadForAssign
      <3>1. PICK w \in 1..created : Dispatchable(w) /\ Take(Cycle, w, "assigned")
        BY <2>2 DEF ReadForAssign
      <3>2. Goto(Cycle, "assign") /\ StoreSame /\ UNCHANGED <<reason, lost, losses>>
        BY <2>2 DEF ReadForAssign, StoreSame
      <3>3. "assign" \in Places /\ "assign" \notin Creating \union {"idle", "delete"}
        BY DEF Places, Creating
      <3>4. "assigned" \in {"assigned", "pending", rows[w].status}
        OBVIOUS
      <3>5. Takes(Cycle, "assign", [worker |-> w, turn |-> 0,
                                    copy |-> [rows[w] EXCEPT !.status = "assigned"]])
        BY <1>1, <3>1, <3>2, <3>3, <3>4, TakeTakes
      <3> QED BY <1>1, <3>2, <3>3, <3>5, TakeKeeps, SameGoes
    <2>3. CASE SaveAssigned
      <3>1. /\ pc[Cycle] = "assign" /\ Save(Cycle, job[Cycle].copy)
            /\ Return(Cycle) \/ (Goto(Cycle, "activate") /\ UNCHANGED job)
            /\ UNCHANGED <<created, trees, turns, started, reason, losses, lost>>
        BY <2>3 DEF SaveAssigned
      <3>2. lost' \subseteq 1..created
        BY <1>1, <3>1, TableTypes
      <3> QED BY <1>1, <3>1, <3>2, WriteKeeps
    <2> QED BY <2>1, <2>2, <2>3 DEF Act
  <1>4. pc'[Cycle] \in Acting /\ \A l \in Lanes : pc'[l] = pc[l] /\ job'[l] = job[l]
    <2>1. CASE Create(Cycle) \/ Remove(Cycle)
      BY <1>1, <2>1 DEF Create, InsertRow, AddWorktree, UndoRow, SaveCreated, Remove,
         ReadForRemoval, Read, RemoveWorktree, DeleteRow, Return, Goto, TypeInv
    <2>2. CASE Activate(Cycle) \/ StartTurn(Cycle) \/ StartFails(Cycle)
               \/ TurnReturns(Cycle) \/ SaveResult(Cycle)
      BY <1>1, <2>2 DEF Activate, StartTurn, StartFails, TurnReturns, SaveResult, Return,
         Goto, TypeInv
    <2>3. CASE ReadForAssign \/ SaveAssigned
      BY <1>1, <2>3 DEF ReadForAssign, Take, SaveAssigned, Return, Goto, TypeInv
    <2> QED BY ZenonT(40), <2>1, <2>2, <2>3 DEF Act, MakeWorker, DispatchWorker, RemoveWorker
  <1>5. PlaceInv'
    <2>1. step \in Steps /\ \A l \in Lanes : pc[l] = "idle"
      BY <1>2, IdlePlaces DEF LocalInv, PlaceInv, LanesIdle
    <2> QED BY <1>2, <1>4, <2>1 DEF PlaceInv, CycleAt, LanesAt
  <1>6. PlanTypeInv'
    <2>1. plan' \in PlanType'
      BY <1>1, <1>2, <1>3, PlanTypeGrows, RegistryNumbers DEF ActionsCounted
    <2>2. restored \subseteq 1..created'
      BY <1>1, <1>3, RegistryNumbers DEF LocalInv, PlanTypeInv, Goes
    <2> QED BY <1>2, <2>1, <2>2 DEF LocalInv, PlanTypeInv, ActionsCounted
  <1>7. /\ step' = "actions" /\ plan.made = {} /\ plan'.made = {}
        /\ plan'.asked = plan.asked /\ plan'.wanted = plan.wanted
        /\ plan'.queued = plan.queued /\ plan'.failed = plan.failed
    BY <1>2 DEF LocalInv, HoldsInv, Planning, Making, Settling, ActionsCounted
  <1>8. HoldsInv' /\ NewestInv' /\ HonestInv' /\ BatchInv'
    BY <1>2, <1>7 DEF LocalInv, HoldsInv, NewestInv, HonestInv, BatchInv, Settling
  <1>9. CountInv'
    <2>1. Unfinished = 0 /\ Unfinished' = 0
      BY <1>2, <1>7 DEF Unfinished
    <2> QED BY <1>7, <2>1 DEF LocalInv, CountInv
  <1> QED BY <1>3, <1>5, <1>6, <1>8, <1>9 DEF LocalInv

-----------------------------------------------------------------------------
(* The goroutines.                                                         *)

\* What a step of a goroutine has to show.
LEMMA LaneKeepsPlan ==
  ASSUME TypeInv, LocalInv, Goes, NEW l \in Lanes, pc'[l] \in LanesAt,
         step \in {"continue", "dispatch"},
         pc'[Cycle] = pc[Cycle], \A k \in Lanes \ {l} : pc'[k] = pc[k],
         plan' \in PlanType, plan'.asked = plan.asked, plan'.wanted = plan.wanted,
         plan'.made = plan.made, plan'.batch = plan.batch, plan'.queued \subseteq plan.queued,
         plan.failed => plan'.failed,
         \A w \in plan.made : Accounted(w) => Accounted(w)',
         UNCHANGED <<step, report, restored>>
  PROVE  LocalInv'
  <1>1. PlaceInv'
    BY DEF LocalInv, PlaceInv, CycleAt, LanesAt
  <1>2. PlanTypeInv'
    <2>1. restored \subseteq 1..created'
      BY RegistryNumbers DEF LocalInv, PlanTypeInv, Goes
    <2> QED BY <2>1, PlanTypeGrows, RegistryNumbers DEF LocalInv, PlanTypeInv
  <1>3. HoldsInv'
    <2>1. step # "idle" /\ step \notin Making /\ (step = "dispatch" => step \in Planning)
      BY DEF Making, Planning
    <2> QED BY <2>1 DEF LocalInv, HoldsInv
  <1>4. NewestInv'
    BY DEF NewestInv
  <1>5. CountInv'
    <2>1. Unfinished = 0 /\ Unfinished' = 0
      BY DEF Unfinished
    <2> QED BY <2>1 DEF LocalInv, CountInv
  <1>6. HonestInv'
    BY DEF LocalInv, HonestInv, Settling
  <1>7. BatchInv'
    <2> SUFFICES ASSUME step = "continue", NEW w \in plan.queued
                 PROVE  /\ plan.batch[w].turn # 0
                        /\ plan.batch[w].status \in {"executor_active", "approval_required"}
                        /\ rows'[w].status # "creating"
                        /\ rows'[w].status # "none" => plan.batch[w].path = rows'[w].path
      BY DEF BatchInv, Found
    <2>1. w \in 1..created
      BY DEF LocalInv, PlanTypeInv, PlanType
    <2> QED BY <2>1 DEF LocalInv, BatchInv, Goes, RowsGoOn
  <1> QED BY <1>1, <1>2, <1>3, <1>4, <1>5, <1>6, <1>7 DEF LocalInv

\* What is counted of a result.
LEMMA CountFields ==
  ASSUME plan \in PlanType, NEW w \in 1..MaxWorkers, NEW row \in RowType, Count(w, row)
  PROVE  /\ plan' \in PlanType /\ plan'.asked = plan.asked /\ plan'.wanted = plan.wanted
         /\ plan'.made = plan.made /\ plan'.batch = plan.batch
         /\ plan'.queued = plan.queued \ {w} /\ plan'.broken = plan.broken
         /\ plan'.verdict = [plan.verdict EXCEPT ![w] = IF row.status = "completed"
                                                        THEN row.turn ELSE @]
         /\ plan.failed => plan'.failed
         /\ row.status \notin {"completed", "approval_required"} => plan'.failed
         /\ plan.waiting => plan'.waiting
         /\ row.status = "approval_required" => plan'.waiting
  <1> DEFINE f == plan.failed \/ row.status \notin {"completed", "approval_required"}
             a == plan.waiting \/ row.status = "approval_required"
             v == [plan.verdict EXCEPT ![w] = IF row.status = "completed"
                                              THEN row.turn ELSE @]
             half == [plan EXCEPT !.queued = plan.queued \ {w}, !.verdict = v]
  <1>1. plan' = [half EXCEPT !.failed = f, !.waiting = a]
    BY DEF Count, PlanType
  <1>2. f \in BOOLEAN /\ a \in BOOLEAN /\ v \in [1..MaxWorkers -> 0..started]
    BY DEF PlanType, RowType
  <1>3. /\ plan.failed => f
        /\ row.status \notin {"completed", "approval_required"} => f
        /\ plan.waiting => a
        /\ row.status = "approval_required" => a
    OBVIOUS
  <1>4. /\ half \in PlanType /\ half.asked = plan.asked /\ half.wanted = plan.wanted
        /\ half.made = plan.made /\ half.batch = plan.batch
        /\ half.queued = plan.queued \ {w} /\ half.broken = plan.broken
        /\ half.verdict = v
    <2> HIDE DEF v
    <2> QED BY <1>2 DEF PlanType
  <1> HIDE DEF f, a, half
  <1>5. /\ plan' \in PlanType /\ plan'.asked = half.asked /\ plan'.wanted = half.wanted
        /\ plan'.made = half.made /\ plan'.batch = half.batch
        /\ plan'.queued = half.queued /\ plan'.broken = half.broken
        /\ plan'.verdict = half.verdict /\ plan'.failed = f /\ plan'.waiting = a
    BY <1>1, <1>2, <1>4 DEF PlanType
  <1> QED BY <1>3, <1>4, <1>5

\* A result that is counted accounts for its worker, and for no other.
LEMMA CountAccounts ==
  ASSUME TypeInv, Goes, plan \in PlanType, NEW l \in Lanes,
         NEW w \in 1..MaxWorkers, NEW row \in RowType, Earned(row), Count(w, row),
         pc[l] # "idle" => job[l].worker = w,
         \A k \in Lanes \ {l} : pc'[k] = pc[k] /\ job'[k] = job[k]
  PROVE  \A v \in plan.made : Accounted(v) => Accounted(v)'
  <1>0. /\ plan'.verdict = [plan.verdict EXCEPT ![w] = IF row.status = "completed"
                                                     THEN row.turn ELSE @]
        /\ plan'.queued = plan.queued \ {w} /\ plan'.broken = plan.broken
        /\ (plan.failed => plan'.failed) /\ (plan.waiting => plan'.waiting)
        /\ row.status \notin {"completed", "approval_required"} => plan'.failed
        /\ row.status = "approval_required" => plan'.waiting
    BY CountFields
  <1>1. row.status = "completed" => row.turn # 0 /\ turns'[row.turn] = "completed"
    <2>1. row.turn \in 0..started /\ started \in Nat
      BY RegistryNumbers DEF RowType
    <2> QED BY <2>1 DEF Earned, Goes, TurnsStay
  <1>2. Accounted(w)'
    <2>1. plan.verdict \in [1..MaxWorkers -> 0..started]
      BY DEF PlanType
    <2>2. CASE row.status = "completed"
      <3>1. plan'.verdict[w] = row.turn
        BY <1>0, <2>1, <2>2
      <3> QED BY <1>1, <2>2, <3>1 DEF Accounted
    <2>3. CASE row.status # "completed"
      <3>1. plan'.failed \/ plan'.waiting
        BY <1>0, <2>3
      <3> QED BY <3>1 DEF Accounted
    <2> QED BY <2>2, <2>3
  <1>3. ASSUME NEW v \in plan.made, v # w, Accounted(v) PROVE Accounted(v)'
    <2>1. v \in plan.queued => v \in plan'.queued
      BY <1>0, <1>3
    <2>2. plan'.verdict[v] = plan.verdict[v]
      BY <1>0, <1>3 DEF PlanType
    <2>3. \A k \in Lanes : pc[k] # "idle" /\ job[k].worker = v =>
            pc'[k] # "idle" /\ job'[k].worker = v
      BY <1>3
    <2>4. plan.broken => plan'.broken
      BY <1>0
    <2>5. (plan.failed => plan'.failed) /\ (plan.waiting => plan'.waiting)
      BY <1>0
    <2> QED BY Zenon, <1>3, <2>1, <2>2, <2>3, <2>4, <2>5, AccountsStay
  <1> QED BY <1>2, <1>3

LEMMA LaneSet ==
  ASSUME NEW l \in Lanes
  PROVE  l \in Requests /\ Cycle \in Requests /\ l # Cycle /\ Lanes \subseteq Requests
  BY PlanAssumption

LEMMA ContinueKeepsPlan ==
  ASSUME RegistryInv, LocalInv, NEW l \in Lanes, ContinueTurn(l)
  PROVE  RegistryInv' /\ LocalInv' /\ Goes
  <1>1. TypeInv
    BY DEF RegistryInv
  <1>2. PICK w \in plan.queued :
          /\ plan' = [plan EXCEPT !.queued = @ \ {w}]
          /\ job' = [job EXCEPT ![l] = [worker |-> w, copy |-> plan.batch[w],
                                        turn |-> plan.batch[w].turn]]
    BY DEF ContinueTurn
  <1>3. /\ step = "continue" /\ pc[l] = "idle" /\ Goto(l, "turn")
        /\ StoreSame /\ UNCHANGED <<reason, lost, losses, step, report, restored>>
    BY DEF ContinueTurn, StoreSame
  <1>4. plan \in PlanType /\ plan.made = {} /\ w \in 1..created
    BY <1>3 DEF LocalInv, PlanTypeInv, PlanType, HoldsInv, Planning, Making, Settling
  <1> DEFINE row == plan.batch[w]
             j == [worker |-> w, copy |-> row, turn |-> row.turn]
  <1>5. row \in RowType
    BY <1>1, <1>4, RegistryNumbers DEF PlanType
  <1>6. /\ row.turn # 0 /\ row.status \in {"executor_active", "approval_required"}
        /\ rows[w].status # "creating" /\ (Found(w) => row.path = rows[w].path)
    BY <1>3 DEF LocalInv, BatchInv
  <1> HIDE DEF row
  <1>7. j \in JobType /\ j.worker = w /\ j.copy = row /\ j.turn = row.turn
    BY <1>1, <1>4, <1>5, RegistryNumbers DEF JobType, RowType
  <1>8. job' = [job EXCEPT ![l] = j]
    BY <1>2 DEF row
  <1> HIDE DEF j
  <1>9. Takes(l, "turn", j)
    BY <1>1, <1>3, <1>4, <1>6, <1>7, <1>8, RegistryNumbers DEF Takes, Earned
  <1>10. "turn" \in Places /\ "turn" \notin Creating \union {"idle", "delete"}
    BY DEF Places, Creating
  <1>11. RegistryInv' /\ Goes
    BY <1>1, <1>3, <1>9, <1>10, LaneSet, TakeKeeps, SameGoes
  <1>12. /\ plan' \in PlanType /\ plan'.asked = plan.asked /\ plan'.wanted = plan.wanted
         /\ plan'.made = plan.made /\ plan'.batch = plan.batch
         /\ plan'.queued = plan.queued \ {w} /\ plan'.failed = plan.failed
    BY <1>2, <1>4 DEF PlanType
  <1>13. /\ pc'[l] = "turn" /\ pc'[Cycle] = pc[Cycle]
         /\ \A k \in Lanes \ {l} : pc'[k] = pc[k]
    BY <1>1, <1>3, LaneSet DEF Goto, TypeInv
  <1>14. pc'[l] \in LanesAt
    BY <1>3, <1>13 DEF LanesAt
  <1> QED BY <1>1, <1>3, <1>4, <1>11, <1>12, <1>13, <1>14, LaneKeepsPlan

LEMMA EndContinuationKeepsPlan ==
  ASSUME RegistryInv, LocalInv, NEW l \in Lanes, EndContinuation(l)
  PROVE  RegistryInv' /\ LocalInv' /\ Goes
  <1>1. TypeInv
    BY DEF RegistryInv
  <1> DEFINE b == plan.broken \/ rows[job[l].worker].status = "none"
  <1>2. /\ step = "continue" /\ SaveResult(l)
        /\ plan' = [plan EXCEPT !.broken = b]
        /\ UNCHANGED <<step, report, restored>>
    BY DEF EndContinuation
  <1>3. plan \in PlanType /\ plan.made = {}
    BY <1>2 DEF LocalInv, PlanTypeInv, HoldsInv, Planning, Making, Settling
  <1>4. b \in BOOLEAN
    BY <1>3 DEF PlanType
  <1> HIDE DEF b
  <1>5. /\ plan' \in PlanType /\ plan'.asked = plan.asked /\ plan'.wanted = plan.wanted
        /\ plan'.made = plan.made /\ plan'.batch = plan.batch
        /\ plan'.queued = plan.queued /\ plan'.failed = plan.failed
    BY <1>2, <1>3, <1>4 DEF PlanType
  <1>6. RegistryInv' /\ Goes
    BY <1>2, LaneSet, RegistryStepKeeps, RegistryStepGoes DEF RegistryStep, Dispatch
  <1>7. /\ pc'[l] = "idle" /\ pc'[Cycle] = pc[Cycle]
        /\ \A k \in Lanes \ {l} : pc'[k] = pc[k]
    BY <1>1, <1>2, LaneSet DEF SaveResult, Return, Goto, TypeInv
  <1>8. pc'[l] \in LanesAt
    BY <1>7 DEF LanesAt
  <1> QED BY <1>1, <1>2, <1>3, <1>5, <1>6, <1>7, <1>8, LaneKeepsPlan

LEMMA BeginTurnKeepsPlan ==
  ASSUME RegistryInv, LocalInv, NEW l \in Lanes, BeginTurn(l)
  PROVE  RegistryInv' /\ LocalInv' /\ Goes
  <1>1. TypeInv
    BY DEF RegistryInv
  <1>2. PICK w \in plan.queued :
          /\ Dispatchable(w) /\ Take(l, w, rows[w].status)
          /\ plan' = [plan EXCEPT !.queued = @ \ {w}]
    BY DEF BeginTurn
  <1>3. /\ step = "dispatch" /\ pc[l] = "idle" /\ Goto(l, "activate")
        /\ StoreSame /\ UNCHANGED <<reason, lost, losses, step, report, restored>>
    BY DEF BeginTurn, StoreSame
  <1>4. plan \in PlanType /\ w \in 1..created
    BY DEF LocalInv, PlanTypeInv, PlanType
  <1>5. RegistryInv' /\ Goes
    <2>1. /\ "activate" \in Places /\ "activate" # "turn"
          /\ "activate" \notin Creating \union {"idle", "delete"}
      BY DEF Places, Creating
    <2>2. rows[w].status \in {"assigned", "pending", rows[w].status}
      OBVIOUS
    <2>3. Takes(l, "activate", [worker |-> w, turn |-> 0,
                                copy |-> [rows[w] EXCEPT !.status = rows[w].status]])
      BY <1>2, <1>3, <1>4, <2>1, <2>2, LaneSet, TakeTakes
    <2> QED BY <1>1, <1>3, <2>1, <2>3, LaneSet, TakeKeeps, SameGoes
  <1>6. /\ plan' \in PlanType /\ plan'.asked = plan.asked /\ plan'.wanted = plan.wanted
        /\ plan'.made = plan.made /\ plan'.batch = plan.batch
        /\ plan'.queued = plan.queued \ {w} /\ plan'.failed = plan.failed
        /\ plan'.waiting = plan.waiting /\ plan'.broken = plan.broken
        /\ plan'.verdict = plan.verdict
    BY <1>2, <1>4 DEF PlanType
  <1>7. /\ pc'[l] = "activate" /\ pc'[Cycle] = pc[Cycle] /\ job'[l].worker = w
        /\ \A k \in Lanes \ {l} : pc'[k] = pc[k] /\ job'[k] = job[k]
    BY <1>1, <1>2, <1>3, LaneSet, TakenJob DEF Goto, TypeInv
  <1>8. pc'[l] \in LanesAt
    BY <1>3, <1>7 DEF LanesAt
  <1>9. ASSUME NEW v \in plan.made, Accounted(v) PROVE Accounted(v)'
    <2>1. Accounted(w)'
      BY <1>7 DEF Accounted
    <2>2. v \in plan.queued => Accounted(v)' \/ v \in plan'.queued
      BY <1>6, <2>1
    <2>3. \A k \in Lanes : pc[k] # "idle" /\ job[k].worker = v =>
            pc'[k] # "idle" /\ job'[k].worker = v
      BY <1>3, <1>7
    <2> QED BY <1>1, <1>4, <1>5, <1>6, <1>9, <2>2, <2>3, AccountsStay
  <1> QED BY <1>1, <1>3, <1>5, <1>6, <1>7, <1>8, <1>9, LaneKeepsPlan

LEMMA RefuseTurnKeepsPlan ==
  ASSUME RegistryInv, LocalInv, NEW l \in Lanes, RefuseTurn(l)
  PROVE  LocalInv'
  <1>1. TypeInv
    BY DEF RegistryInv
  <1>2. PICK w \in plan.queued : Count(w, rows[w])
    BY DEF RefuseTurn
  <1>3. /\ step = "dispatch" /\ pc[l] = "idle" /\ UNCHANGED <<pc, job>>
        /\ StoreSame /\ UNCHANGED <<step, report, restored>>
    BY DEF RefuseTurn, StoreSame, vars
  <1>4. plan \in PlanType /\ w \in 1..MaxWorkers
    BY <1>1, RegistryNumbers DEF LocalInv, PlanTypeInv, PlanType
  <1>5. rows[w] \in RowType /\ Earned(rows[w])
    BY <1>1, <1>4, TableTypes DEF RegistryInv, VerdictInv
  <1>6. Goes
    BY <1>1, <1>3, SameGoes
  <1>7. \A v \in plan.made : Accounted(v) => Accounted(v)'
    BY <1>1, <1>2, <1>3, <1>4, <1>5, <1>6, CountAccounts
  <1>8. pc'[l] \in LanesAt
    BY <1>3 DEF LanesAt
  <1>9. /\ plan' \in PlanType /\ plan'.asked = plan.asked /\ plan'.wanted = plan.wanted
        /\ plan'.made = plan.made /\ plan'.batch = plan.batch
        /\ plan'.queued \subseteq plan.queued /\ (plan.failed => plan'.failed)
    BY <1>2, <1>4, <1>5, CountFields
  <1> QED BY <1>1, <1>3, <1>6, <1>7, <1>8, <1>9, LaneKeepsPlan

LEMMA RunTurnKeepsPlan ==
  ASSUME RegistryInv, LocalInv, NEW l \in Lanes, RunTurn(l)
  PROVE  RegistryInv' /\ LocalInv' /\ Goes
  <1>1. TypeInv
    BY DEF RegistryInv
  <1>2. /\ Activate(l) \/ StartTurn(l) \/ StartFails(l) \/ TurnReturns(l)
        /\ UNCHANGED <<step, report, restored>>
    BY DEF RunTurn
  <1>3. RegistryInv' /\ Goes
    BY <1>2, LaneSet, RegistryStepKeeps, RegistryStepGoes DEF RegistryStep, Dispatch
  <1>4. plan \in PlanType
    BY DEF LocalInv, PlanTypeInv
  <1>5. /\ plan' \in PlanType /\ plan'.asked = plan.asked /\ plan'.wanted = plan.wanted
        /\ plan'.made = plan.made /\ plan'.batch = plan.batch
        /\ plan'.queued = plan.queued /\ plan'.failed = plan.failed
        /\ plan'.waiting = plan.waiting /\ plan'.verdict = plan.verdict
        /\ (plan.broken => plan'.broken)
        /\ Activate(l) /\ pc'[l] = "idle" => plan'.broken
    <2>1. CASE Activate(l) /\ plan' = [plan EXCEPT !.broken = @ \/ pc'[l] = "idle"]
      <3> DEFINE b == plan.broken \/ pc'[l] = "idle"
      <3>1. plan' = [plan EXCEPT !.broken = b]
        BY <2>1
      <3>2. b \in BOOLEAN /\ (plan.broken => b) /\ (pc'[l] = "idle" => b)
        BY <1>4 DEF PlanType
      <3> HIDE DEF b
      <3> QED BY <1>4, <3>1, <3>2 DEF PlanType
    <2>2. CASE ~Activate(l) /\ plan' = plan
      BY <1>4, <2>2
    <2>3. ~(Activate(l) /\ (StartTurn(l) \/ StartFails(l) \/ TurnReturns(l)))
      BY DEF Activate, StartTurn, StartFails, TurnReturns
    <2> QED BY <2>1, <2>2, <2>3 DEF RunTurn
  <1>6. /\ pc[l] \in {"activate", "start", "turn"}
        /\ pc[l] = "activate" => Activate(l) /\ pc'[l] \in {"start", "idle"}
        /\ pc[l] # "activate" => pc'[l] \in {"turn", "save"}
        /\ pc[l] = "turn" => pc'[l] = "save"
    BY <1>1, <1>2, LaneSet DEF Activate, StartTurn, StartFails, TurnReturns, Return, Goto,
       TypeInv
  <1>7. pc'[l] # "idle" => job'[l].worker = job[l].worker
    <2>1. CASE Activate(l)
      BY <1>1, <2>1, LaneSet DEF Activate, Return, Goto, TypeInv
    <2>2. CASE StartTurn(l)
      BY <1>1, <2>2, LaneSet, HeldTypes DEF StartTurn, TypeInv, JobType
    <2>3. CASE StartFails(l)
      BY <1>1, <2>3, LaneSet, HeldTypes DEF StartFails, TypeInv, JobType, RowType
    <2>4. CASE TurnReturns(l)
      <3>1. PICK outcome \in {"approval_required", "completed", "failed"} :
              job' = [job EXCEPT ![l].copy.status = outcome,
                                 ![l].copy.turn = job[l].turn, ![l].turn = 0]
        BY <2>4 DEF TurnReturns
      <3> QED BY <1>1, <3>1, LaneSet, HeldTypes DEF TypeInv, JobType, RowType
    <2> QED BY <1>2, <2>1, <2>2, <2>3, <2>4
  <1>8. pc'[Cycle] = pc[Cycle] /\ \A k \in Lanes \ {l} : pc'[k] = pc[k] /\ job'[k] = job[k]
    <2>1. CASE Activate(l)
      BY <1>1, <2>1, LaneSet DEF Activate, Return, Goto, TypeInv
    <2>2. CASE StartTurn(l) \/ StartFails(l) \/ TurnReturns(l)
      BY <1>1, <2>2, LaneSet DEF StartTurn, StartFails, TurnReturns, Goto, TypeInv
    <2> QED BY <1>2, <2>1, <2>2
  <1>9. step \in {"continue", "dispatch"} /\ pc[l] \in LanesAt
    BY <1>6, IdlePlaces DEF LocalInv, PlaceInv
  <1>10. pc'[l] \in LanesAt
    BY <1>6, <1>9 DEF LanesAt
  <1>11. ASSUME NEW v \in plan.made, Accounted(v) PROVE Accounted(v)'
    <2>1. CASE pc'[l] = "idle"
      BY <1>5, <1>6, <2>1 DEF Accounted
    <2>2. CASE pc'[l] # "idle"
      <3>1. \A k \in Lanes : pc[k] # "idle" /\ job[k].worker = v =>
              pc'[k] # "idle" /\ job'[k].worker = v
        BY <1>7, <1>8, <2>2
      <3> QED BY <1>1, <1>3, <1>4, <1>5, <1>11, <3>1, AccountsStay
    <2> QED BY <2>1, <2>2
  <1> QED BY <1>1, <1>2, <1>3, <1>5, <1>8, <1>9, <1>10, <1>11, LaneKeepsPlan

LEMMA EndTurnKeepsPlan ==
  ASSUME RegistryInv, LocalInv, NEW l \in Lanes, EndTurn(l)
  PROVE  RegistryInv' /\ LocalInv' /\ Goes
  <1> DEFINE w == job[l].worker
  <1>1. TypeInv
    BY DEF RegistryInv
  <1>2. /\ step = "dispatch" /\ SaveResult(l) /\ pc[l] = "save"
        /\ UNCHANGED <<step, report, restored>>
        /\ \/ plan' = [plan EXCEPT !.broken = TRUE]
           \/ Count(w, job[l].copy)
    BY DEF EndTurn, SaveResult
  <1>3. RegistryInv' /\ Goes
    BY <1>2, LaneSet, RegistryStepKeeps, RegistryStepGoes DEF RegistryStep, Dispatch
  <1>4. plan \in PlanType
    BY DEF LocalInv, PlanTypeInv
  <1>5. w \in 1..MaxWorkers /\ job[l].copy \in RowType /\ Earned(job[l].copy)
    BY <1>1, <1>2, LaneSet, HeldWorker, HeldTypes DEF RegistryInv, VerdictInv
  <1>6. /\ pc'[l] = "idle" /\ pc'[Cycle] = pc[Cycle]
        /\ \A k \in Lanes \ {l} : pc'[k] = pc[k] /\ job'[k] = job[k]
    BY <1>1, <1>2, LaneSet DEF SaveResult, Return, Goto, TypeInv
  <1> HIDE DEF w
  <1>7. /\ plan' \in PlanType /\ plan'.asked = plan.asked /\ plan'.wanted = plan.wanted
        /\ plan'.made = plan.made /\ plan'.batch = plan.batch
        /\ plan'.queued \subseteq plan.queued /\ (plan.failed => plan'.failed)
        /\ \A v \in plan.made : Accounted(v) => Accounted(v)'
    <2>1. CASE plan' = [plan EXCEPT !.broken = TRUE]
      <3>1. /\ plan' \in PlanType /\ plan'.asked = plan.asked /\ plan'.wanted = plan.wanted
            /\ plan'.made = plan.made /\ plan'.batch = plan.batch
            /\ plan'.queued = plan.queued /\ plan'.failed = plan.failed /\ plan'.broken
        BY <1>4, <2>1 DEF PlanType
      <3>2. \A v \in plan.made : Accounted(v)'
        BY <3>1 DEF Accounted
      <3> QED BY <3>1, <3>2
    <2>2. CASE Count(w, job[l].copy)
      <3>1. \A v \in plan.made : Accounted(v) => Accounted(v)'
        BY <1>1, <1>3, <1>4, <1>5, <1>6, <2>2, CountAccounts DEF w
      <3> QED BY <1>4, <1>5, <2>2, <3>1, CountFields
    <2> QED BY <1>2, <2>1, <2>2
  <1>8. pc'[l] \in LanesAt
    BY <1>6 DEF LanesAt
  <1> QED BY <1>1, <1>2, <1>3, <1>6, <1>7, <1>8, LaneKeepsPlan

LEMMA FailTurnKeepsPlan ==
  ASSUME RegistryInv, LocalInv, NEW l \in Lanes, FailTurn(l)
  PROVE  RegistryInv' /\ LocalInv' /\ Goes
  <1>1. TypeInv
    BY DEF RegistryInv
  <1>2. /\ pc[l] # "idle" /\ losses < MaxLosses /\ losses' = losses + 1
        /\ lost' = lost \union {job[l].worker} /\ Return(l) /\ StoreSame
        /\ plan' = [plan EXCEPT !.broken = TRUE]
        /\ UNCHANGED <<reason, step, report, restored>>
    BY DEF FailTurn, StoreSame, Disturbed
  <1>3. Goes
    BY <1>1, <1>2, SameGoes
  <1>4. /\ pc'[l] = "idle" /\ \A r \in Requests \ {l} : pc'[r] = pc[r] /\ job'[r] = job[r]
        /\ pc' \in [Requests -> Places] /\ job' \in [Requests -> JobType]
    BY <1>1, <1>2, LaneSet, EmptyRowType DEF Return, Goto, TypeInv, Places
  <1>5. RegistryInv'
    <2>1. losses' \in 0..MaxLosses /\ reason' \in BOOLEAN
      BY <1>1, <1>2, TableTypes, RegistryAssumption
    <2>2. lost' \subseteq 1..created
      BY <1>1, <1>2, TableTypes, HeldTypes, LaneSet DEF TypeInv
    <2> QED BY <1>2, <1>4, <2>1, <2>2, DropKeeps
  <1>6. plan \in PlanType
    BY DEF LocalInv, PlanTypeInv
  <1>7. /\ plan' \in PlanType /\ plan'.asked = plan.asked /\ plan'.wanted = plan.wanted
        /\ plan'.made = plan.made /\ plan'.batch = plan.batch
        /\ plan'.queued = plan.queued /\ plan'.failed = plan.failed /\ plan'.broken
    BY <1>2, <1>6 DEF PlanType
  <1>8. \A v \in plan.made : Accounted(v)'
    BY <1>7 DEF Accounted
  <1>9. step \in {"continue", "dispatch"}
    BY <1>2, IdlePlaces DEF LocalInv
  <1>10. pc'[l] \in LanesAt
    BY <1>4 DEF LanesAt
  <1> QED BY <1>1, <1>2, <1>3, <1>4, <1>5, <1>7, <1>8, <1>9, <1>10, LaneSet, LaneKeepsPlan

-----------------------------------------------------------------------------
(* Any step.                                                               *)

\* A step that changes nothing of the table but perhaps the stop reason.
LEMMA TableSame ==
  ASSUME RegistryInv, StoreSame, UNCHANGED <<pc, job, lost, losses>>, reason' \in BOOLEAN
  PROVE  RegistryInv' /\ Goes
  <1>1. TypeInv
    BY DEF RegistryInv
  <1>3. lost' \subseteq 1..created /\ losses' \in 0..MaxLosses
    BY <1>1, TableTypes
  <1>2. pc' \in [Requests -> Places] /\ job' \in [Requests -> JobType]
    BY <1>1 DEF TypeInv
  <1> QED BY <1>1, <1>2, <1>3, DropKeeps, SameGoes

\* A step of a request changes no other request.
LEMMA StepsAlone ==
  ASSUME TypeInv, NEW q \in Requests, RegistryStep(q)
  PROVE  \A r \in Requests \ {q} : pc'[r] = pc[r] /\ job'[r] = job[r]
  <1>1. CASE Create(q)
    BY <1>1 DEF Create, InsertRow, AddWorktree, UndoRow, SaveCreated, Return, Goto, TypeInv
  <1>2. CASE Dispatch(q)
    BY <1>2 DEF Dispatch, ReadForDispatch, Read, Activate, ClientUnavailable, StartTurn,
       StartFails, TurnReturns, SaveResult, Return, Goto, TypeInv
  <1>3. CASE Approve(q)
    BY <1>3 DEF Approve, ReadForAnswer, Read, Answer, SaveAnswered, ListForReason,
       SaveReason, Return, Goto, TypeInv
  <1>4. CASE Interrupt(q) \/ Steer(q) \/ Kill(q)
    BY <1>4 DEF Interrupt, ReadForInterrupt, Read, InterruptTurn, Steer, ReadForSteer,
       SteerTurn, Kill, ReadForKill, SaveControl, Return, Goto, TypeInv
  <1>5. CASE Remove(q) \/ Abandon(q)
    BY <1>5 DEF Remove, ReadForRemoval, Read, RemoveWorktree, DeleteRow, Abandon, Return,
       Goto, TypeInv
  <1> QED BY ZenonT(40), <1>1, <1>2, <1>3, <1>4, <1>5 DEF RegistryStep

LEMMA OperateKeepsPlan ==
  ASSUME RegistryInv, LocalInv, NEW q \in Operators, Operate(q)
  PROVE  RegistryInv' /\ LocalInv'
  <1>1. RegistryStep(q) /\ UNCHANGED <<step, plan, report>>
        /\ restored' = restored \union
             {w \in 1..created : pc[q] = "note" /\ rows'[w].status # rows[w].status}
    BY DEF Operate, RegistryStep
  <1>2. q \in Requests /\ q # Cycle /\ q \notin Lanes /\ Cycle \in Requests
        /\ Lanes \subseteq Requests
    BY PlanAssumption DEF Operators
  <1>3. TypeInv
    BY DEF RegistryInv
  <1>4. RegistryInv' /\ Goes
    BY <1>1, <1>2, RegistryStepKeeps, RegistryStepGoes
  <1>5. restored' \subseteq 1..created'
    <2>1. PICK noted : restored' = restored \union noted /\ noted \subseteq 1..created
      BY <1>1
    <2>2. created \in Nat /\ created' \in Nat /\ created <= created'
      BY <1>3, <1>4, RegistryNumbers DEF Goes
    <2> QED BY <2>1, <2>2 DEF LocalInv, PlanTypeInv
  <1>6. \A r \in Requests \ {q} : pc'[r] = pc[r] /\ job'[r] = job[r]
    BY <1>1, <1>2, <1>3, StepsAlone
  <1> QED BY <1>1, <1>2, <1>3, <1>4, <1>5, <1>6, OthersKeepPlan

LEMMA AdvanceKeepsPlan ==
  ASSUME RegistryInv, LocalInv, NEW t \in 1..MaxTurns, TurnAdvances(t), UNCHANGED planVars
  PROVE  RegistryInv' /\ LocalInv'
  <1>1. TypeInv /\ UNCHANGED <<rows, created, trees, started, reason, pc, job, lost, losses>>
        /\ UNCHANGED <<step, plan, report, restored>>
    BY DEF RegistryInv, TurnAdvances, planVars
  <1>2. TypeInv'
    BY <1>1, SurroundingTypes
  <1>3. WorktreeInv'
    BY <1>1 DEF RegistryInv, WorktreeInv, OnePathEach, CopiesAgree, CreatorsAlone,
       NothingLeft, NoOrphanWorktree, Found, Creating
  <1>4. VerdictInv'
    BY <1>1, AdvanceKeepsVerdicts DEF RegistryInv
  <1>5. Goes
    <2>1. TurnsStay
      BY <1>1, TableTypes, StartedTurns DEF TurnAdvances, TurnsStay
    <2> QED BY <1>1, <2>1, RegistryNumbers DEF Goes, RowsGoOn, Found
  <1>6. LocalInv'
    <2>1. restored' \subseteq 1..created'
      BY <1>1 DEF LocalInv, PlanTypeInv
    <2> QED BY <1>1, <1>5, <2>1, PlanAssumption, OthersKeepPlan
  <1> QED BY <1>2, <1>3, <1>4, <1>6 DEF RegistryInv

LEMMA CycleStopsKeepsPlan ==
  ASSUME RegistryInv, LocalInv, CycleStops
  PROVE  RegistryInv' /\ LocalInv'
  <1>1. TypeInv /\ plan \in PlanType
    BY DEF RegistryInv, LocalInv, PlanTypeInv
  <1>2. /\ StoreSame /\ UNCHANGED <<reason, report, restored>>
        /\ losses < MaxLosses /\ losses' = losses + 1
        /\ step' = "idle" /\ plan' = NoPlan
        /\ pc' = [q \in Requests |-> IF q \in Operators THEN pc[q] ELSE "idle"]
        /\ job' = [q \in Requests |-> IF q \in Operators THEN job[q] ELSE NoJob]
    BY DEF CycleStops, Disturbed, Move, StoreSame
  <1>3. /\ lost' \subseteq 1..created /\ losses' \in 0..MaxLosses /\ reason' \in BOOLEAN
    <2>1. {job[q].worker : q \in Lanes \union {Cycle}} \ {0} \subseteq 1..created
      BY <1>1, HeldTypes, PlanAssumption
    <2>2. plan.made \subseteq 1..created
      BY <1>1 DEF PlanType
    <2>3. lost' \subseteq 1..created
      BY <1>1, <2>1, <2>2, TableTypes DEF CycleStops
    <2> QED BY <1>1, <1>2, <2>3, TableTypes, RegistryAssumption
  <1>4. pc' \in [Requests -> Places] /\ job' \in [Requests -> JobType]
    BY <1>1, <1>2, EmptyRowType DEF TypeInv, Places
  <1>5. RegistryInv' /\ Goes
    <2>1. \A q \in Requests : \/ pc'[q] = pc[q] /\ job'[q] = job[q]
                              \/ pc'[q] = "idle"
      BY <1>2
    <2> QED BY <1>1, <1>2, <1>3, <1>4, <2>1, DropKeeps, SameGoes
  <1>6. LocalInv'
    <2>1. Cycle \notin Operators /\ \A l \in Lanes : l \notin Operators
      BY DEF Operators
    <2>2. pc'[Cycle] = "idle" /\ \A l \in Lanes : pc'[l] = "idle"
      BY <1>2, <2>1, PlanAssumption
    <2>3. report' \in Reports /\ restored' \subseteq 1..created'
      BY <1>2 DEF LocalInv, PlanTypeInv, StoreSame
    <2>4. step' \in Steps \ {"queue", "save_queued"}
      BY <1>2 DEF Steps
    <2> QED BY <1>1, <1>2, <1>5, <2>2, <2>3, <2>4, ResetKeepsPlan
  <1> QED BY <1>5, <1>6

\* The cycle creates a worker as a request would.
LEMMA CreatesKeepTable ==
  ASSUME RegistryInv, CreateWorker \/ MakeWorktree \/ WorkerCreated
  PROVE  RegistryInv'
  <1>1. RegistryStep(Cycle)
    BY DEF CreateWorker, MakeWorktree, WorkerCreated, RegistryStep, Create
  <1> QED BY <1>1, PlanAssumption, RegistryStepKeeps

LEMMA QueueKeepsTable ==
  ASSUME RegistryInv, LocalInv, ReadForQueue
  PROVE  RegistryInv'
  <1>1. StoreSame /\ UNCHANGED <<reason, lost, losses>> /\ step = "queue" /\ TypeInv
        /\ Cycle \in Requests
    BY PlanAssumption DEF ReadForQueue, StoreSame, RegistryInv
  <1>2. CASE Dispatchable(Newest)
    <2>1. Take(Cycle, Newest, "pending") /\ Goto(Cycle, "queue")
      BY <1>2 DEF ReadForQueue
    <2>2. /\ "queue" \in Places /\ "queue" # "turn"
          /\ "queue" \notin Creating \union {"idle", "delete"}
      BY DEF Places, Creating
    <2>3. Newest \in 1..created
      BY <1>1, NewestIsMade
    <2>4. "pending" \in {"assigned", "pending", rows[Newest].status}
      OBVIOUS
    <2>5. Takes(Cycle, "queue", [worker |-> Newest, turn |-> 0,
                                 copy |-> [rows[Newest] EXCEPT !.status = "pending"]])
      BY <1>1, <1>2, <2>1, <2>2, <2>3, <2>4, TakeTakes
    <2> QED BY <1>1, <2>2, <2>5, TakeKeeps
  <1>3. CASE ~Dispatchable(Newest)
    <2>1. UNCHANGED <<pc, job>>
      BY <1>3 DEF ReadForQueue
    <2>2. reason' \in BOOLEAN
      BY <1>1, TableTypes
    <2> QED BY <1>1, <2>1, <2>2, TableSame
  <1> QED BY <1>2, <1>3

LEMMA CycleStepKeepsPlan ==
  ASSUME RegistryInv, LocalInv, CycleStep
  PROVE  RegistryInv' /\ LocalInv'
  <1>1. TypeInv /\ reason \in BOOLEAN
    BY TableTypes DEF RegistryInv
  <1>2. CASE \/ ListTurns \/ TurnsContinued \/ SyncPlan \/ Recount \/ SaveStopReason
             \/ ChooseActions \/ EndActions \/ BeginPlan \/ CreateRefused
             \/ BeginDispatch \/ BreakPlan \/ Reload \/ Integrate \/ Apply
             \/ FinishPlan \/ EndPlan
    <2>1. UNCHANGED vars \/ SaveStopReason \/ EndPlan
      BY Zenon, <1>2 DEF ListTurns, TurnsContinued, SyncPlan, Recount, ChooseActions,
         EndActions, BeginPlan, CreateRefused, BeginDispatch, BreakPlan, Reload,
         Integrate, Apply, FinishPlan
    <2>2. StoreSame /\ UNCHANGED <<pc, job, lost, losses>> /\ reason' \in BOOLEAN
      <3>1. CASE UNCHANGED vars
        BY <1>1, <3>1 DEF vars, StoreSame
      <3>2. CASE SaveStopReason
        BY <3>2 DEF SaveStopReason, StoreSame
      <3>3. CASE EndPlan
        BY <1>1, <3>3 DEF EndPlan, StoreSame
      <3> QED BY <2>1, <3>1, <3>2, <3>3
    <2>3. RegistryInv'
      BY <2>2, TableSame
    <2>4. LocalInv'
      BY Zenon, <1>1, <1>2, ListTurnsKeepsPlan, EarlyMovesKeepPlan, SettlingKeepsPlan,
         EndsKeepPlan, BeginPlanKeepsPlan, CreateRefusedKeepsPlan
    <2> QED BY <2>3, <2>4
  <1>3. CASE CreateWorker \/ MakeWorktree \/ WorkerCreated
    BY Zenon, <1>3, CreatesKeepTable, CreateWorkerKeepsPlan, MakeWorktreeKeepsPlan,
       WorkerCreatedKeepsPlan
  <1>4. CASE ReadForQueue
    BY <1>1, <1>4, QueueKeepsTable, QueueKeepsPlan
  <1>5. CASE Act \/ SaveQueued
    BY <1>5, ActKeepsPlan, SaveQueuedKeepsPlan
  <1> QED BY Zenon, <1>2, <1>3, <1>4, <1>5 DEF CycleStep

LEMMA LaneStepKeepsPlan ==
  ASSUME RegistryInv, LocalInv, NEW l \in Lanes, LaneStep(l) \/ FailTurn(l)
  PROVE  RegistryInv' /\ LocalInv'
  <1>1. CASE RefuseTurn(l)
    <2>1. UNCHANGED vars
      BY <1>1 DEF RefuseTurn
    <2>2. StoreSame /\ UNCHANGED <<pc, job, lost, losses>> /\ reason' \in BOOLEAN
      BY <2>1, TableTypes DEF vars, StoreSame, RegistryInv
    <2> QED BY <1>1, <2>2, TableSame, RefuseTurnKeepsPlan
  <1>2. CASE ~RefuseTurn(l)
    BY Zenon, <1>2, ContinueKeepsPlan, EndContinuationKeepsPlan, BeginTurnKeepsPlan,
       RunTurnKeepsPlan, EndTurnKeepsPlan, FailTurnKeepsPlan DEF LaneStep
  <1> QED BY <1>1, <1>2

PlanInv == RegistryInv /\ LocalInv

LEMMA PlanInitHolds == PlanInit => PlanInv
  <1> SUFFICES ASSUME PlanInit PROVE PlanInv
    OBVIOUS
  <1>1. Init /\ step = "idle" /\ plan = NoPlan /\ report = "none" /\ restored = {}
    BY DEF PlanInit
  <1>2. TypeInv
    BY <1>1, InitTypes
  <1>3. WorktreeInv
    BY <1>1, RegistryAssumption DEF Init, NoRow, WorktreeInv, OnePathEach, CopiesAgree,
       CreatorsAlone, Creating, NothingLeft, NoOrphanWorktree, Found
  <1>4. VerdictInv
    BY <1>1 DEF Init, NoRow, VerdictInv, Earned
  <1>5. \A q \in Requests : pc[q] = "idle"
    BY <1>1 DEF Init
  <1>6. PlaceInv
    BY <1>1, <1>5, PlanAssumption DEF PlaceInv, Steps, CycleAt, LanesAt
  <1>7. PlanTypeInv
    <2>1. NoPlan.wanted \subseteq NoPlan.asked
      BY DEF NoPlan
    <2> QED BY <1>1, <1>2, <2>1, NoPlanType DEF PlanTypeInv, Reports
  <1>8. /\ NoPlan.made = {} /\ NoPlan.queued = {} /\ NoPlan.asked = {} /\ NoPlan.wanted = {}
    BY DEF NoPlan
  <1>9. HoldsInv /\ NewestInv /\ HonestInv /\ BatchInv
    BY <1>1, <1>8 DEF HoldsInv, NewestInv, HonestInv, BatchInv, Settling
  <1>10. CountInv
    BY <1>1, <1>8, FS_EmptySet DEF CountInv, Unfinished
  <1> QED BY <1>2, <1>3, <1>4, <1>6, <1>7, <1>9, <1>10 DEF PlanInv, RegistryInv, LocalInv

LEMMA PlanNextKeeps ==
  ASSUME PlanInv, [PlanNext]_allVars
  PROVE  PlanInv'
  <1>1. RegistryInv /\ LocalInv
    BY DEF PlanInv
  <1>2. CASE PlanNext
    <2>1. RegistryInv' /\ LocalInv'
      BY Zenon, <1>1, <1>2, CycleStepKeepsPlan, CycleStopsKeepsPlan, LaneStepKeepsPlan,
         OperateKeepsPlan, AdvanceKeepsPlan DEF PlanNext
    <2> QED BY <2>1 DEF PlanInv
  <1>3. CASE UNCHANGED allVars
    <2>1. TypeInv'
      BY <1>1, <1>3, SurroundingTypes DEF RegistryInv, allVars
    <2>2. UNCHANGED <<rows, created, trees, turns, started, pc, job>>
          /\ UNCHANGED <<step, plan, report, restored>>
      BY <1>3 DEF allVars, vars, planVars
    <2>3. StoreSame /\ UNCHANGED <<pc, job, lost, losses>> /\ reason' \in BOOLEAN
      BY <1>1, <1>3, TableTypes DEF allVars, vars, StoreSame, RegistryInv
    <2>4. RegistryInv' /\ Goes
      BY <1>1, <2>3, TableSame
    <2>5. restored' \subseteq 1..created'
      BY <1>1, <2>2 DEF LocalInv, PlanTypeInv
    <2>6. LocalInv'
      BY <1>1, <2>2, <2>4, <2>5, OthersKeepPlan DEF RegistryInv
    <2> QED BY <2>4, <2>6 DEF PlanInv
  <1> QED BY <1>2, <1>3

LEMMA PlanInvariant == PlanSpec => []PlanInv
  BY PlanInitHolds, PlanNextKeeps, PTL DEF PlanSpec

-----------------------------------------------------------------------------
(* What holds of plans.                                                    *)

\* A cycle holds no more workers than its plan asks for, queues only those it made
\* or, before a plan, those whose turns were left, and its verdicts name turns that
\* were started.
THEOREM PlanTypeCorrect == PlanSpec => []PlanTypeOK
  <1>1. ASSUME PlanInv PROVE PlanTypeOK
    <2>1. TypeInv /\ LocalInv
      BY <1>1 DEF PlanInv, RegistryInv
    <2>2. plan \in PlanType /\ plan.wanted \subseteq plan.asked
          /\ report \in Reports /\ restored \subseteq 1..created
      BY <2>1 DEF LocalInv, PlanTypeInv
    <2>3. Cardinality(plan.made) + Cardinality(plan.wanted) <= Cardinality(plan.asked)
      <3>1. Unfinished \in {0, 1}
        BY DEF Unfinished
      <3>2. Cardinality(plan.made) + Cardinality(plan.wanted) + Unfinished
              <= Cardinality(plan.asked)
        BY <2>1 DEF LocalInv, CountInv
      <3> QED BY <2>1, <3>1, <3>2, PlanSets
    <2>4. plan.queued \subseteq IF step = "continue" THEN 1..created ELSE plan.made
      BY <2>1, <2>2 DEF PlanType, LocalInv, HoldsInv
    <2>5. /\ plan.asked \subseteq Paths /\ plan.made \subseteq 1..created
          /\ plan.verdict \in [1..MaxWorkers -> 0..started]
      BY <2>2 DEF PlanType
    <2> QED BY <2>1, <2>2, <2>3, <2>4, <2>5 DEF PlanTypeOK, TypeInv
  <1> QED BY <1>1, PlanInvariant, PTL

\* A plan that is reported completed has a worker for every one that was asked for,
\* and each of them a turn that was completed: with any number of goroutines, and
\* whatever the operator's requests do to the rows in between.
THEOREM PlansAreHonest == PlanSpec => PlanHonest
  <1>1. ASSUME PlanInv, FinishPlan, report' = "completed"
        PROVE  /\ Cardinality(plan.made) = Cardinality(plan.asked)
               /\ \A w \in plan.made :
                    plan.verdict[w] # 0 /\ turns[plan.verdict[w]] = "completed"
    <2>1. TypeInv /\ LocalInv
      BY <1>1 DEF PlanInv, RegistryInv
    <2>2. step = "finish" /\ ~plan.waiting /\ ~plan.failed
      BY <1>1 DEF FinishPlan
    <2>3. plan.wanted = {} /\ plan.queued = {} /\ ~plan.broken /\ LanesIdle
      BY <2>1, <2>2, IdlePlaces DEF LocalInv, HoldsInv, HonestInv, Making, Settling
    <2>4. Cardinality(plan.made) = Cardinality(plan.asked)
      <3>1. Unfinished = 0
        BY <2>2 DEF Unfinished
      <3>2. Cardinality(plan.made) + Cardinality(plan.wanted) + Unfinished
              = Cardinality(plan.asked)
        BY <2>1, <2>2 DEF LocalInv, CountInv
      <3> QED BY <2>1, <2>3, <3>1, <3>2, PlanSets, FS_EmptySet
    <2>5. \A w \in plan.made : plan.verdict[w] # 0 /\ turns[plan.verdict[w]] = "completed"
      BY <2>1, <2>2, <2>3 DEF LocalInv, HonestInv, Accounted, LanesIdle
    <2> QED BY <2>4, <2>5
  <1>2. PlanInv /\ [PlanNext]_allVars =>
          [FinishPlan /\ report' = "completed" =>
             /\ Cardinality(plan.made) = Cardinality(plan.asked)
             /\ \A w \in plan.made :
                  plan.verdict[w] # 0 /\ turns[plan.verdict[w]] = "completed"]_allVars
    BY <1>1
  <1> QED BY <1>2, PlanInvariant, PTL DEF PlanSpec, PlanHonest

-----------------------------------------------------------------------------
(* No worker of a plan is left pending or assigned.                        *)

\* From the row it assigned, or was to find pending, the cycle or its goroutine
\* drives the worker, before it activates it.
PlanDrives(q, w) ==
  Drives(q, w) \/ (q \notin Operators /\ pc[q] = "activate" /\ job[q].worker = w)

\* A row that needs nobody to drive it now.
PlanSafe(w) ==
  \/ Safe(rows[w])
  \/ /\ rows[w].status = "pending"
     /\ w \in plan.made \intersect plan.queued \/ rows[w].path \notin trees

\* What the cycle is about to write.
CycleCopy(q) ==
  /\ pc[q] = "queue" => job[q].copy.status = "pending"
  /\ pc[q] = "assign" => job[q].copy.status = "assigned"

Counted == (1..MaxWorkers) \ (lost \union restored)

PlanDrivenInv ==
  /\ RowsSound
  /\ \A q \in Requests : HeldDriven(q) /\ CycleCopy(q)
  /\ \A w \in Counted : PlanSafe(w) \/ \E q \in Requests : PlanDrives(q, w)

\* What steps of one request amount to.
PlanDriveStep(q) ==
  /\ \A r \in Requests \ {q} : pc'[r] = pc[r] /\ job'[r] = job[r]
  /\ RowsSound' /\ HeldDriven(q)' /\ CycleCopy(q)'
  /\ lost \subseteq lost' /\ restored \subseteq restored'
  /\ \A w \in Counted' : PlanSafe(w) \/ PlanDrives(q, w) => (PlanSafe(w) \/ PlanDrives(q, w))'

LEMMA StepKeepsPlanDriven ==
  ASSUME PlanDrivenInv, NEW q \in Requests, PlanDriveStep(q)
  PROVE  PlanDrivenInv'
  <1>1. ASSUME NEW r \in Requests PROVE HeldDriven(r)' /\ CycleCopy(r)'
    <2>1. CASE r = q
      BY <2>1 DEF PlanDriveStep
    <2>2. CASE r # q
      <3>1. pc'[r] = pc[r] /\ job'[r] = job[r] /\ HeldDriven(r) /\ CycleCopy(r)
        BY <2>2 DEF PlanDrivenInv, PlanDriveStep
      <3> QED BY <3>1 DEF HeldDriven, CycleCopy, Safe, Continuable
    <2> QED BY <2>1, <2>2
  <1>2. ASSUME NEW w \in Counted' PROVE PlanSafe(w)' \/ \E r \in Requests : PlanDrives(r, w)'
    <2>1. w \in Counted
      BY DEF Counted, PlanDriveStep
    <2>2. CASE PlanSafe(w) \/ PlanDrives(q, w)
      BY <2>2 DEF PlanDriveStep
    <2>3. CASE ~PlanSafe(w) /\ ~PlanDrives(q, w)
      <3>1. PICK r \in Requests : PlanDrives(r, w)
        BY <2>1, <2>3 DEF PlanDrivenInv
      <3>2. pc'[r] = pc[r] /\ job'[r] = job[r]
        BY <2>3, <3>1 DEF PlanDriveStep
      <3>3. PlanDrives(r, w)'
        BY <3>1, <3>2 DEF PlanDrives, Drives, Operators
      <3> QED BY <3>3
    <2> QED BY <2>2, <2>3
  <1> QED BY <1>1, <1>2 DEF PlanDrivenInv, PlanDriveStep

\* Worktrees are made only at paths of rows that are being created.
LEMMA PendingStaysAway ==
  ASSUME RegistryInv, NEW q \in Requests, RegistryStep(q), NEW w \in 1..MaxWorkers,
         rows[w].status = "pending", rows[w].path \notin trees
  PROVE  rows[w].path \notin trees'
  <1>1. CASE AddWorktree(q)
    <2>1. /\ TypeInv /\ pc[q] = "add" /\ pc[q] \in Creating /\ pc[q] # "idle"
          /\ trees' \subseteq trees \union {job[q].copy.path}
      BY <1>1 DEF AddWorktree, Creating, RegistryInv
    <2>2. /\ job[q].worker \in 1..MaxWorkers /\ rows[job[q].worker].status = "creating"
          /\ job[q].copy.path = rows[job[q].worker].path
      BY <2>1, HeldWorker DEF RegistryInv, WorktreeInv, CreatorsAlone, CopiesAgree, Found
    <2>3. job[q].copy.path # rows[w].path
      BY <2>2 DEF RegistryInv, WorktreeInv, OnePathEach, Found
    <2> QED BY <2>1, <2>3
  <1>2. CASE ~AddWorktree(q)
    <2>1. trees' \subseteq trees
      <3>1. CASE Create(q)
        BY <1>2, <3>1 DEF Create, InsertRow, UndoRow, SaveCreated
      <3>2. CASE Dispatch(q)
        BY <3>2 DEF Dispatch, ReadForDispatch, Activate, ClientUnavailable, StartTurn,
           StartFails, TurnReturns, SaveResult
      <3>3. CASE Approve(q) \/ Interrupt(q) \/ Steer(q) \/ Kill(q) \/ Remove(q) \/ Abandon(q)
        BY <3>3 DEF Approve, ReadForAnswer, Answer, SaveAnswered, ListForReason, SaveReason,
           Interrupt, ReadForInterrupt, InterruptTurn, Steer, ReadForSteer, SteerTurn, Kill,
           ReadForKill, SaveControl, Remove, ReadForRemoval, RemoveWorktree, DeleteRow, Abandon
      <3> QED BY ZenonT(40), <3>1, <3>2, <3>3 DEF RegistryStep
    <2> QED BY <2>1
  <1> QED BY <1>1, <1>2

\* Only the cycle is ever about to write a pending or assigned row.
LEMMA RegistryPlaces ==
  ASSUME TypeInv, NEW q \in Requests, RegistryStep(q)
  PROVE  pc'[q] \notin {"queue", "assign"}
  <1>1. CASE Create(q)
    BY <1>1 DEF Create, InsertRow, AddWorktree, UndoRow, SaveCreated, Return, Goto, TypeInv
  <1>2. CASE Dispatch(q)
    BY <1>2 DEF Dispatch, ReadForDispatch, Activate, ClientUnavailable, StartTurn,
       StartFails, TurnReturns, SaveResult, Return, Goto, TypeInv
  <1>3. CASE Approve(q)
    BY <1>3 DEF Approve, ReadForAnswer, Answer, SaveAnswered, ListForReason,
       SaveReason, Return, Goto, TypeInv
  <1>4. CASE Interrupt(q) \/ Steer(q) \/ Kill(q)
    BY <1>4 DEF Interrupt, ReadForInterrupt, InterruptTurn, Steer, ReadForSteer,
       SteerTurn, Kill, ReadForKill, SaveControl, Return, Goto, TypeInv
  <1>5. CASE Remove(q) \/ Abandon(q)
    BY <1>5 DEF Remove, ReadForRemoval, RemoveWorktree, DeleteRow, Abandon, Return,
       Goto, TypeInv
  <1> QED BY ZenonT(40), <1>1, <1>2, <1>3, <1>4, <1>5 DEF RegistryStep

\* Who is about to activate a worker does so, and drives it, or its row is gone.
LEMMA ActivateDrives ==
  ASSUME TypeInv, NEW q \in Requests, pc[q] = "activate", RegistryStep(q), ~Abandon(q),
         NEW w \in 1..MaxWorkers, job[q].worker = w
  PROVE  (Safe(rows[w]) \/ Drives(q, w))'
  <1>1. Activate(q)
    BY DEF RegistryStep, Create, InsertRow, AddWorktree, UndoRow, SaveCreated, Dispatch,
       ReadForDispatch, Read, ClientUnavailable, StartTurn, StartFails, TurnReturns,
       SaveResult, Approve, ReadForAnswer, Answer, SaveAnswered, ListForReason, SaveReason,
       KeepReason, ClearReason, Interrupt, ReadForInterrupt, InterruptTurn, Steer,
       ReadForSteer, SteerTurn, Kill, ReadForKill, SaveControl, Remove, ReadForRemoval,
       RemoveWorktree, DeleteRow
  <1>2. CASE Found(w)
    <2>1. pc'[q] = "start" /\ job' = job
      BY <1>1, <1>2 DEF Activate, Goto, TypeInv
    <2> QED BY <2>1 DEF Drives
  <1>3. CASE ~Found(w)
    <2>1. rows'[w].status = "none"
      BY <1>1, <1>3 DEF Activate, Save, Found
    <2> QED BY <2>1 DEF Safe, Active
  <1> QED BY <1>2, <1>3

\* A step of a request that is no note, and leaves the plan's queue to its workers.
LEMMA RequestDrivesPlan ==
  ASSUME RegistryInv, PlanDrivenInv, NEW q \in Requests, RegistryStep(q), ~SaveControl(q),
         q \in Operators \/ ~Abandon(q),
         \A w \in plan.made \intersect plan.queued :
           w \in plan'.made \intersect plan'.queued \/ Safe(rows[w])',
         restored \subseteq restored'
  PROVE  PlanDriveStep(q)
  <1>1. TypeInv /\ RowsSound /\ HeldDriven(q)
    BY DEF RegistryInv, PlanDrivenInv
  <1>2. DriveStep(q)
    BY <1>1, CreateDrives, DispatchDrives, CommandsDrive DEF RegistryStep
  <1>3. RowsSound'
    BY <1>1, <1>2 DEF DriveStep, RowsSound, Sound
  <1>4. CycleCopy(q)'
    BY <1>1, RegistryPlaces DEF CycleCopy
  <1>5. ASSUME NEW w \in Counted', PlanSafe(w) \/ PlanDrives(q, w)
        PROVE  (PlanSafe(w) \/ PlanDrives(q, w))'
    <2>1. w \in (1..MaxWorkers) \ lost'
      BY DEF Counted
    <2>2. CASE Drives(q, w)
      BY <1>2, <2>1, <2>2 DEF DriveStep, PlanSafe, PlanDrives
    <2>3. CASE q \notin Operators /\ pc[q] = "activate" /\ job[q].worker = w
      BY <1>1, <2>1, <2>3, ActivateDrives DEF PlanSafe, PlanDrives
    <2>4. CASE PlanSafe(w)
      <3>1. CASE rows'[w] = rows[w]
        <4>1. CASE Safe(rows[w])
          BY <3>1, <4>1 DEF PlanSafe, Safe, Continuable
        <4>2. CASE rows[w].status = "pending" /\ rows[w].path \notin trees
          BY <2>1, <3>1, <4>2, PendingStaysAway DEF PlanSafe
        <4>3. CASE rows[w].status = "pending" /\ w \in plan.made \intersect plan.queued
          BY <3>1, <4>3 DEF PlanSafe
        <4> QED BY <2>4, <4>1, <4>2, <4>3 DEF PlanSafe
      <3>2. CASE rows'[w] # rows[w]
        BY <1>2, <2>1, <3>2 DEF DriveStep, PlanSafe, PlanDrives
      <3> QED BY <3>1, <3>2
    <2> QED BY <1>5, <2>2, <2>3, <2>4 DEF PlanDrives
  <1> QED BY <1>2, <1>3, <1>4, <1>5 DEF PlanDriveStep, DriveStep

\* A note writes back a row that has a turn; where it changes the status, the worker
\* is one that got an older status back.
LEMMA NoteDrivesPlan ==
  ASSUME RegistryInv, PlanDrivenInv, NEW q \in Requests, SaveControl(q), plan' = plan,
         restored' = restored \union
           {w \in 1..created : pc[q] = "note" /\ rows'[w].status # rows[w].status}
  PROVE  PlanDriveStep(q)
  <1> DEFINE v == job[q].worker
             row == job[q].copy
  <1>1. /\ TypeInv /\ RowsSound /\ pc[q] = "note" /\ pc[q] # "idle" /\ pc[q] \notin Creating
        /\ UNCHANGED <<trees, lost>>
    BY DEF RegistryInv, PlanDrivenInv, SaveControl, Creating
  <1>2. pc'[q] = "idle" /\ \A r \in Requests \ {q} : pc'[r] = pc[r] /\ job'[r] = job[r]
    BY <1>1 DEF SaveControl, Return, Goto, TypeInv
  <1>3. /\ row.turn # 0 /\ row.status # "creating" /\ v \in 1..created
        /\ Found(v) => row.path = rows[v].path
    <2>1. v \in 0..created /\ v # 0 /\ created \in Nat
      BY <1>1, HeldTypes, RegistryNumbers DEF TypeInv
    <2> QED BY <1>1, <2>1 DEF PlanDrivenInv, HeldDriven, RegistryInv, WorktreeInv, CopiesAgree
  <1>4. rows \in [1..MaxWorkers -> RowType] /\ 1..created \subseteq 1..MaxWorkers
    BY <1>1, TableTypes, RegistryNumbers
  <1>5. rows' = IF Found(v) THEN [rows EXCEPT ![v] = row] ELSE rows
    BY DEF SaveControl, Save
  <1> HIDE DEF v, row
  <1>6. \A w \in 1..MaxWorkers : rows'[w] = rows[w] \/ (w = v /\ Found(v) /\ rows'[w] = row)
    BY <1>4, <1>5
  <1>7. RowsSound'
    BY <1>1, <1>3, <1>6 DEF RowsSound, Sound
  <1>8. HeldDriven(q)' /\ CycleCopy(q)'
    BY <1>2 DEF HeldDriven, CycleCopy
  <1>9. ASSUME NEW w \in Counted' PROVE PlanSafe(w) => PlanSafe(w)'
    <2>1. w \in 1..MaxWorkers /\ w \notin restored'
      BY DEF Counted
    <2>2. CASE rows'[w] = rows[w]
      BY <1>1, <2>2 DEF PlanSafe, Safe, Continuable
    <2>3. CASE w = v /\ Found(v) /\ rows'[w] = row
      <3>1. row.status = rows[w].status
        BY <1>1, <1>3, <2>1, <2>3
      <3>2. row.path = rows[w].path /\ row.turn # 0
        BY <1>3, <2>3
      <3> QED BY <1>1, <2>3, <3>1, <3>2 DEF PlanSafe, Safe, Continuable
    <2> QED BY <1>6, <2>1, <2>2, <2>3
  <1>10. \A w : ~PlanDrives(q, w)
    BY <1>1 DEF PlanDrives, Drives
  <1> QED BY <1>1, <1>2, <1>7, <1>8, <1>9, <1>10 DEF PlanDriveStep

\* An operator's request.
LEMMA OperateDrivesPlan ==
  ASSUME RegistryInv, PlanDrivenInv, NEW q \in Operators, Operate(q)
  PROVE  PlanDrivenInv'
  <1>1. /\ RegistryStep(q) /\ plan' = plan /\ q \in Requests
        /\ restored' = restored \union
             {w \in 1..created : pc[q] = "note" /\ rows'[w].status # rows[w].status}
    BY DEF Operate, RegistryStep, Operators
  <1>2. restored \subseteq restored'
    BY <1>1
  <1>3. PlanDriveStep(q)
    BY <1>1, <1>2, RequestDrivesPlan, NoteDrivesPlan
  <1> QED BY <1>1, <1>3, StepKeepsPlanDriven

\* A step of the plan, the table and the requests staying as they are.
LEMMA QuietKeepsPlanDriven ==
  ASSUME PlanDrivenInv, UNCHANGED <<rows, trees, pc, job>>,
         lost \subseteq lost', restored \subseteq restored',
         \A w \in plan.made \intersect plan.queued :
           \/ w \in plan'.made \intersect plan'.queued
           \/ rows[w].status # "pending" \/ rows[w].path \notin trees
  PROVE  PlanDrivenInv'
  <1>1. RowsSound' /\ \A q \in Requests : HeldDriven(q)' /\ CycleCopy(q)'
    BY DEF PlanDrivenInv, RowsSound, Sound, HeldDriven, CycleCopy, Safe, Continuable
  <1>2. ASSUME NEW w \in Counted' PROVE PlanSafe(w)' \/ \E q \in Requests : PlanDrives(q, w)'
    <2>1. PlanSafe(w) \/ \E q \in Requests : PlanDrives(q, w)
      BY DEF PlanDrivenInv, Counted
    <2>2. PlanSafe(w) => PlanSafe(w)'
      BY DEF PlanSafe, Safe, Continuable
    <2>3. \A q \in Requests : PlanDrives(q, w) => PlanDrives(q, w)'
      BY DEF PlanDrives, Drives, Operators
    <2> QED BY <2>1, <2>2, <2>3
  <1> QED BY <1>1, <1>2 DEF PlanDrivenInv

\* The cycle or a goroutine of it takes up a worker.
LEMMA TakeDrivesPlan ==
  ASSUME PlanDrivenInv, NEW q \in Requests, pc[q] = "idle",
         UNCHANGED <<rows, trees, lost, restored>>,
         \A r \in Requests \ {q} : pc'[r] = pc[r] /\ job'[r] = job[r],
         HeldDriven(q)', CycleCopy(q)',
         \A w \in plan.made \intersect plan.queued :
           w \in plan'.made \intersect plan'.queued \/ PlanDrives(q, w)'
  PROVE  PlanDrivenInv'
  <1>1. RowsSound'
    BY DEF PlanDrivenInv, RowsSound, Sound
  <1>2. ASSUME NEW w \in Counted', PlanSafe(w) \/ PlanDrives(q, w)
        PROVE  (PlanSafe(w) \/ PlanDrives(q, w))'
    <2>1. PlanSafe(w)
      BY <1>2 DEF PlanDrives, Drives
    <2> QED BY <2>1 DEF PlanSafe, Safe, Continuable
  <1>3. PlanDriveStep(q)
    BY <1>1, <1>2 DEF PlanDriveStep
  <1> QED BY <1>3, StepKeepsPlanDriven

\* The cycle writes the row it assigned, or queues.
LEMMA WriteDrivesPlan ==
  ASSUME RegistryInv, PlanDrivenInv, Cycle \in Requests, pc[Cycle] \in {"assign", "queue"},
         Save(Cycle, job[Cycle].copy),
         Return(Cycle) \/ (Goto(Cycle, "activate") /\ UNCHANGED job),
         UNCHANGED <<trees, restored>>, lost \subseteq lost',
         \/ plan' = plan /\ UNCHANGED lost
         \/ ~Found(job[Cycle].worker) /\ plan.made \intersect plan.queued \subseteq lost',
         Found(job[Cycle].worker) =>
           \/ pc'[Cycle] = "activate"
           \/ /\ pc[Cycle] = "queue" /\ plan' = plan
              /\ job[Cycle].worker \in plan.made \intersect plan.queued
  PROVE  PlanDrivenInv'
  <1> DEFINE v == job[Cycle].worker
             row == job[Cycle].copy
  <1>1. TypeInv /\ RowsSound /\ pc[Cycle] # "idle" /\ pc[Cycle] \notin Creating
    BY DEF RegistryInv, PlanDrivenInv, Creating
  <1>2. /\ \A r \in Requests \ {Cycle} : pc'[r] = pc[r] /\ job'[r] = job[r]
        /\ pc'[Cycle] = "idle" \/ (pc'[Cycle] = "activate" /\ job' = job)
    BY <1>1 DEF Return, Goto, TypeInv
  <1>3. /\ row.status \in {"assigned", "pending"} /\ v \in 1..MaxWorkers
        /\ pc[Cycle] = "queue" => row.status = "pending"
    BY <1>1, HeldWorker DEF PlanDrivenInv, CycleCopy
  <1>4. rows \in [1..MaxWorkers -> RowType]
    BY <1>1, TableTypes
  <1>5. rows' = IF Found(v) THEN [rows EXCEPT ![v] = row] ELSE rows
    BY DEF Save
  <1>6. /\ Found(v) => pc'[Cycle] = "activate" \/ (pc[Cycle] = "queue" /\ plan' = plan
                                 /\ v \in plan.made \intersect plan.queued)
        /\ \/ plan' = plan /\ UNCHANGED lost
           \/ ~Found(v) /\ plan.made \intersect plan.queued \subseteq lost'
        /\ job' = job => job'[Cycle].worker = v
    OBVIOUS
  <1> HIDE DEF v, row
  <1>7. \A w \in 1..MaxWorkers : \/ rows'[w] = rows[w] /\ (w # v \/ ~Found(v))
                                 \/ w = v /\ Found(v) /\ rows'[w] = row
    BY <1>4, <1>5
  <1>8. RowsSound'
    BY <1>1, <1>3, <1>7 DEF RowsSound, Sound
  <1>9. HeldDriven(Cycle)' /\ CycleCopy(Cycle)'
    BY <1>2 DEF HeldDriven, CycleCopy
  <1>10. ASSUME NEW w \in Counted', PlanSafe(w) \/ PlanDrives(Cycle, w)
         PROVE  (PlanSafe(w) \/ PlanDrives(Cycle, w))'
    <2>1. PlanSafe(w) /\ w \in 1..MaxWorkers /\ w \notin lost'
      BY <1>10 DEF PlanDrives, Drives, Counted
    <2>2. CASE rows'[w] = rows[w] /\ (w # v \/ ~Found(v))
      <3>1. w \in plan.made \intersect plan.queued => plan' = plan
        BY <1>6, <2>1
      <3> QED BY <2>1, <2>2, <3>1 DEF PlanSafe, Safe, Continuable
    <2>3. CASE w = v /\ Found(v) /\ rows'[w] = row
      <3>1. CASE pc'[Cycle] = "activate"
        <4>1. Cycle \notin Operators' /\ job'[Cycle].worker = w
          BY <1>2, <1>6, <2>3, <3>1 DEF Operators
        <4> QED BY <3>1, <4>1 DEF PlanDrives
      <3>2. CASE pc'[Cycle] # "activate"
        BY <1>3, <1>6, <2>3, <3>2 DEF PlanSafe
      <3> QED BY <3>1, <3>2
    <2> QED BY <1>7, <2>1, <2>2, <2>3
  <1>11. PlanDriveStep(Cycle)
    BY <1>2, <1>8, <1>9, <1>10 DEF PlanDriveStep
  <1> QED BY <1>11, StepKeepsPlanDriven

LEMMA LossesNumber ==
  ASSUME TypeInv
  PROVE  losses \in Nat
  BY TableTypes, RegistryAssumption

\* The cycle's own requests neither note a control nor end early.
LEMMA OwnSteps ==
  ASSUME TypeInv, NEW q \in Requests,
         Create(q) \/ Dispatch(q) \/ Remove(q)
  PROVE  RegistryStep(q) /\ ~SaveControl(q) /\ ~Abandon(q)
  <1>1. losses' = losses /\ losses \in Nat
    <2>1. losses \in Nat
      BY LossesNumber
    <2>2. CASE Create(q) \/ Remove(q)
      BY Zenon, <2>1, <2>2 DEF Create, InsertRow, AddWorktree, UndoRow, SaveCreated, Remove,
         ReadForRemoval, RemoveWorktree, DeleteRow
    <2>3. CASE Dispatch(q)
      BY ZenonT(40), <2>1, <2>3 DEF Dispatch, ReadForDispatch, Activate, ClientUnavailable,
         StartTurn, StartFails, TurnReturns, SaveResult
    <2> QED BY <2>2, <2>3
  <1>2. pc[q] # "note"
    BY DEF Create, InsertRow, AddWorktree, UndoRow, SaveCreated, Remove, ReadForRemoval, Read,
       RemoveWorktree, DeleteRow, Dispatch, ReadForDispatch, Activate, ClientUnavailable,
       StartTurn, StartFails, TurnReturns, SaveResult
  <1> QED BY <1>1, <1>2 DEF Abandon, SaveControl, RegistryStep

LEMMA OwnStepDrivesPlan ==
  ASSUME RegistryInv, PlanDrivenInv, NEW q \in Requests,
         Create(q) \/ Dispatch(q) \/ Remove(q),
         \A w \in plan.made \intersect plan.queued :
           w \in plan'.made \intersect plan'.queued \/ Safe(rows[w])',
         restored' = restored
  PROVE  PlanDrivenInv'
  <1>1. RegistryStep(q) /\ ~SaveControl(q) /\ ~Abandon(q)
    BY OwnSteps DEF RegistryInv
  <1>2. PlanDriveStep(q)
    BY <1>1, RequestDrivesPlan
  <1> QED BY <1>2, StepKeepsPlanDriven

\* Only a dispatch takes workers from the queue of a plan.
LEMMA MovesDrivePlan ==
  ASSUME TypeInv, LocalInv, PlanDrivenInv,
         \/ ListTurns \/ TurnsContinued \/ SyncPlan \/ Recount \/ SaveStopReason
         \/ ChooseActions \/ EndActions \/ BeginPlan \/ CreateRefused
         \/ BeginDispatch \/ BreakPlan \/ Reload \/ Integrate \/ Apply
         \/ FinishPlan \/ EndPlan
  PROVE  PlanDrivenInv'
  <1>1. UNCHANGED <<rows, trees, pc, job, lost, restored>>
    <2>1. CASE UNCHANGED vars
      BY <2>1 DEF vars, ListTurns, TurnsContinued, SyncPlan, Recount, SaveStopReason,
         ChooseActions, EndActions, BeginPlan, CreateRefused, BeginDispatch, BreakPlan,
         Reload, Integrate, Apply, FinishPlan, EndPlan
    <2>2. CASE SaveStopReason \/ EndPlan
      BY <2>2 DEF SaveStopReason, EndPlan
    <2> QED BY Zenon, <2>1, <2>2 DEF ListTurns, TurnsContinued, SyncPlan, Recount,
         ChooseActions, EndActions, BeginPlan, CreateRefused, BeginDispatch, BreakPlan,
         Reload, Integrate, Apply, FinishPlan
  <1>2. plan \in PlanType
    BY DEF LocalInv, PlanTypeInv
  <1>3. \/ plan.made = {} \/ plan.queued = {}
        \/ plan'.made = plan.made /\ plan'.queued = plan.queued
    <2>1. CASE step \notin Planning \union {"create"}
      BY <2>1 DEF LocalInv, HoldsInv
    <2>2. CASE step \in {"create", "dispatch", "integrate", "apply", "finish"}
      <3>1. CASE CreateRefused
        BY <1>2, <3>1 DEF CreateRefused, PlanType
      <3>2. CASE BeginDispatch
        BY <3>2 DEF BeginDispatch, Move
      <3>3. CASE BreakPlan \/ Reload
        BY <3>3 DEF BreakPlan, Reload, TurnsReturned
      <3>4. CASE Integrate \/ Apply \/ FinishPlan
        BY <3>4 DEF Integrate, Apply, FinishPlan, LocalInv, HoldsInv, Making
      <3> QED BY Zenon, <2>2, <3>1, <3>2, <3>3, <3>4 DEF ListTurns, TurnsContinued,
              SyncPlan, Recount, SaveStopReason, ChooseActions, EndActions, BeginPlan, EndPlan
    <2>3. step \notin {"queue", "save_queued"}
      BY DEF ListTurns, TurnsContinued, SyncPlan, Recount, SaveStopReason, ChooseActions,
         EndActions, BeginPlan, CreateRefused, BeginDispatch, BreakPlan, TurnsReturned,
         Reload, Integrate, Apply, FinishPlan, EndPlan
    <2> QED BY <2>1, <2>2, <2>3 DEF Planning, Making, Settling
  <1> QED BY <1>1, <1>3, QuietKeepsPlanDriven

LEMMA MakingDrivesPlan ==
  ASSUME RegistryInv, LocalInv, PlanDrivenInv, CreateWorker \/ MakeWorktree \/ WorkerCreated
  PROVE  PlanDrivenInv'
  <1>1. Create(Cycle) /\ restored' = restored /\ Cycle \in Requests
    BY PlanAssumption DEF CreateWorker, MakeWorktree, WorkerCreated, Create
  <1>2. plan \in PlanType
    BY DEF LocalInv, PlanTypeInv
  <1>3. plan.made \subseteq plan'.made /\ plan.queued \subseteq plan'.queued
    <2>1. CASE CreateWorker
      <3>1. PICK p : plan' = [plan EXCEPT !.wanted = @ \ {p}]
        BY <2>1 DEF CreateWorker
      <3> QED BY <1>2, <3>1 DEF PlanType
    <2>2. CASE MakeWorktree
      BY <1>2, <2>2 DEF MakeWorktree, PlanType
    <2>3. CASE WorkerCreated
      <3>1. PICK w : plan' = [plan EXCEPT !.made = @ \union {w}, !.queued = @ \union {w}]
        BY <2>3 DEF WorkerCreated, Move
      <3> QED BY <1>2, <3>1 DEF PlanType
    <2> QED BY <2>1, <2>2, <2>3
  <1> QED BY <1>1, <1>3, OwnStepDrivesPlan

LEMMA QueueDrivesPlan ==
  ASSUME RegistryInv, LocalInv, PlanDrivenInv, ReadForQueue
  PROVE  PlanDrivenInv'
  <1>1. /\ step = "queue" /\ UNCHANGED <<rows, trees, lost, restored>> /\ TypeInv
        /\ Cycle \in Requests
    BY PlanAssumption DEF ReadForQueue, RegistryInv
  <1>2. pc[Cycle] = "idle" /\ Newest \in 1..MaxWorkers /\ plan \in PlanType
    BY <1>1, IdlePlaces, NewestIsMade, RegistryNumbers DEF LocalInv, PlanTypeInv
  <1>3. CASE Dispatchable(Newest)
    <2>1. Take(Cycle, Newest, "pending") /\ Goto(Cycle, "queue") /\ plan' = plan
      BY <1>3 DEF ReadForQueue, Move
    <2>2. job'[Cycle].copy.status = "pending"
      <3>1. rows[Newest] \in RowType
        BY <1>1, <1>2, TableTypes
      <3> QED BY <1>1, <2>1, <3>1, TakenJob
    <2>3. \A r \in Requests \ {Cycle} : pc'[r] = pc[r] /\ job'[r] = job[r]
      BY <1>1, <2>1, TakenJob DEF Goto, TypeInv
    <2>4. pc'[Cycle] = "queue"
      BY <1>1, <2>1 DEF Goto, TypeInv
    <2>5. HeldDriven(Cycle)' /\ CycleCopy(Cycle)'
      BY <2>2, <2>4 DEF HeldDriven, CycleCopy
    <2> QED BY <1>1, <1>2, <2>1, <2>3, <2>5, TakeDrivesPlan
  <1>4. CASE ~Dispatchable(Newest)
    <2>1. UNCHANGED <<pc, job>>
          /\ plan' = [plan EXCEPT !.failed = TRUE, !.queued = @ \ {Newest}]
      BY <1>4 DEF ReadForQueue, Move
    <2>2. plan'.made = plan.made /\ plan'.queued = plan.queued \ {Newest}
      BY <1>2, <2>1 DEF PlanType
    <2>3. rows[Newest].status # "pending" \/ rows[Newest].path \notin trees
      BY <1>4 DEF Dispatchable
    <2> QED BY <1>1, <2>1, <2>2, <2>3, QuietKeepsPlanDriven
  <1> QED BY <1>3, <1>4

LEMMA SaveQueuedDrivesPlan ==
  ASSUME RegistryInv, LocalInv, PlanDrivenInv, SaveQueued
  PROVE  PlanDrivenInv'
  <1>1. /\ step = "save_queued" /\ Save(Cycle, job[Cycle].copy) /\ Return(Cycle)
        /\ UNCHANGED <<trees, restored>> /\ TypeInv /\ Cycle \in Requests
    BY PlanAssumption DEF SaveQueued, RegistryInv
  <1>2. pc[Cycle] = "queue" /\ job[Cycle].worker = Newest
    BY <1>1 DEF LocalInv, PlaceInv, CycleAt, NewestInv
  <1>3. Newest \in plan.queued /\ Newest \in plan.made
    BY <1>1, NewestIsMade
  <1>4. CASE Found(Newest)
    <2>1. plan' = plan /\ UNCHANGED lost
      BY <1>4 DEF SaveQueued, Move, Found
    <2> QED BY <1>1, <1>2, <1>3, <2>1, WriteDrivesPlan
  <1>5. CASE ~Found(Newest)
    <2>1. lost' = lost \union plan.queued
      BY <1>5 DEF SaveQueued, Found
    <2>2. lost \subseteq lost' /\ plan.made \intersect plan.queued \subseteq lost'
      BY <2>1
    <2> QED BY <1>1, <1>2, <1>5, <2>2, WriteDrivesPlan
  <1> QED BY <1>4, <1>5

LEMMA ActDrivesPlan ==
  ASSUME RegistryInv, LocalInv, PlanDrivenInv, Act
  PROVE  PlanDrivenInv'
  <1>1. /\ TypeInv /\ Cycle \in Requests /\ restored' = restored
        /\ plan'.made = plan.made /\ plan'.queued = plan.queued
        /\ pc[Cycle] # "idle" => plan' = plan
    BY PlanAssumption, NextActionCounts
       DEF RegistryInv, Act, NextAction, LocalInv, PlanTypeInv, ActionsCounted
  <1>2. CASE MakeWorker \/ DispatchWorker \/ RemoveWorker
    <2>1. Create(Cycle) \/ Dispatch(Cycle) \/ Remove(Cycle)
      BY <1>2 DEF MakeWorker, DispatchWorker, RemoveWorker, Dispatch
    <2> QED BY <1>1, <2>1, OwnStepDrivesPlan
  <1>3. CASE ReadForAssign
    <2>1. /\ pc[Cycle] = "idle" /\ Goto(Cycle, "assign")
          /\ UNCHANGED <<rows, trees, lost>>
      BY <1>3 DEF ReadForAssign
    <2>2. PICK w \in 1..created : Take(Cycle, w, "assigned")
      BY <1>3 DEF ReadForAssign
    <2>3. job'[Cycle].copy.status = "assigned"
      <3>1. rows[w] \in RowType
        BY <1>1, RegistryNumbers, TableTypes
      <3> QED BY <1>1, <2>2, <3>1, TakenJob
    <2>4. \A r \in Requests \ {Cycle} : pc'[r] = pc[r] /\ job'[r] = job[r]
      BY <1>1, <2>1, <2>2, TakenJob DEF Goto, TypeInv
    <2>5. pc'[Cycle] = "assign"
      BY <1>1, <2>1 DEF Goto, TypeInv
    <2>6. HeldDriven(Cycle)' /\ CycleCopy(Cycle)'
      BY <2>3, <2>5 DEF HeldDriven, CycleCopy
    <2> QED BY <1>1, <2>1, <2>4, <2>6, TakeDrivesPlan
  <1>4. CASE SaveAssigned
    <2>1. /\ pc[Cycle] = "assign" /\ Save(Cycle, job[Cycle].copy)
          /\ Return(Cycle) \/ (Goto(Cycle, "activate") /\ UNCHANGED job)
          /\ Found(job[Cycle].worker) => Goto(Cycle, "activate")
          /\ UNCHANGED <<trees, lost>>
      BY <1>4 DEF SaveAssigned, Found
    <2>2. Found(job[Cycle].worker) => pc'[Cycle] = "activate"
      BY <1>1, <2>1 DEF Goto, TypeInv
    <2> QED BY <1>1, <2>1, <2>2, WriteDrivesPlan
  <1> QED BY <1>2, <1>3, <1>4 DEF Act

LEMMA CycleStepDrivesPlan ==
  ASSUME RegistryInv, LocalInv, PlanDrivenInv, CycleStep
  PROVE  PlanDrivenInv'
  <1>1. TypeInv
    BY DEF RegistryInv
  <1> QED BY Zenon, <1>1, MovesDrivePlan, MakingDrivesPlan, QueueDrivesPlan,
          SaveQueuedDrivesPlan, ActDrivesPlan DEF CycleStep

\* A goroutine takes a worker from the queue and drives it, or finds its row gone
\* or its worktree removed.
LEMMA LaneStepDrivesPlan ==
  ASSUME RegistryInv, LocalInv, PlanDrivenInv, NEW l \in Lanes, LaneStep(l) \/ FailTurn(l)
  PROVE  PlanDrivenInv'
  <1>1. TypeInv /\ l \in Requests /\ l \notin Operators /\ plan \in PlanType
    BY LaneSet DEF RegistryInv, Operators, LocalInv, PlanTypeInv
  <1>2. restored' = restored
    BY DEF LaneStep, ContinueTurn, EndContinuation, BeginTurn, RefuseTurn, RunTurn, EndTurn,
       FailTurn
  <1>3. step = "continue" => plan.made = {}
    BY DEF LocalInv, HoldsInv, Planning, Making, Settling
  <1>4. CASE ContinueTurn(l)
    <2>1. PICK w \in plan.queued :
            job' = [job EXCEPT ![l] = [worker |-> w, copy |-> plan.batch[w],
                                       turn |-> plan.batch[w].turn]]
      BY <1>4 DEF ContinueTurn
    <2>2. /\ step = "continue" /\ pc[l] = "idle" /\ Goto(l, "turn")
          /\ UNCHANGED <<rows, trees, lost>>
      BY <1>4 DEF ContinueTurn
    <2>3. /\ pc'[l] = "turn" /\ job'[l].turn = plan.batch[w].turn
          /\ \A r \in Requests \ {l} : pc'[r] = pc[r] /\ job'[r] = job[r]
      BY <1>1, <2>1, <2>2 DEF Goto, TypeInv
    <2>4. plan.batch[w].turn # 0
      BY <2>2 DEF LocalInv, BatchInv
    <2>5. HeldDriven(l)' /\ CycleCopy(l)'
      BY <2>3, <2>4 DEF HeldDriven, CycleCopy
    <2> QED BY <1>1, <1>2, <1>3, <2>2, <2>3, <2>5, TakeDrivesPlan
  <1>5. CASE BeginTurn(l)
    <2>1. PICK w \in plan.queued : /\ Take(l, w, rows[w].status)
                                   /\ plan' = [plan EXCEPT !.queued = @ \ {w}]
      BY <1>5 DEF BeginTurn
    <2>2. pc[l] = "idle" /\ Goto(l, "activate") /\ UNCHANGED <<rows, trees, lost>>
      BY <1>5 DEF BeginTurn
    <2>3. /\ pc'[l] = "activate" /\ job'[l].worker = w
          /\ \A r \in Requests \ {l} : pc'[r] = pc[r] /\ job'[r] = job[r]
      BY <1>1, <2>1, <2>2, TakenJob DEF Goto, TypeInv
    <2>4. plan'.made = plan.made /\ plan'.queued = plan.queued \ {w}
      BY <1>1, <2>1 DEF PlanType
    <2>5. PlanDrives(l, w)' /\ HeldDriven(l)' /\ CycleCopy(l)'
      BY <1>1, <2>3 DEF PlanDrives, HeldDriven, CycleCopy, Operators
    <2> QED BY <1>1, <1>2, <2>2, <2>3, <2>4, <2>5, TakeDrivesPlan
  <1>6. CASE RefuseTurn(l)
    <2>1. PICK w \in plan.queued : ~Dispatchable(w) /\ Count(w, rows[w])
      BY <1>6 DEF RefuseTurn
    <2>2. UNCHANGED <<rows, trees, pc, job, lost>>
      BY <1>6 DEF RefuseTurn, vars
    <2>3. rows[w] \in RowType /\ w \in 1..MaxWorkers
      BY <1>1, TableTypes, RegistryNumbers DEF PlanType
    <2>4. plan'.made = plan.made /\ plan'.queued = plan.queued \ {w}
      BY <1>1, <2>1, <2>3, CountFields
    <2>5. rows[w].status # "pending" \/ rows[w].path \notin trees
      BY <2>1 DEF Dispatchable
    <2> QED BY <1>2, <2>2, <2>4, <2>5, QuietKeepsPlanDriven
  <1>7. CASE RunTurn(l)
    <2>1. Dispatch(l)
      BY <1>7 DEF RunTurn, Dispatch
    <2>2. plan'.made = plan.made /\ plan'.queued = plan.queued
      <3>1. CASE plan' = [plan EXCEPT !.broken = @ \/ pc'[l] = "idle"]
        BY <1>1, <3>1 DEF PlanType
      <3>2. CASE plan' = plan
        BY <3>2
      <3> QED BY <1>7, <3>1, <3>2 DEF RunTurn
    <2> QED BY <1>1, <1>2, <2>1, <2>2, OwnStepDrivesPlan
  <1>8. CASE EndContinuation(l)
    <2>1. Dispatch(l) /\ plan.made = {}
      BY <1>3, <1>8 DEF EndContinuation, Dispatch
    <2> QED BY <1>1, <1>2, <2>1, OwnStepDrivesPlan
  <1>9. CASE EndTurn(l)
    <2>1. PICK w : w = job[l].worker
      OBVIOUS
    <2>2. Dispatch(l) /\ SaveResult(l) /\ pc[l] = "save"
      BY <1>9 DEF EndTurn, Dispatch, SaveResult
    <2>3. w \in 1..MaxWorkers /\ job[l].copy \in RowType /\ Safe(job[l].copy)
      BY <1>1, <2>1, <2>2, HeldWorker, HeldTypes DEF PlanDrivenInv, HeldDriven
    <2>4. CASE rows[w].status = "none"
      <3>1. plan' = [plan EXCEPT !.broken = TRUE]
        BY <1>9, <2>1, <2>4 DEF EndTurn
      <3>2. plan'.made = plan.made /\ plan'.queued = plan.queued
        BY <1>1, <3>1 DEF PlanType
      <3> QED BY <1>1, <1>2, <2>2, <3>2, OwnStepDrivesPlan
    <2>5. CASE rows[w].status # "none"
      <3>1. Count(w, job[l].copy)
        BY <1>9, <2>1, <2>5 DEF EndTurn
      <3>2. rows' = [rows EXCEPT ![w] = job[l].copy] /\ rows \in [1..MaxWorkers -> RowType]
        BY <1>1, <2>1, <2>2, <2>5, TableTypes DEF SaveResult, Save, Found
      <3>3. plan'.made = plan.made /\ plan'.queued = plan.queued \ {w}
        BY <1>1, <2>3, <3>1, CountFields
      <3>4. Safe(rows[w])'
        <4>1. rows'[w] = job[l].copy
          BY <2>3, <3>2
        <4> QED BY <2>3, <4>1 DEF Safe, Continuable
      <3> QED BY <1>1, <1>2, <2>2, <3>3, <3>4, OwnStepDrivesPlan
    <2> QED BY <2>4, <2>5
  <1>10. CASE FailTurn(l)
    <2>1. /\ pc[l] # "idle" /\ Return(l) /\ lost' = lost \union {job[l].worker}
          /\ plan' = [plan EXCEPT !.broken = TRUE] /\ UNCHANGED <<rows, trees>>
      BY <1>10 DEF FailTurn
    <2>2. pc'[l] = "idle" /\ \A r \in Requests \ {l} : pc'[r] = pc[r] /\ job'[r] = job[r]
      BY <1>1, <2>1 DEF Return, Goto, TypeInv
    <2>3. plan'.made = plan.made /\ plan'.queued = plan.queued
      BY <1>1, <2>1 DEF PlanType
    <2>4. RowsSound' /\ HeldDriven(l)' /\ CycleCopy(l)'
      BY <2>1, <2>2 DEF PlanDrivenInv, RowsSound, Sound, HeldDriven, CycleCopy
    <2>5. ASSUME NEW w \in Counted', PlanSafe(w) \/ PlanDrives(l, w) PROVE PlanSafe(w)'
      <3>1. ~PlanDrives(l, w)
        BY <2>1 DEF PlanDrives, Drives, Counted
      <3> QED BY <2>1, <2>3, <2>5, <3>1 DEF PlanSafe, Safe, Continuable
    <2>6. PlanDriveStep(l)
      BY <1>2, <2>1, <2>2, <2>4, <2>5 DEF PlanDriveStep
    <2> QED BY <1>1, <2>6, StepKeepsPlanDriven
  <1> QED BY Zenon, <1>4, <1>5, <1>6, <1>7, <1>8, <1>9, <1>10 DEF LaneStep

\* A cycle that stops leaves nobody driven by it that is not counted as lost.
LEMMA CycleStopsDrivesPlan ==
  ASSUME RegistryInv, LocalInv, PlanDrivenInv, CycleStops
  PROVE  PlanDrivenInv'
  <1> DEFINE own == {job[q].worker : q \in Lanes \union {Cycle}} \ {0}
  <1>1. /\ UNCHANGED <<rows, trees, restored>>
        /\ lost' = lost \union (plan.made \intersect plan.queued) \union own
        /\ pc' = [q \in Requests |-> IF q \in Operators THEN pc[q] ELSE "idle"]
        /\ job' = [q \in Requests |-> IF q \in Operators THEN job[q] ELSE NoJob]
    BY DEF CycleStops
  <1>2. \A q \in Requests : \/ q \in Operators /\ pc'[q] = pc[q] /\ job'[q] = job[q]
                            \/ q \notin Operators /\ pc'[q] = "idle"
    BY <1>1
  <1>3. \A q \in Requests \ Operators : job[q].worker # 0 => job[q].worker \in own
    BY DEF Operators
  <1> HIDE DEF own
  <1>4. RowsSound' /\ \A q \in Requests : HeldDriven(q)' /\ CycleCopy(q)'
    <2>1. RowsSound'
      BY <1>1 DEF PlanDrivenInv, RowsSound, Sound
    <2>2. ASSUME NEW q \in Requests PROVE HeldDriven(q)' /\ CycleCopy(q)'
      <3>1. CASE pc'[q] = "idle"
        BY <3>1 DEF HeldDriven, CycleCopy
      <3>2. CASE pc'[q] = pc[q] /\ job'[q] = job[q]
        BY <3>2 DEF PlanDrivenInv, HeldDriven, CycleCopy, Safe, Continuable
      <3> QED BY <1>2, <3>1, <3>2
    <2> QED BY <2>1, <2>2
  <1>5. ASSUME NEW w \in Counted' PROVE PlanSafe(w)' \/ \E q \in Requests : PlanDrives(q, w)'
    <2>1. /\ w \in Counted /\ w \notin own /\ w \notin plan.made \intersect plan.queued
          /\ w # 0
      BY <1>1 DEF Counted
    <2>2. CASE PlanSafe(w)
      BY <1>1, <2>1, <2>2 DEF PlanSafe, Safe, Continuable
    <2>3. ASSUME NEW q \in Requests, PlanDrives(q, w) PROVE PlanDrives(q, w)'
      <3>1. job[q].worker = w
        BY <2>3 DEF PlanDrives, Drives
      <3>2. q \in Operators
        BY <1>3, <2>1, <3>1
      <3>3. pc'[q] = pc[q] /\ job'[q] = job[q]
        BY <1>2, <3>2
      <3> QED BY <2>3, <3>2, <3>3 DEF PlanDrives, Drives, Operators
    <2> QED BY <2>1, <2>2, <2>3 DEF PlanDrivenInv
  <1> QED BY <1>4, <1>5 DEF PlanDrivenInv

\* A worker that counts as active is driven, waits for its slot in a plan, or has a
\* turn that a later cycle continues, unless who drove it was cut off, its worktree
\* was removed or it got back an older status: with any number of goroutines, of
\* which some fail, are refused or break the plan, and of operator's requests.
THEOREM PlansSettle == PlanSpec => []PlanSettles
  <1>1. PlanInit => PlanDrivenInv
    <2> SUFFICES ASSUME PlanInit PROVE PlanDrivenInv
      OBVIOUS
    <2>1. /\ \A w \in 1..MaxWorkers : rows[w] = NoRow
          /\ \A q \in Requests : pc[q] = "idle"
      BY DEF PlanInit, Init
    <2>2. Safe(NoRow) /\ Sound(NoRow)
      BY DEF Safe, Sound, Active, NoRow
    <2> QED BY <2>1, <2>2 DEF PlanDrivenInv, RowsSound, HeldDriven, CycleCopy, Counted, PlanSafe
  <1>2. PlanInv /\ PlanDrivenInv /\ [PlanNext]_allVars => PlanDrivenInv'
    <2> SUFFICES ASSUME PlanInv, PlanDrivenInv, [PlanNext]_allVars PROVE PlanDrivenInv'
      OBVIOUS
    <2>1. RegistryInv /\ LocalInv
      BY DEF PlanInv
    <2>2. ASSUME UNCHANGED <<rows, trees, pc, job, lost, plan, restored>>
          PROVE  PlanDrivenInv'
      BY <2>2, QuietKeepsPlanDriven
    <2>3. UNCHANGED allVars \/ (\E t \in 1..MaxTurns : TurnAdvances(t) /\ UNCHANGED planVars) =>
            UNCHANGED <<rows, trees, pc, job, lost, plan, restored>>
      BY DEF TurnAdvances, allVars, vars, planVars
    <2> QED BY Zenon, <2>1, <2>2, <2>3, CycleStepDrivesPlan, CycleStopsDrivesPlan,
            LaneStepDrivesPlan, OperateDrivesPlan DEF PlanNext
  <1>3. PlanInv /\ PlanDrivenInv => PlanSettles
    <2> SUFFICES ASSUME PlanInv, PlanDrivenInv, NEW w \in (1..created) \ (lost \union restored),
                        Active(rows[w].status)
                 PROVE  \/ Continuable(rows[w]) \/ w \in plan.queued \/ rows[w].path \notin trees
                        \/ \E q \in Requests : job[q].worker = w
      BY DEF PlanSettles
    <2>1. w \in Counted
      BY RegistryNumbers DEF Counted, PlanInv, RegistryInv
    <2>2. PlanSafe(w) \/ \E q \in Requests : PlanDrives(q, w)
      BY <2>1 DEF PlanDrivenInv
    <2> QED BY <2>2 DEF PlanSafe, Safe, PlanDrives, Drives
  <1> QED BY <1>1, <1>2, <1>3, PlanInvariant, PTL DEF PlanSpec
=============================================================================

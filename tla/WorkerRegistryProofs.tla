------------------------ MODULE WorkerRegistryProofs ------------------------
(***************************************************************************)
(* What holds of WorkerRegistry for any number of requests, paths, rows    *)
(* and turns: the types, that no worktree is left without a row, and that  *)
(* a worker recorded as completed names a turn that did complete.          *)
(* The argument for the second: a path belongs to one row as long as the   *)
(* row is there, a request that is creating a worker is the only one that  *)
(* holds it, and a request that is about to delete a row has seen to it    *)
(* that nothing is at the row's path.                                      *)
(***************************************************************************)
EXTENDS WorkerRegistry, TLAPS

Places == {"idle", "add", "undo", "created", "activate", "start", "turn", "save",
           "answer", "answered", "list", "keep_reason", "clear_reason",
           "interrupt", "steer", "note", "remove", "delete", "assign", "queue"}

JobType == [worker : 0..created, copy : RowType, turn : 0..started]

\* TypeOK does not say that job is a function of records; the proof needs it, and
\* that a request which is under way has a worker, and a new one a path.
TypeInv ==
  /\ TypeOK
  /\ pc \in [Requests -> Places]
  /\ job \in [Requests -> JobType]
  /\ \A q \in Requests : pc[q] # "idle" => job[q].worker # 0
  /\ \A q \in Requests : pc[q] = "add" => job[q].copy.path \in Paths

-----------------------------------------------------------------------------
(* Types.                                                                  *)

\* What a request holds that read a row, and the row of a new worker.
LEMMA NewJob ==
  ASSUME NEW w, NEW r
  PROVE  [NoJob EXCEPT !.worker = w, !.copy = r] = [worker |-> w, copy |-> r, turn |-> 0]
  <1> DEFINE j == [NoJob EXCEPT !.worker = w]
  <1>1. j = [worker |-> w, copy |-> NoRow, turn |-> 0]
    BY DEF NoJob
  <1>2. [NoJob EXCEPT !.worker = w, !.copy = r] = [j EXCEPT !.copy = r]
    OBVIOUS
  <1> HIDE DEF j
  <1>3. [j EXCEPT !.copy = r] = [worker |-> w, copy |-> r, turn |-> 0]
    BY <1>1
  <1> QED BY <1>2, <1>3

LEMMA NewRow ==
  ASSUME NEW p
  PROVE  [NoRow EXCEPT !.status = "creating", !.path = p]
           = [status |-> "creating", path |-> p, turn |-> 0]
  <1> DEFINE r == [NoRow EXCEPT !.status = "creating"]
  <1>1. r = [status |-> "creating", path |-> "none", turn |-> 0]
    BY DEF NoRow
  <1>2. [NoRow EXCEPT !.status = "creating", !.path = p] = [r EXCEPT !.path = p]
    OBVIOUS
  <1> HIDE DEF r
  <1>3. [r EXCEPT !.path = p] = [status |-> "creating", path |-> p, turn |-> 0]
    BY <1>1
  <1> QED BY <1>2, <1>3

\* What a request holds, by its parts.
LEMMA HeldTypes ==
  ASSUME TypeInv, NEW q \in Requests
  PROVE  /\ job[q] \in JobType
         /\ job[q].worker \in 0..created
         /\ job[q].copy \in RowType
         /\ job[q].turn \in 0..started
         /\ created \in Nat /\ started \in Nat
  BY RegistryAssumption DEF TypeInv, TypeOK, JobType

\* A row that names a turn that was started still does when more are started.
LEMMA RowTypeGrows ==
  ASSUME started \in Nat, started' \in Nat, started <= started', NEW r \in RowType
  PROVE  r \in RowType'
  BY DEF RowType, Statuses

\* The same of what a request holds.
LEMMA JobTypeGrows ==
  ASSUME started \in Nat, started' \in Nat, started <= started',
         created \in Nat, created' \in Nat, created <= created',
         NEW j \in JobType
  PROVE  j \in JobType'
  <1>1. j.copy \in RowType'
    BY RowTypeGrows DEF JobType
  <1>2. j.worker \in 0..created' /\ j.turn \in 0..started'
    BY DEF JobType
  <1> QED BY <1>1, <1>2 DEF JobType

\* SaveWorker keeps the table's type.
LEMMA SaveTypes ==
  ASSUME TypeInv, NEW q \in Requests, NEW row \in RowType, Save(q, row)
  PROVE  rows' \in [1..MaxWorkers -> RowType]
  BY DEF TypeInv, TypeOK, Save

\* A row with another status is a row.
LEMMA StatusType ==
  ASSUME NEW r \in RowType, NEW s \in Statuses
  PROVE  [r EXCEPT !.status = s] \in RowType
  BY DEF RowType

\* A step that changes neither how many rows nor how many turns there were keeps
\* the types, when the table and what the request holds have theirs.
LEMMA StepTypes ==
  ASSUME TypeInv, NEW q \in Requests, NEW place \in Places, NEW j \in JobType,
         place # "idle" => j.worker # 0, place # "add",
         pc' = [pc EXCEPT ![q] = place], job' = [job EXCEPT ![q] = j],
         UNCHANGED <<created, started>>,
         rows' \in [1..MaxWorkers -> RowType], trees' \subseteq Paths,
         turns' \in [1..MaxTurns -> {"none", "running", "waiting", "completed", "failed"}],
         reason' \in BOOLEAN, lost' \subseteq 1..created, losses' \in 0..MaxLosses
  PROVE  TypeInv'
  <1>1. RowType' = RowType /\ JobType' = JobType
    BY DEF RowType, JobType
  <1>2. pc' \in [Requests -> Places] /\ job' \in [Requests -> JobType']
    BY <1>1 DEF TypeInv
  <1>3. \A r \in Requests : /\ pc'[r] # "idle" => job'[r].worker # 0
                            /\ pc'[r] = "add" => job'[r].copy.path \in Paths
    BY DEF TypeInv
  <1>4. TypeOK'
    <2>1. \A r \in Requests : /\ job'[r].worker \in 0..created'
                              /\ job'[r].copy \in RowType'
                              /\ job'[r].turn \in 0..started'
      BY <1>1, <1>2 DEF JobType
    <2>2. /\ created' \in 0..MaxWorkers /\ started' \in 0..MaxTurns
          /\ rows' \in [1..MaxWorkers -> RowType'] /\ lost' \subseteq 1..created'
      BY <1>1 DEF TypeInv, TypeOK
    <2> QED BY <2>1, <2>2 DEF TypeOK
  <1> QED BY <1>2, <1>3, <1>4 DEF TypeInv

\* A deleted row, and what a request holds that is not under way.
LEMMA EmptyRowType ==
  ASSUME TypeInv
  PROVE  NoRow \in RowType /\ NoJob \in JobType
  <1>1. created \in Nat /\ started \in Nat
    BY RegistryAssumption DEF TypeInv, TypeOK
  <1> QED BY <1>1 DEF NoJob, NoRow, JobType, RowType, Statuses

\* A request that returns holds nothing.
LEMMA ReturnTypes ==
  ASSUME TypeInv, NEW q \in Requests, Return(q), UNCHANGED <<created, started>>,
         rows' \in [1..MaxWorkers -> RowType], trees' \subseteq Paths,
         turns' \in [1..MaxTurns -> {"none", "running", "waiting", "completed", "failed"}],
         reason' \in BOOLEAN, lost' \subseteq 1..created, losses' \in 0..MaxLosses
  PROVE  TypeInv'
  <1>1. "idle" \in Places
    BY DEF Places
  <1> QED BY <1>1, EmptyRowType, StepTypes DEF Return, Goto

\* What the type invariant says of the table and of the counters.
LEMMA TableTypes ==
  ASSUME TypeInv
  PROVE  /\ rows \in [1..MaxWorkers -> RowType] /\ trees \subseteq Paths
         /\ turns \in [1..MaxTurns -> {"none", "running", "waiting", "completed", "failed"}]
         /\ reason \in BOOLEAN /\ lost \subseteq 1..created /\ losses \in 0..MaxLosses
         /\ created \in 0..MaxWorkers /\ started \in 0..MaxTurns
  BY DEF TypeInv, TypeOK

\* A row that is found belongs to the table, and Read takes a copy of it.
LEMMA ReadTypes ==
  ASSUME TypeInv, NEW q \in Requests, NEW place \in Places \ {"add"},
         \E w \in 1..created : Read(q, w), Goto(q, place),
         UNCHANGED <<rows, created, trees, turns, started, reason, lost, losses>>
  PROVE  TypeInv'
  <1>1. PICK w \in 1..created : Read(q, w)
    OBVIOUS
  <1> DEFINE j == [NoJob EXCEPT !.worker = w, !.copy = rows[w]]
  <1>2. j = [worker |-> w, copy |-> rows[w], turn |-> 0]
    BY NewJob
  <1>3. w \in 1..MaxWorkers /\ rows[w] \in RowType /\ started \in Nat /\ created \in Nat
    BY TableTypes, RegistryAssumption
  <1>4. pc' = [pc EXCEPT ![q] = place] /\ job' = [job EXCEPT ![q] = j]
    BY <1>1 DEF Read, Goto
  <1> HIDE DEF j
  <1>5. j \in JobType /\ j.worker # 0
    BY <1>2, <1>3 DEF JobType
  <1> QED BY <1>4, <1>5, StepTypes, TableTypes

\* A request goes on with what it holds.
LEMMA GoOnTypes ==
  ASSUME TypeInv, NEW q \in Requests, NEW place \in Places \ {"add"},
         Goto(q, place), pc[q] # "idle", UNCHANGED <<job, created, started>>,
         rows' \in [1..MaxWorkers -> RowType], trees' \subseteq Paths,
         turns' \in [1..MaxTurns -> {"none", "running", "waiting", "completed", "failed"}],
         reason' \in BOOLEAN, lost' \subseteq 1..created, losses' \in 0..MaxLosses
  PROVE  TypeInv'
  <1>1. job' = [job EXCEPT ![q] = job[q]] /\ job[q] \in JobType /\ job[q].worker # 0
    BY DEF TypeInv
  <1>2. pc' = [pc EXCEPT ![q] = place]
    BY DEF Goto
  <1> QED BY <1>1, <1>2, StepTypes, HeldTypes

\* create keeps the types.
LEMMA CreateTypes ==
  ASSUME TypeInv, NEW q \in Requests, Create(q)
  PROVE  TypeInv'
  <1> USE TableTypes
  <1>1. CASE InsertRow(q)
    <2>1. PICK p \in Paths :
            LET row == [NoRow EXCEPT !.status = "creating", !.path = p] IN
              /\ rows' = [rows EXCEPT ![created + 1] = row]
              /\ job' = [job EXCEPT ![q] = [NoJob EXCEPT !.worker = created + 1, !.copy = row]]
      BY <1>1 DEF InsertRow
    <2> DEFINE row == [status |-> "creating", path |-> p, turn |-> 0]
    <2> DEFINE j == [worker |-> created + 1, copy |-> row, turn |-> 0]
    <2>2. rows' = [rows EXCEPT ![created + 1] = row] /\ job' = [job EXCEPT ![q] = j]
      <3>1. [NoRow EXCEPT !.status = "creating", !.path = p] = row
        BY NewRow
      <3>2. [NoJob EXCEPT !.worker = created + 1, !.copy = row] = j
        BY NewJob
      <3> QED BY <2>1, <3>1, <3>2
    <2>3. /\ created' = created + 1 /\ pc' = [pc EXCEPT ![q] = "add"]
          /\ created < MaxWorkers
          /\ UNCHANGED <<trees, turns, started, reason, lost, losses>>
      BY <1>1 DEF InsertRow, Goto
    <2>4. created \in Nat /\ started \in Nat /\ created' \in 0..MaxWorkers
      BY <2>3, RegistryAssumption
    <2>5. row \in RowType /\ RowType' = RowType
      BY <2>3, <2>4 DEF RowType, Statuses
    <2>6. j \in JobType'
      BY <2>3, <2>4, <2>5 DEF JobType
    <2>7. \A r \in Requests : job'[r] \in JobType'
      <3>1. \A r \in Requests : job[r] \in JobType'
        BY <2>3, <2>4, JobTypeGrows, HeldTypes
      <3> HIDE DEF j
      <3> QED BY <2>2, <2>6, <3>1 DEF TypeInv
    <2>8. job' \in [Requests -> JobType'] /\ pc' \in [Requests -> Places]
      <3> HIDE DEF j
      <3> QED BY <2>2, <2>3, <2>7 DEF TypeInv, Places
    <2>9. \A r \in Requests : /\ pc'[r] # "idle" => job'[r].worker # 0
                              /\ pc'[r] = "add" => job'[r].copy.path \in Paths
      BY <2>2, <2>3, <2>4 DEF TypeInv
    <2>10. rows' \in [1..MaxWorkers -> RowType'] /\ lost' \subseteq 1..created'
      <3> HIDE DEF row
      <3> QED BY <2>2, <2>3, <2>4, <2>5
    <2>11. \A r \in Requests : /\ job'[r].worker \in 0..created'
                               /\ job'[r].copy \in RowType'
                               /\ job'[r].turn \in 0..started'
      BY <2>8 DEF JobType
    <2> QED BY <2>3, <2>4, <2>8, <2>9, <2>10, <2>11 DEF TypeInv, TypeOK
  <1>2. CASE AddWorktree(q)
    <2>1. trees' \subseteq Paths
      BY <1>2 DEF AddWorktree, TypeInv
    <2>2. /\ Goto(q, "created") \/ Goto(q, "undo")
          /\ pc[q] # "idle"
          /\ UNCHANGED <<rows, created, turns, started, reason, job, lost, losses>>
      BY <1>2 DEF AddWorktree
    <2>3. "created" \in Places \ {"add"} /\ "undo" \in Places \ {"add"}
      BY DEF Places
    <2> QED BY <2>1, <2>2, <2>3, GoOnTypes
  <1>3. CASE UndoRow(q)
    <2>1. rows' \in [1..MaxWorkers -> RowType]
      BY <1>3, EmptyRowType DEF UndoRow
    <2> QED BY <1>3, <2>1, ReturnTypes DEF UndoRow
  <1>4. CASE SaveCreated(q)
    <2>1. [job[q].copy EXCEPT !.status = "idle"] \in RowType
      BY HeldTypes, StatusType DEF Statuses
    <2>2. rows' \in [1..MaxWorkers -> RowType]
      BY <1>4, <2>1, SaveTypes DEF SaveCreated
    <2> QED BY <1>4, <2>2, ReturnTypes DEF SaveCreated
  <1> QED BY <1>1, <1>2, <1>3, <1>4 DEF Create

\* A request keeps its worker and changes the rest of what it holds.
LEMMA WorkTypes ==
  ASSUME TypeInv, NEW q \in Requests, NEW place \in Places \ {"add"},
         NEW j \in JobType, j.worker = job[q].worker, pc[q] # "idle",
         Goto(q, place), job' = [job EXCEPT ![q] = j],
         UNCHANGED <<rows, created, trees, started, reason, lost, losses>>,
         turns' \in [1..MaxTurns -> {"none", "running", "waiting", "completed", "failed"}]
  PROVE  TypeInv'
  <1>1. pc' = [pc EXCEPT ![q] = place] /\ j.worker # 0
    BY DEF Goto, TypeInv
  <1> QED BY <1>1, StepTypes, TableTypes

\* What a request holds after a call of the executor.
LEMMA OutcomeTypes ==
  ASSUME TypeInv, NEW q \in Requests, NEW s \in Statuses, NEW t \in 0..started
  PROVE  /\ [job[q] EXCEPT !.copy.status = s, !.copy.turn = t] \in JobType
         /\ [job[q] EXCEPT !.copy.status = s, !.copy.turn = t].worker = job[q].worker
         /\ [job[q] EXCEPT !.copy.status = s, !.copy.turn = t, !.turn = 0] \in JobType
         /\ [job[q] EXCEPT !.copy.status = s, !.copy.turn = t, !.turn = 0].worker
              = job[q].worker
  <1>1. [job[q] EXCEPT !.copy.status = s, !.copy.turn = t] \in JobType
    BY HeldTypes DEF JobType, RowType
  <1>2. [job[q] EXCEPT !.copy.status = s, !.copy.turn = t].worker = job[q].worker
    BY HeldTypes DEF JobType, RowType
  <1>3. [job[q] EXCEPT !.copy.status = s, !.copy.turn = t, !.turn = 0] \in JobType
    <2> DEFINE k == [job[q] EXCEPT !.copy.status = s, !.copy.turn = t]
    <2>1. [job[q] EXCEPT !.copy.status = s, !.copy.turn = t, !.turn = 0]
            = [k EXCEPT !.turn = 0]
      OBVIOUS
    <2>2. k \in JobType /\ 0 \in 0..started
      BY <1>1, HeldTypes
    <2> HIDE DEF k
    <2>3. [k EXCEPT !.turn = 0] \in JobType
      BY <2>2 DEF JobType
    <2> QED BY <2>1, <2>3
  <1>4. [job[q] EXCEPT !.copy.status = s, !.copy.turn = t, !.turn = 0].worker = job[q].worker
    BY HeldTypes DEF JobType, RowType
  <1> QED BY <1>1, <1>2, <1>3, <1>4

\* A turn is started: the types of rows and of what requests hold grow.
LEMMA StartTurnTypes ==
  ASSUME TypeInv, NEW q \in Requests, StartTurn(q)
  PROVE  TypeInv'
  <1> USE TableTypes
  <1>1. /\ pc[q] = "start" /\ started < MaxTurns /\ started' = started + 1
        /\ turns' = [turns EXCEPT ![started + 1] = "running"]
        /\ pc' = [pc EXCEPT ![q] = "turn"]
        /\ UNCHANGED <<rows, created, trees, reason, lost, losses>>
    BY DEF StartTurn, Goto
  <1>2. /\ started \in Nat /\ created \in Nat /\ started' \in 0..MaxTurns
        /\ started \in 0..started' /\ started <= started' /\ created <= created'
    BY <1>1, RegistryAssumption
  <1>3. job' = [job EXCEPT ![q] = [job[q] EXCEPT !.turn = started + 1]]
    BY DEF StartTurn, TypeInv
  <1>4. \A r \in Requests : job[r] \in JobType'
    BY <1>1, <1>2, JobTypeGrows, HeldTypes
  <1>5. \A j \in JobType' : [j EXCEPT !.turn = started + 1] \in JobType'
    BY <1>1, <1>2 DEF JobType
  <1>6. job' \in [Requests -> JobType']
    BY <1>3, <1>4, <1>5 DEF TypeInv
  <1>7. \A r \in Requests : job'[r].worker = job[r].worker
    BY <1>3, HeldTypes DEF JobType, TypeInv
  <1>8. \A r \in Requests : /\ pc'[r] # "idle" => job'[r].worker # 0
                            /\ pc'[r] = "add" => job'[r].copy.path \in Paths
    BY <1>1, <1>3, <1>7 DEF TypeInv
  <1>9. pc' \in [Requests -> Places]
    BY <1>1 DEF TypeInv, Places
  <1>10. \A w \in 1..MaxWorkers : rows[w] \in RowType'
    BY <1>2, RowTypeGrows
  <1>11. rows' \in [1..MaxWorkers -> RowType']
    BY <1>1, <1>10
  <1>12. turns' \in [1..MaxTurns -> {"none", "running", "waiting", "completed", "failed"}]
    BY <1>1
  <1>13. \A r \in Requests : /\ job'[r].worker \in 0..created'
                             /\ job'[r].copy \in RowType'
                             /\ job'[r].turn \in 0..started'
    BY <1>6 DEF JobType
  <1>14. TypeOK'
    BY <1>1, <1>2, <1>11, <1>12, <1>13 DEF TypeOK
  <1> QED BY <1>6, <1>8, <1>9, <1>14 DEF TypeInv

\* dispatch, and the continuation of a turn, keep the types.
LEMMA DispatchTypes ==
  ASSUME TypeInv, NEW q \in Requests, Dispatch(q) \/ ReadForContinue(q)
  PROVE  TypeInv'
  <1> USE TableTypes
  <1>1. CASE ReadForDispatch(q)
    <2>1. "activate" \in Places \ {"add"} /\ \E w \in 1..created : Read(q, w)
      BY <1>1 DEF Places, ReadForDispatch
    <2> QED BY <1>1, <2>1, ReadTypes DEF ReadForDispatch
  <1>2. CASE Activate(q)
    <2>1. [job[q].copy EXCEPT !.status = "executor_active"] \in RowType
      BY HeldTypes, StatusType DEF Statuses
    <2>2. rows' \in [1..MaxWorkers -> RowType]
      BY <1>2, <2>1, SaveTypes DEF Activate
    <2>3. CASE Return(q)
      BY <1>2, <2>2, <2>3, ReturnTypes DEF Activate
    <2>4. CASE Goto(q, "start") /\ UNCHANGED job
      <3>1. "start" \in Places \ {"add"} /\ pc[q] # "idle"
        BY <1>2 DEF Places, Activate
      <3> QED BY <1>2, <2>2, <2>4, <3>1, GoOnTypes DEF Activate
    <2> QED BY <1>2, <2>3, <2>4 DEF Activate
  <1>3. CASE ClientUnavailable(q)
    <2>1. lost' \subseteq 1..created
      BY <1>3, HeldTypes DEF ClientUnavailable, TypeInv
    <2> QED BY <1>3, <2>1, ReturnTypes DEF ClientUnavailable
  <1>4. CASE StartTurn(q)
    BY <1>4, StartTurnTypes
  <1>5. CASE StartFails(q)
    <2> DEFINE j == [job[q] EXCEPT !.copy.status = "failed", !.copy.turn = 0]
    <2>1. j \in JobType /\ j.worker = job[q].worker
      <3>1. "failed" \in Statuses /\ 0 \in 0..started
        BY HeldTypes DEF Statuses
      <3> QED BY <3>1, OutcomeTypes
    <2>2. job' = [job EXCEPT ![q] = j]
      BY <1>5 DEF StartFails, TypeInv
    <2>3. "save" \in Places \ {"add"} /\ pc[q] # "idle" /\ Goto(q, "save")
      BY <1>5 DEF Places, StartFails
    <2>4. UNCHANGED <<rows, created, trees, turns, started, reason, lost, losses>>
      BY <1>5 DEF StartFails
    <2> HIDE DEF j
    <2> QED BY <2>1, <2>2, <2>3, <2>4, WorkTypes
  <1>6. CASE TurnReturns(q)
    <2>1. PICK outcome \in {"approval_required", "completed", "failed"} :
            job' = [job EXCEPT ![q].copy.status = outcome,
                               ![q].copy.turn = job[q].turn, ![q].turn = 0]
      BY <1>6 DEF TurnReturns
    <2> DEFINE j == [job[q] EXCEPT !.copy.status = outcome,
                                   !.copy.turn = job[q].turn, !.turn = 0]
    <2>2. outcome \in Statuses
      BY DEF Statuses
    <2>3. j \in JobType /\ j.worker = job[q].worker
      BY <2>2, HeldTypes, OutcomeTypes, ZenonT(60)
    <2>4. job' = [job EXCEPT ![q] = j]
      BY <2>1 DEF TypeInv
    <2>5. "save" \in Places \ {"add"} /\ pc[q] # "idle" /\ Goto(q, "save")
      BY <1>6 DEF Places, TurnReturns
    <2>6. UNCHANGED <<rows, created, trees, turns, started, reason, lost, losses>>
      BY <1>6 DEF TurnReturns
    <2> HIDE DEF j
    <2> QED BY <2>3, <2>4, <2>5, <2>6, WorkTypes
  <1>7. CASE SaveResult(q)
    <2>1. rows' \in [1..MaxWorkers -> RowType]
      BY <1>7, HeldTypes, SaveTypes DEF SaveResult
    <2> QED BY <1>7, <2>1, ReturnTypes DEF SaveResult
  <1>8. CASE ReadForContinue(q)
    <2>1. PICK w \in 1..created :
            job' = [job EXCEPT ![q] = [worker |-> w, copy |-> rows[w], turn |-> rows[w].turn]]
      BY <1>8 DEF ReadForContinue
    <2> DEFINE j == [worker |-> w, copy |-> rows[w], turn |-> rows[w].turn]
    <2>2. rows[w] \in RowType /\ created \in Nat
      BY RegistryAssumption
    <2>3. j \in JobType /\ j.worker # 0
      BY <2>2 DEF JobType, RowType
    <2>4. "turn" \in Places \ {"add"} /\ pc' = [pc EXCEPT ![q] = "turn"]
      BY <1>8 DEF Places, ReadForContinue, Goto
    <2>5. UNCHANGED <<rows, created, trees, turns, started, reason, lost, losses>>
      BY <1>8 DEF ReadForContinue
    <2>6. job' = [job EXCEPT ![q] = j]
      BY <2>1
    <2> HIDE DEF j
    <2> QED BY <2>3, <2>4, <2>5, <2>6, StepTypes
  <1> QED BY <1>1, <1>2, <1>3, <1>4, <1>5, <1>6, <1>7, <1>8 DEF Dispatch

\* The answer to an approval keeps the types.
LEMMA ApproveTypes ==
  ASSUME TypeInv, NEW q \in Requests, Approve(q)
  PROVE  TypeInv'
  <1> USE TableTypes
  <1>1. {"answer", "answered", "list", "keep_reason", "clear_reason"} \subseteq Places \ {"add"}
    BY DEF Places
  <1>2. CASE ReadForAnswer(q)
    <2>1. \E w \in 1..created : Read(q, w)
      BY <1>2 DEF ReadForAnswer
    <2> QED BY <1>1, <1>2, <2>1, ReadTypes DEF ReadForAnswer
  <1>3. CASE Answer(q)
    <2>1. /\ turns' \in [1..MaxTurns -> {"none", "running", "waiting", "completed", "failed"}]
          /\ pc[q] # "idle"
          /\ Return(q) \/ (Goto(q, "answered") /\ UNCHANGED job)
      BY <1>3 DEF Answer
    <2>2. UNCHANGED <<rows, created, trees, started, reason, lost, losses>>
      BY <1>3 DEF Answer
    <2> QED BY <1>1, <2>1, <2>2, GoOnTypes, ReturnTypes
  <1>4. CASE SaveAnswered(q)
    <2>1. [job[q].copy EXCEPT !.status = "executor_active"] \in RowType
      BY HeldTypes, StatusType DEF Statuses
    <2>2. rows' \in [1..MaxWorkers -> RowType]
      BY <1>4, <2>1, SaveTypes DEF SaveAnswered
    <2>3. /\ pc[q] # "idle"
          /\ Return(q) \/ (Goto(q, "list") /\ UNCHANGED job)
          /\ UNCHANGED <<created, trees, turns, started, reason, lost, losses>>
      BY <1>4 DEF SaveAnswered
    <2> QED BY <1>1, <2>2, <2>3, GoOnTypes, ReturnTypes
  <1>5. CASE ListForReason(q)
    <2>1. Goto(q, "keep_reason") \/ Goto(q, "clear_reason")
      BY <1>5 DEF ListForReason
    <2>2. pc[q] # "idle" /\ UNCHANGED <<rows, created, trees, turns, started, reason, job, lost, losses>>
      BY <1>5 DEF ListForReason
    <2> QED BY <1>1, <2>1, <2>2, GoOnTypes
  <1>6. CASE SaveReason(q)
    BY <1>6, ReturnTypes DEF SaveReason, KeepReason, ClearReason
  <1> QED BY <1>2, <1>3, <1>4, <1>5, <1>6 DEF Approve

\* Interrupt, steer and kill keep the types.
LEMMA ControlTypes ==
  ASSUME TypeInv, NEW q \in Requests, Interrupt(q) \/ Steer(q) \/ Kill(q)
  PROVE  TypeInv'
  <1> USE TableTypes
  <1>1. {"interrupt", "steer", "note"} \subseteq Places \ {"add"}
    BY DEF Places
  <1>2. CASE ReadForInterrupt(q) \/ ReadForSteer(q) \/ ReadForKill(q)
    <2>1. /\ \E w \in 1..created : Read(q, w)
          /\ Goto(q, "interrupt") \/ Goto(q, "steer") \/ Goto(q, "note")
          /\ UNCHANGED <<rows, created, trees, turns, started, reason, lost, losses>>
      BY <1>2 DEF ReadForInterrupt, ReadForSteer, ReadForKill
    <2> QED BY <1>1, <2>1, ReadTypes
  <1>3. CASE InterruptTurn(q) \/ SteerTurn(q)
    <2>1. /\ turns' \in [1..MaxTurns -> {"none", "running", "waiting", "completed", "failed"}]
          /\ pc[q] # "idle"
          /\ Return(q) \/ (Goto(q, "note") /\ UNCHANGED job)
          /\ UNCHANGED <<rows, created, trees, started, reason, lost, losses>>
      BY <1>3 DEF InterruptTurn, SteerTurn
    <2> QED BY <1>1, <2>1, GoOnTypes, ReturnTypes
  <1>4. CASE SaveControl(q)
    <2>1. rows' \in [1..MaxWorkers -> RowType]
      BY <1>4, HeldTypes, SaveTypes DEF SaveControl
    <2> QED BY <1>4, <2>1, ReturnTypes DEF SaveControl
  <1> QED BY <1>2, <1>3, <1>4 DEF Interrupt, Steer, Kill

\* remove keeps the types.
LEMMA RemoveTypes ==
  ASSUME TypeInv, NEW q \in Requests, Remove(q)
  PROVE  TypeInv'
  <1> USE TableTypes
  <1>1. {"remove", "delete"} \subseteq Places \ {"add"}
    BY DEF Places
  <1>2. CASE ReadForRemoval(q)
    <2>1. \E w \in 1..created : Read(q, w)
      BY <1>2 DEF ReadForRemoval
    <2> QED BY <1>1, <1>2, <2>1, ReadTypes DEF ReadForRemoval
  <1>3. CASE RemoveWorktree(q)
    <2>1. /\ trees' \subseteq Paths
          /\ pc[q] # "idle"
          /\ Return(q) \/ (Goto(q, "delete") /\ UNCHANGED job)
          /\ UNCHANGED <<rows, created, turns, started, reason, lost, losses>>
      BY <1>3 DEF RemoveWorktree
    <2> QED BY <1>1, <2>1, GoOnTypes, ReturnTypes
  <1>4. CASE DeleteRow(q)
    <2>1. rows' \in [1..MaxWorkers -> RowType]
      BY <1>4, EmptyRowType DEF DeleteRow
    <2> QED BY <1>4, <2>1, ReturnTypes DEF DeleteRow
  <1> QED BY <1>2, <1>3, <1>4 DEF Remove

\* So do a request that ends early and a turn that goes on.
LEMMA SurroundingTypes ==
  ASSUME TypeInv,
         \/ \E q \in Requests : Abandon(q)
         \/ \E t \in 1..MaxTurns : TurnAdvances(t)
         \/ UNCHANGED vars
  PROVE  TypeInv'
  <1> USE TableTypes
  <1>1. ASSUME NEW q \in Requests, Abandon(q) PROVE TypeInv'
    <2>1. losses \in Nat /\ losses' \in 0..MaxLosses
      BY <1>1, RegistryAssumption DEF Abandon
    <2>2. lost' \subseteq 1..created
      <3>1. job[q].worker \in 1..created
        BY <1>1, HeldTypes DEF Abandon, TypeInv
      <3> QED BY <1>1, <3>1 DEF Abandon
    <2> QED BY <1>1, <2>1, <2>2, ReturnTypes DEF Abandon
  <1>2. ASSUME NEW t \in 1..MaxTurns, TurnAdvances(t) PROVE TypeInv'
    <2>1. turns' \in [1..MaxTurns -> {"none", "running", "waiting", "completed", "failed"}]
      BY <1>2 DEF TurnAdvances
    <2> QED BY <1>2, <2>1 DEF TurnAdvances, TypeInv, TypeOK, RowType, JobType
  <1>3. CASE UNCHANGED vars
    BY <1>3 DEF vars, TypeInv, TypeOK, RowType, JobType
  <1> QED BY <1>1, <1>2, <1>3

\* The initial state has the types.
LEMMA InitTypes == Init => TypeInv
  <1> SUFFICES ASSUME Init PROVE TypeInv
    OBVIOUS
  <1>1. created = 0 /\ started = 0 /\ NoRow \in RowType
    BY DEF Init, NoRow, RowType, Statuses
  <1>2. NoJob = [worker |-> 0, copy |-> NoRow, turn |-> 0]
    BY DEF NoJob
  <1>3. NoJob \in JobType /\ NoJob.worker = 0
    BY <1>1, <1>2 DEF JobType
  <1>4. pc \in [Requests -> Places] /\ \A q \in Requests : pc[q] = "idle"
    BY DEF Init, Places
  <1>5. job \in [Requests -> JobType]
    BY <1>3 DEF Init
  <1>6. \A q \in Requests : /\ job[q].worker \in 0..created
                            /\ job[q].copy \in RowType /\ job[q].turn \in 0..started
    BY <1>5 DEF JobType
  <1>7. TypeOK
    <2>1. 0 \in 0..MaxWorkers /\ 0 \in 0..MaxTurns /\ 0 \in 0..MaxLosses
      BY RegistryAssumption
    <2>2. rows \in [1..MaxWorkers -> RowType]
      BY <1>1 DEF Init
    <2> QED BY <1>6, <2>1, <2>2 DEF Init, TypeOK
  <1> QED BY <1>4, <1>5, <1>7 DEF TypeInv

\* The type invariant and its strengthening hold throughout.
LEMMA TypeInvariant == Spec => []TypeInv
  <1>1. TypeInv /\ [Next]_vars => TypeInv'
    BY CreateTypes, DispatchTypes, ApproveTypes, ControlTypes, RemoveTypes,
       SurroundingTypes DEF Next
  <1> QED BY <1>1, InitTypes, PTL DEF Spec

\* The table, the worktrees and what requests hold keep their types, and no row
\* names a turn that was never started.
THEOREM TypeCorrect == Spec => []TypeOK
  <1>1. TypeInv => TypeOK
    BY DEF TypeInv
  <1> QED BY <1>1, TypeInvariant, PTL

-----------------------------------------------------------------------------
(* Worktrees.                                                              *)

Creating == {"add", "undo", "created"}

\* A path belongs to one row, and rows not inserted yet are empty.
OnePathEach ==
  /\ \A v, w \in 1..MaxWorkers :
       Found(v) /\ Found(w) /\ rows[v].path = rows[w].path => v = w
  /\ \A w \in 1..MaxWorkers : w > created => ~Found(w)

\* A copy has the path of its row, if the row is still there, and what may be
\* written back neither deletes a row nor makes it one that is being created.
CopiesAgree ==
  \A q \in Requests : pc[q] # "idle" =>
    /\ Found(job[q].worker) => job[q].copy.path = rows[job[q].worker].path
    /\ job[q].copy.status # "none"
    /\ pc[q] \notin Creating => job[q].copy.status # "creating"

\* Nobody else holds a worker that is being created; it has no turn yet.
CreatorsAlone ==
  /\ \A w \in 1..MaxWorkers : rows[w].status = "creating" => rows[w].turn = 0
  /\ \A q \in Requests : pc[q] \in Creating =>
       /\ rows[job[q].worker].status = "creating"
       /\ \A r \in Requests : r # q /\ pc[r] # "idle" => job[r].worker # job[q].worker

\* There is nothing at the path of a row that is about to be deleted.
NothingLeft ==
  \A q \in Requests :
    /\ pc[q] \in {"add", "undo"} => job[q].copy.path \notin trees
    /\ pc[q] = "delete" /\ Found(job[q].worker) => job[q].copy.path \notin trees

WorktreeInv ==
  OnePathEach /\ CopiesAgree /\ CreatorsAlone /\ NothingLeft /\ NoOrphanWorktree

\* What most steps of a request amount to: no worktree is made or removed, no row
\* comes or goes or changes its path, and the request returns or goes on with a
\* worker that is not being created.
QuietStep(q) ==
  /\ UNCHANGED <<created, trees>>
  /\ \A r \in Requests \ {q} : pc'[r] = pc[r] /\ job'[r] = job[r]
  /\ \A w \in 1..MaxWorkers :
       \/ rows'[w] = rows[w]
       \/ /\ pc[q] # "idle" /\ w = job[q].worker /\ Found(w)
          /\ rows'[w].status \notin {"none", "creating"}
          /\ rows'[w].path = rows[w].path
  /\ \/ pc'[q] = "idle"
     \/ /\ pc'[q] \notin Creating \union {"delete"}
        /\ Found(job'[q].worker) => job'[q].copy.path = rows[job'[q].worker].path
        /\ job'[q].copy.status \notin {"none", "creating"}
        /\ \/ rows[job'[q].worker].status # "creating"
           \/ pc[q] \notin Creating \union {"idle"} /\ job'[q].worker = job[q].worker

\* Whoever is under way holds a worker of the table.
LEMMA HeldWorker ==
  ASSUME TypeInv, NEW q \in Requests, pc[q] # "idle"
  PROVE  job[q].worker \in 1..MaxWorkers
  BY HeldTypes, TableTypes, RegistryAssumption DEF TypeInv

LEMMA QuietKeepsWorktrees ==
  ASSUME TypeInv, TypeInv', WorktreeInv, NEW q \in Requests, QuietStep(q)
  PROVE  WorktreeInv'
  <1>1. \A w \in 1..MaxWorkers : /\ (rows'[w].status # "none") <=> Found(w)
                                 /\ rows'[w].path = rows[w].path
    BY DEF QuietStep, Found
  <1>2. \A r \in Requests : /\ pc[r] # "idle" => job[r].worker \in 1..MaxWorkers
                            /\ pc'[r] # "idle" => job'[r].worker \in 1..MaxWorkers
    <2>1. \A r \in Requests : pc'[r] # "idle" => job'[r].worker \in 1..MaxWorkers
      <3>1. \A r \in Requests : job'[r].worker \in 0..created'
        BY DEF TypeInv, TypeOK
      <3>2. created' \in 0..MaxWorkers
        BY DEF TypeInv, TypeOK
      <3>3. \A r \in Requests : pc'[r] # "idle" => job'[r].worker # 0
        BY DEF TypeInv
      <3> QED BY <3>1, <3>2, <3>3, RegistryAssumption
    <2> QED BY <2>1, HeldWorker
  <1>3. OnePathEach'
    BY <1>1 DEF WorktreeInv, OnePathEach, QuietStep, Found
  <1>4. CopiesAgree'
    <2> SUFFICES ASSUME NEW r \in Requests, pc'[r] # "idle"
                 PROVE  /\ rows'[job'[r].worker].status # "none"
                             => job'[r].copy.path = rows'[job'[r].worker].path
                        /\ job'[r].copy.status # "none"
                        /\ pc'[r] \notin Creating => job'[r].copy.status # "creating"
      BY DEF CopiesAgree, Found
    <2>1. CASE r = q
      BY <1>1, <1>2, <2>1 DEF QuietStep, Found
    <2>2. CASE r # q
      <3>1. pc'[r] = pc[r] /\ job'[r] = job[r]
        BY <2>2 DEF QuietStep
      <3> QED BY <1>1, <1>2, <3>1 DEF WorktreeInv, CopiesAgree, Found
    <2> QED BY <2>1, <2>2
  <1>5. CreatorsAlone'
    <2>1. \A w \in 1..MaxWorkers : rows'[w].status = "creating" => rows'[w].turn = 0
      BY DEF WorktreeInv, CreatorsAlone, QuietStep
    <2>2. ASSUME NEW c \in Requests, pc'[c] \in Creating
          PROVE  /\ rows'[job'[c].worker].status = "creating"
                 /\ \A r \in Requests : r # c /\ pc'[r] # "idle"
                                          => job'[r].worker # job'[c].worker
      <3>1. c # q /\ pc'[c] = pc[c] /\ job'[c] = job[c]
        BY <2>2 DEF QuietStep, Creating
      <3>2. /\ rows[job[c].worker].status = "creating"
            /\ \A r \in Requests : r # c /\ pc[r] # "idle" => job[r].worker # job[c].worker
            /\ job[c].worker \in 1..MaxWorkers
        BY <1>2, <2>2, <3>1 DEF WorktreeInv, CreatorsAlone, Creating
      <3>3. rows'[job[c].worker].status = "creating"
        BY <3>1, <3>2 DEF QuietStep
      <3>4. ASSUME NEW r \in Requests, r # c, pc'[r] # "idle"
            PROVE  job'[r].worker # job[c].worker
        BY <3>1, <3>2, <3>4 DEF QuietStep
      <3> QED BY <3>1, <3>3, <3>4
    <2> QED BY <2>1, <2>2 DEF CreatorsAlone
  <1>6. NothingLeft'
    <2> SUFFICES ASSUME NEW r \in Requests
                 PROVE  /\ pc'[r] \in {"add", "undo"} => job'[r].copy.path \notin trees
                        /\ pc'[r] = "delete" /\ rows'[job'[r].worker].status # "none"
                             => job'[r].copy.path \notin trees
      BY DEF NothingLeft, Found, QuietStep
    <2>1. CASE r = q
      BY <2>1 DEF QuietStep, Creating
    <2>2. CASE r # q
      <3>1. pc'[r] = pc[r] /\ job'[r] = job[r]
        BY <2>2 DEF QuietStep
      <3> QED BY <1>1, <1>2, <3>1 DEF WorktreeInv, NothingLeft, Found
    <2> QED BY <2>1, <2>2
  <1>7. NoOrphanWorktree'
    <2>1. 1..created \subseteq 1..MaxWorkers /\ created' = created /\ trees' = trees
      BY TableTypes, RegistryAssumption DEF QuietStep
    <2> QED BY <1>1, <2>1 DEF WorktreeInv, NoOrphanWorktree, Found
  <1> QED BY <1>3, <1>4, <1>5, <1>6, <1>7 DEF WorktreeInv

\* A request that reads a row which is not being created.
LEMMA ReadIsQuiet ==
  ASSUME TypeInv, NEW q \in Requests, NEW place, place \notin Creating \union {"delete"},
         \E w \in 1..created : Read(q, w) /\ rows[w].status # "creating",
         Goto(q, place), UNCHANGED <<rows, created, trees>>
  PROVE  QuietStep(q)
  <1>1. PICK w \in 1..created : Read(q, w) /\ rows[w].status # "creating"
    OBVIOUS
  <1> DEFINE j == [worker |-> w, copy |-> rows[w], turn |-> 0]
  <1>2. job' = [job EXCEPT ![q] = j]
    BY <1>1, NewJob DEF Read
  <1> HIDE DEF j
  <1>3. job'[q] = j /\ \A r \in Requests \ {q} : job'[r] = job[r]
    BY <1>2 DEF TypeInv
  <1>4. j.worker = w /\ j.copy = rows[w]
    BY DEF j
  <1>5. pc'[q] = place /\ \A r \in Requests \ {q} : pc'[r] = pc[r]
    BY DEF Goto, TypeInv
  <1>6. rows[w].status # "none"
    BY <1>1 DEF Read, Found
  <1> QED BY <1>1, <1>3, <1>4, <1>5, <1>6 DEF QuietStep

\* A request that returns or goes on with what it has, with its row as it was or
\* saved under another status.
LEMMA SaveIsQuiet ==
  ASSUME TypeInv, WorktreeInv, NEW q \in Requests, pc[q] # "idle",
         NEW place, place \notin Creating \union {"delete"},
         \/ UNCHANGED rows
         \/ \E row \in RowType : /\ Save(q, row) /\ row.path = job[q].copy.path
                                 /\ row.status \notin {"none", "creating"},
         \/ Return(q)
         \/ pc[q] \notin Creating /\ Goto(q, place) /\ UNCHANGED job,
         UNCHANGED <<created, trees>>
  PROVE  QuietStep(q)
  <1>1. job[q].worker \in 1..MaxWorkers
    BY HeldWorker
  <1>2. \A w \in 1..MaxWorkers :
          \/ rows'[w] = rows[w]
          \/ /\ w = job[q].worker /\ Found(w)
             /\ rows'[w].status \notin {"none", "creating"}
             /\ rows'[w].path = rows[w].path
    <2>1. ASSUME NEW row \in RowType, Save(q, row), row.path = job[q].copy.path,
                 row.status \notin {"none", "creating"}
          PROVE  \A w \in 1..MaxWorkers :
                   \/ rows'[w] = rows[w]
                   \/ /\ w = job[q].worker /\ Found(w)
                      /\ rows'[w].status \notin {"none", "creating"}
                      /\ rows'[w].path = rows[w].path
      <3>1. Found(job[q].worker) => job[q].copy.path = rows[job[q].worker].path
        BY DEF WorktreeInv, CopiesAgree
      <3> QED BY <1>1, <2>1, <3>1, TableTypes DEF Save
    <2> QED BY <2>1
  <1>3. /\ \A r \in Requests \ {q} : pc'[r] = pc[r] /\ job'[r] = job[r]
        /\ \/ pc'[q] = "idle"
           \/ pc[q] \notin Creating /\ pc'[q] = place /\ job'[q] = job[q]
    BY DEF Return, Goto, TypeInv
  <1>4. /\ Found(job[q].worker) => job[q].copy.path = rows[job[q].worker].path
        /\ pc[q] \notin Creating => job[q].copy.status \notin {"none", "creating"}
    BY DEF WorktreeInv, CopiesAgree
  <1> QED BY <1>2, <1>3, <1>4 DEF QuietStep

\* The copy with another status, as it is saved.
LEMMA StatusSaved ==
  ASSUME TypeInv, NEW q \in Requests, NEW s \in Statuses
  PROVE  /\ [job[q].copy EXCEPT !.status = s] \in RowType
         /\ [job[q].copy EXCEPT !.status = s].path = job[q].copy.path
         /\ [job[q].copy EXCEPT !.status = s].status = s
  <1>1. job[q].copy \in RowType
    BY HeldTypes
  <1>2. \A r \in RowType : /\ [r EXCEPT !.status = s] \in RowType
                           /\ [r EXCEPT !.status = s].path = r.path
                           /\ [r EXCEPT !.status = s].status = s
    BY DEF RowType
  <1> QED BY <1>1, <1>2

\* The steps of dispatch and of a continuation are quiet.
LEMMA DispatchIsQuiet ==
  ASSUME TypeInv, WorktreeInv, NEW q \in Requests, Dispatch(q) \/ ReadForContinue(q)
  PROVE  QuietStep(q)
  <1>1. {"activate", "start", "turn", "save"} \intersect (Creating \union {"delete"}) = {}
    BY DEF Creating
  <1>2. CASE ReadForDispatch(q)
    <2>1. \E w \in 1..created : Read(q, w) /\ rows[w].status # "creating"
      BY <1>2 DEF ReadForDispatch, Active
    <2> QED BY <1>1, <1>2, <2>1, ReadIsQuiet DEF ReadForDispatch
  <1>3. CASE Activate(q)
    <2> DEFINE row == [job[q].copy EXCEPT !.status = "executor_active"]
    <2>1. row \in RowType /\ row.path = job[q].copy.path /\ row.status = "executor_active"
      BY StatusSaved DEF Statuses
    <2>2. /\ pc[q] \notin Creating \union {"idle"} /\ Save(q, row)
          /\ UNCHANGED <<created, trees>>
      BY <1>3 DEF Activate, Creating
    <2>3. Return(q) \/ (Goto(q, "start") /\ UNCHANGED job)
      BY <1>3 DEF Activate
    <2> HIDE DEF row
    <2> QED BY <1>1, <2>1, <2>2, <2>3, SaveIsQuiet
  <1>4. CASE ClientUnavailable(q)
    BY <1>1, <1>4, SaveIsQuiet DEF ClientUnavailable
  <1>5. CASE StartTurn(q) \/ StartFails(q) \/ TurnReturns(q)
    <2>1. /\ pc[q] \notin Creating \union {"idle"}
          /\ pc'[q] \notin Creating \union {"delete"}
          /\ \A r \in Requests \ {q} : pc'[r] = pc[r]
          /\ UNCHANGED <<rows, created, trees>>
      BY <1>1, <1>5 DEF StartTurn, StartFails, TurnReturns, Goto, TypeInv, Creating
    <2>2. /\ \A r \in Requests \ {q} : job'[r] = job[r]
          /\ job'[q].worker = job[q].worker /\ job'[q].copy.path = job[q].copy.path
          /\ job'[q].copy.status \in {job[q].copy.status, "failed", "completed",
                                      "approval_required"}
      <3>1. CASE StartTurn(q)
        BY <3>1, HeldTypes DEF StartTurn, TypeInv, JobType, RowType
      <3>2. CASE StartFails(q)
        BY <3>2, HeldTypes DEF StartFails, TypeInv, JobType, RowType
      <3>3. CASE TurnReturns(q)
        <4>1. PICK outcome \in {"approval_required", "completed", "failed"} :
                job' = [job EXCEPT ![q].copy.status = outcome,
                                   ![q].copy.turn = job[q].turn, ![q].turn = 0]
          BY <3>3 DEF TurnReturns
        <4> QED BY <4>1, HeldTypes DEF TypeInv, JobType, RowType
      <3> QED BY <1>5, <3>1, <3>2, <3>3
    <2>3. /\ Found(job[q].worker) => job[q].copy.path = rows[job[q].worker].path
          /\ job[q].copy.status \notin {"none", "creating"}
      BY <2>1 DEF WorktreeInv, CopiesAgree
    <2> QED BY <2>1, <2>2, <2>3 DEF QuietStep
  <1>6. CASE SaveResult(q)
    <2>1. /\ job[q].copy \in RowType /\ job[q].copy.status \notin {"none", "creating"}
          /\ pc[q] # "idle"
      BY <1>6, HeldTypes DEF SaveResult, WorktreeInv, CopiesAgree, Creating
    <2> QED BY <1>1, <1>6, <2>1, SaveIsQuiet DEF SaveResult
  <1>7. CASE ReadForContinue(q)
    <2>1. PICK w \in 1..created :
            /\ Continuable(rows[w])
            /\ job' = [job EXCEPT ![q] = [worker |-> w, copy |-> rows[w],
                                          turn |-> rows[w].turn]]
      BY <1>7 DEF ReadForContinue
    <2> DEFINE j == [worker |-> w, copy |-> rows[w], turn |-> rows[w].turn]
    <2>2. job'[q] = j /\ \A r \in Requests \ {q} : job'[r] = job[r]
      BY <2>1 DEF TypeInv
    <2>3. j.worker = w /\ j.copy = rows[w]
      OBVIOUS
    <2> HIDE DEF j
    <2>4. rows[w].status \notin {"none", "creating"}
      BY <2>1 DEF Continuable
    <2>5. /\ pc'[q] = "turn" /\ \A r \in Requests \ {q} : pc'[r] = pc[r]
          /\ UNCHANGED <<rows, created, trees>>
      BY <1>7 DEF ReadForContinue, Goto, TypeInv
    <2> QED BY <1>1, <2>2, <2>3, <2>4, <2>5 DEF QuietStep
  <1> QED BY <1>2, <1>3, <1>4, <1>5, <1>6, <1>7 DEF Dispatch

\* So are those of an answer to an approval.
LEMMA ApproveIsQuiet ==
  ASSUME TypeInv, WorktreeInv, NEW q \in Requests, Approve(q)
  PROVE  QuietStep(q)
  <1>1. {"answer", "answered", "list", "keep_reason", "clear_reason"}
          \intersect (Creating \union {"delete"}) = {}
    BY DEF Creating
  <1>2. CASE ReadForAnswer(q)
    <2>1. \E w \in 1..created : Read(q, w) /\ rows[w].status # "creating"
      BY <1>2 DEF ReadForAnswer
    <2> QED BY <1>1, <1>2, <2>1, ReadIsQuiet DEF ReadForAnswer
  <1>3. CASE Answer(q) \/ ListForReason(q) \/ SaveReason(q)
    <2>1. /\ pc[q] \notin Creating \union {"idle"} /\ UNCHANGED <<rows, created, trees>>
          /\ \/ Return(q)
             \/ \E place \in {"answered", "keep_reason", "clear_reason"} :
                  Goto(q, place) /\ UNCHANGED job
      BY <1>3 DEF Answer, ListForReason, SaveReason, KeepReason, ClearReason, Creating
    <2> QED BY <1>1, <2>1, SaveIsQuiet
  <1>4. CASE SaveAnswered(q)
    <2> DEFINE row == [job[q].copy EXCEPT !.status = "executor_active"]
    <2>1. row \in RowType /\ row.path = job[q].copy.path /\ row.status = "executor_active"
      BY StatusSaved DEF Statuses
    <2>2. /\ pc[q] \notin Creating \union {"idle"} /\ Save(q, row)
          /\ UNCHANGED <<created, trees>>
          /\ Return(q) \/ (Goto(q, "list") /\ UNCHANGED job)
      BY <1>4 DEF SaveAnswered, Creating
    <2> HIDE DEF row
    <2> QED BY <1>1, <2>1, <2>2, SaveIsQuiet
  <1> QED BY <1>2, <1>3, <1>4 DEF Approve

\* And of interrupt, steer and kill: a worker that is being created has no turn.
LEMMA ControlIsQuiet ==
  ASSUME TypeInv, WorktreeInv, NEW q \in Requests, Interrupt(q) \/ Steer(q) \/ Kill(q)
  PROVE  QuietStep(q)
  <1>1. {"interrupt", "steer", "note"} \intersect (Creating \union {"delete"}) = {}
    BY DEF Creating
  <1>2. CASE ReadForInterrupt(q) \/ ReadForSteer(q) \/ ReadForKill(q)
    <2>1. PICK w \in 1..created : Read(q, w) /\ (Controllable(rows[w]) \/ rows[w].turn # 0)
      BY <1>2 DEF ReadForInterrupt, ReadForSteer, ReadForKill
    <2>2. w \in 1..MaxWorkers
      BY TableTypes, RegistryAssumption
    <2>3. rows[w].status # "creating"
      BY <2>1, <2>2 DEF Controllable, WorktreeInv, CreatorsAlone
    <2>4. /\ \E place \in {"interrupt", "steer", "note"} : Goto(q, place)
          /\ UNCHANGED <<rows, created, trees>>
      BY <1>2 DEF ReadForInterrupt, ReadForSteer, ReadForKill
    <2> QED BY <1>1, <2>1, <2>3, <2>4, ReadIsQuiet
  <1>3. CASE InterruptTurn(q) \/ SteerTurn(q)
    <2>1. /\ pc[q] \notin Creating \union {"idle"} /\ UNCHANGED <<rows, created, trees>>
          /\ Return(q) \/ (Goto(q, "note") /\ UNCHANGED job)
      BY <1>3 DEF InterruptTurn, SteerTurn, Creating
    <2> QED BY <1>1, <2>1, SaveIsQuiet
  <1>4. CASE SaveControl(q)
    <2>1. /\ job[q].copy \in RowType /\ job[q].copy.status \notin {"none", "creating"}
          /\ pc[q] # "idle"
      BY <1>4, HeldTypes DEF SaveControl, WorktreeInv, CopiesAgree, Creating
    <2> QED BY <1>1, <1>4, <2>1, SaveIsQuiet DEF SaveControl
  <1> QED BY <1>2, <1>3, <1>4 DEF Interrupt, Steer, Kill

\* A row is deleted after its worktree; no other row loses its own.
LEMMA DeletionKeepsWorktrees ==
  ASSUME TypeInv, TypeInv', WorktreeInv, NEW q \in Requests,
         pc[q] # "idle", Return(q), UNCHANGED <<created, trees>>,
         pc[q] \notin {"add", "undo"} \/ job[q].copy.path \notin trees,
         pc[q] \in {"undo", "delete"},
         rows' = [rows EXCEPT ![job[q].worker] = NoRow]
  PROVE  WorktreeInv'
  <1> DEFINE w0 == job[q].worker
  <1>1. w0 \in 1..MaxWorkers
    BY HeldWorker
  <1>2. /\ rows'[w0].status = "none"
        /\ \A w \in 1..MaxWorkers : w # w0 => rows'[w] = rows[w]
    BY <1>1, TableTypes DEF NoRow
  <1>3. /\ pc'[q] = "idle"
        /\ \A r \in Requests \ {q} : pc'[r] = pc[r] /\ job'[r] = job[r]
    BY DEF Return, Goto, TypeInv
  <1>4. \A r \in Requests : pc[r] # "idle" => job[r].worker \in 1..MaxWorkers
    BY HeldWorker
  <1>5. Found(w0) => rows[w0].path \notin trees
    BY DEF WorktreeInv, NothingLeft, CopiesAgree
  <1> HIDE DEF w0
  <1>6. OnePathEach'
    BY <1>1, <1>2 DEF WorktreeInv, OnePathEach, Found
  <1>7. CopiesAgree'
    BY <1>2, <1>3, <1>4 DEF WorktreeInv, CopiesAgree, Found
  <1>8. CreatorsAlone'
    <2>1. \A w \in 1..MaxWorkers : rows'[w].status = "creating" => rows'[w].turn = 0
      BY <1>2 DEF WorktreeInv, CreatorsAlone
    <2>2. ASSUME NEW c \in Requests, pc'[c] \in Creating
          PROVE  /\ rows'[job'[c].worker].status = "creating"
                 /\ \A r \in Requests : r # c /\ pc'[r] # "idle"
                                          => job'[r].worker # job'[c].worker
      <3>1. c # q /\ pc[c] \in Creating /\ job'[c] = job[c] /\ pc[c] # "idle"
        BY <1>3, <2>2 DEF Creating
      <3>2. /\ rows[job[c].worker].status = "creating"
            /\ \A r \in Requests : r # c /\ pc[r] # "idle" => job[r].worker # job[c].worker
        BY <3>1 DEF WorktreeInv, CreatorsAlone
      <3>3. job[c].worker # w0
        BY <3>1, <3>2 DEF w0
      <3> QED BY <1>2, <1>3, <1>4, <3>1, <3>2, <3>3
    <2> QED BY <2>1, <2>2 DEF CreatorsAlone
  <1>9. NothingLeft'
    BY <1>2, <1>3, <1>4 DEF WorktreeInv, NothingLeft, Found
  <1>10. NoOrphanWorktree'
    <2>1. ASSUME NEW x \in trees
          PROVE  \E w \in 1..created : rows'[w].status # "none" /\ rows'[w].path = x
      <3>1. PICK w \in 1..created : rows[w].status # "none" /\ rows[w].path = x
        BY DEF WorktreeInv, NoOrphanWorktree
      <3>2. w \in 1..MaxWorkers /\ w # w0
        BY <1>5, <3>1, TableTypes, RegistryAssumption DEF Found
      <3> QED BY <1>2, <3>1, <3>2
    <2> QED BY <2>1 DEF NoOrphanWorktree
  <1> QED BY <1>6, <1>7, <1>8, <1>9, <1>10 DEF WorktreeInv

\* create keeps the invariant: a new row takes a path no row has, so no worktree.
LEMMA CreateKeepsWorktrees ==
  ASSUME TypeInv, TypeInv', WorktreeInv, NEW q \in Requests, Create(q)
  PROVE  WorktreeInv'
  <1>1. CASE InsertRow(q)
    <2>1. PICK p \in Paths :
            LET row == [NoRow EXCEPT !.status = "creating", !.path = p] IN
              /\ \A w \in 1..MaxWorkers : rows[w].path # p
              /\ rows' = [rows EXCEPT ![created + 1] = row]
              /\ job' = [job EXCEPT ![q] = [NoJob EXCEPT !.worker = created + 1, !.copy = row]]
      BY <1>1 DEF InsertRow
    <2> DEFINE row == [status |-> "creating", path |-> p, turn |-> 0]
    <2> DEFINE j == [worker |-> created + 1, copy |-> row, turn |-> 0]
    <2> DEFINE new == created + 1
    <2>2. /\ \A w \in 1..MaxWorkers : rows[w].path # p
          /\ rows' = [rows EXCEPT ![new] = row] /\ job' = [job EXCEPT ![q] = j]
      <3>1. [NoRow EXCEPT !.status = "creating", !.path = p] = row
        BY NewRow
      <3>2. [NoJob EXCEPT !.worker = created + 1, !.copy = row] = j
        BY NewJob
      <3> QED BY <2>1, <3>1, <3>2
    <2>3. /\ pc[q] = "idle" /\ created' = new /\ trees' = trees
          /\ pc' = [pc EXCEPT ![q] = "add"]
          /\ created \in Nat /\ new \in 1..MaxWorkers
      BY <1>1, TableTypes, RegistryAssumption DEF InsertRow, Goto
    <2>4. /\ row.status = "creating" /\ row.path = p /\ row.turn = 0
          /\ j.worker = new /\ j.copy = row
      OBVIOUS
    <2> HIDE DEF row, j
    <2>5. /\ rows'[new] = row
          /\ \A w \in 1..MaxWorkers : w # new => rows'[w] = rows[w]
      BY <2>2, <2>3, TableTypes
    <2>6. /\ pc'[q] = "add" /\ job'[q] = j
          /\ \A r \in Requests \ {q} : pc'[r] = pc[r] /\ job'[r] = job[r]
      BY <2>2, <2>3 DEF TypeInv
    <2>7. \A r \in Requests : pc[r] # "idle" => /\ job[r].worker \in 1..MaxWorkers
                                                /\ job[r].worker # new
      BY <2>3, HeldWorker, HeldTypes
    <2>8. p \notin trees
      <3>1. \A w \in 1..created : w \in 1..MaxWorkers
        BY <2>3, RegistryAssumption
      <3> QED BY <2>2, <3>1 DEF WorktreeInv, NoOrphanWorktree
    <2>9. OnePathEach'
      <3>1. \A w \in 1..MaxWorkers : w > created' => rows'[w].status = "none"
        BY <2>3, <2>5 DEF WorktreeInv, OnePathEach, Found
      <3>2. ASSUME NEW v \in 1..MaxWorkers, NEW w \in 1..MaxWorkers,
                   rows'[v].status # "none", rows'[w].status # "none",
                   rows'[v].path = rows'[w].path
            PROVE  v = w
        BY <2>2, <2>4, <2>5, <3>2 DEF WorktreeInv, OnePathEach, Found
      <3> QED BY <3>1, <3>2 DEF OnePathEach, Found
    <2>10. CopiesAgree'
      BY <2>4, <2>5, <2>6, <2>7 DEF WorktreeInv, CopiesAgree, Found, Creating
    <2>11. CreatorsAlone'
      <3>1. \A w \in 1..MaxWorkers : rows'[w].status = "creating" => rows'[w].turn = 0
        BY <2>4, <2>5 DEF WorktreeInv, CreatorsAlone
      <3>2. ASSUME NEW c \in Requests, pc'[c] \in Creating
            PROVE  /\ rows'[job'[c].worker].status = "creating"
                   /\ \A r \in Requests : r # c /\ pc'[r] # "idle"
                                            => job'[r].worker # job'[c].worker
        <4>1. CASE c = q
          BY <2>4, <2>5, <2>6, <2>7, <4>1
        <4>2. CASE c # q
          BY <2>4, <2>5, <2>6, <2>7, <3>2, <4>2 DEF WorktreeInv, CreatorsAlone, Creating
        <4> QED BY <4>1, <4>2
      <3> QED BY <3>1, <3>2 DEF CreatorsAlone
    <2>12. NothingLeft'
      BY <2>3, <2>4, <2>5, <2>6, <2>7, <2>8 DEF WorktreeInv, NothingLeft, Found
    <2>13. NoOrphanWorktree'
      <3>1. ASSUME NEW x \in trees
            PROVE  \E w \in 1..created' : rows'[w].status # "none" /\ rows'[w].path = x
        <4>1. PICK w \in 1..created : rows[w].status # "none" /\ rows[w].path = x
          BY DEF WorktreeInv, NoOrphanWorktree
        <4>2. w \in 1..created' /\ w \in 1..MaxWorkers /\ w # new
          BY <2>3, RegistryAssumption
        <4> QED BY <2>5, <4>1, <4>2
      <3> QED BY <2>3, <3>1 DEF NoOrphanWorktree
    <2> QED BY <2>9, <2>10, <2>11, <2>12, <2>13 DEF WorktreeInv
  <1>2. CASE AddWorktree(q)
    <2> DEFINE p == job[q].copy.path
    <2>1. /\ pc[q] = "add" /\ UNCHANGED <<rows, created, job>>
          /\ \A r \in Requests \ {q} : pc'[r] = pc[r]
          /\ \/ pc'[q] = "created" /\ trees' = trees \union {p}
             \/ pc'[q] = "undo" /\ trees' = trees
      BY <1>2 DEF AddWorktree, Goto, TypeInv
    <2>2. /\ job[q].worker \in 1..MaxWorkers
          /\ rows[job[q].worker].status = "creating" /\ rows[job[q].worker].path = p
          /\ \A r \in Requests : r # q /\ pc[r] # "idle" => job[r].worker # job[q].worker
      BY <2>1, HeldWorker DEF WorktreeInv, CreatorsAlone, CopiesAgree, Creating, Found
    <2>3. OnePathEach'
      BY <2>1 DEF WorktreeInv, OnePathEach, Found
    <2>4. CopiesAgree' /\ CreatorsAlone'
      BY <2>1 DEF WorktreeInv, CopiesAgree, CreatorsAlone, Creating, Found
    <2>5. NothingLeft'
      <3> SUFFICES ASSUME NEW r \in Requests
                   PROVE  /\ pc'[r] \in {"add", "undo"} => job[r].copy.path \notin trees'
                          /\ pc'[r] = "delete" /\ Found(job[r].worker)
                               => job[r].copy.path \notin trees'
        BY <2>1 DEF NothingLeft, Found
      <3>1. CASE r = q
        BY <2>1, <3>1 DEF WorktreeInv, NothingLeft
      <3>2. ASSUME r # q, pc[r] \in {"add", "undo"} \/ (pc[r] = "delete" /\ Found(job[r].worker))
            PROVE  job[r].copy.path # p
        <4>1. /\ job[r].worker \in 1..MaxWorkers /\ Found(job[r].worker)
              /\ job[r].copy.path = rows[job[r].worker].path
          BY <3>2, HeldWorker DEF WorktreeInv, CopiesAgree, CreatorsAlone, Creating, Found
        <4>2. job[r].worker # job[q].worker
          BY <2>2, <3>2
        <4> QED BY <2>2, <4>1, <4>2 DEF WorktreeInv, OnePathEach, Found
      <3> QED BY <2>1, <3>1, <3>2 DEF WorktreeInv, NothingLeft
    <2>6. NoOrphanWorktree'
      <3>1. job[q].worker \in 1..created
        BY <2>1, HeldTypes DEF TypeInv
      <3> QED BY <2>1, <2>2, <3>1 DEF WorktreeInv, NoOrphanWorktree
    <2> QED BY <2>3, <2>4, <2>5, <2>6 DEF WorktreeInv
  <1>3. CASE UndoRow(q)
    <2>1. pc[q] = "undo" /\ Return(q) /\ UNCHANGED <<created, trees>>
          /\ rows' = [rows EXCEPT ![job[q].worker] = NoRow]
      BY <1>3 DEF UndoRow
    <2>2. job[q].copy.path \notin trees
      BY <2>1 DEF WorktreeInv, NothingLeft
    <2> QED BY <2>1, <2>2, DeletionKeepsWorktrees
  <1>4. CASE SaveCreated(q)
    <2> DEFINE row == [job[q].copy EXCEPT !.status = "idle"]
    <2>1. row \in RowType /\ row.path = job[q].copy.path /\ row.status = "idle"
      BY StatusSaved DEF Statuses
    <2>2. /\ pc[q] # "idle" /\ Save(q, row) /\ Return(q) /\ UNCHANGED <<created, trees>>
          /\ "idle" \notin Creating \union {"delete"}
      BY <1>4 DEF SaveCreated, Creating
    <2> HIDE DEF row
    <2>3. QuietStep(q)
      BY <2>1, <2>2, SaveIsQuiet
    <2> QED BY <2>3, QuietKeepsWorktrees
  <1> QED BY <1>1, <1>2, <1>3, <1>4 DEF Create

\* remove keeps the invariant: the worktree goes before the row.
LEMMA RemoveKeepsWorktrees ==
  ASSUME TypeInv, TypeInv', WorktreeInv, NEW q \in Requests, Remove(q)
  PROVE  WorktreeInv'
  <1>1. CASE ReadForRemoval(q)
    <2>1. \E w \in 1..created : Read(q, w) /\ rows[w].status # "creating"
      BY <1>1 DEF ReadForRemoval, Active
    <2>2. "remove" \notin Creating \union {"delete"}
      BY DEF Creating
    <2> QED BY <1>1, <2>1, <2>2, ReadIsQuiet, QuietKeepsWorktrees DEF ReadForRemoval
  <1>2. CASE RemoveWorktree(q)
    <2>1. CASE Return(q) /\ UNCHANGED trees
      <3>1. pc[q] # "idle" /\ UNCHANGED <<rows, created, trees>>
        BY <1>2, <2>1 DEF RemoveWorktree
      <3>2. "idle" \notin Creating \union {"delete"}
        BY DEF Creating
      <3> QED BY <2>1, <3>1, <3>2, SaveIsQuiet, QuietKeepsWorktrees
    <2>2. CASE Goto(q, "delete") /\ UNCHANGED job /\ trees' = trees \ {job[q].copy.path}
      <3>1. /\ pc[q] = "remove" /\ pc'[q] = "delete" /\ UNCHANGED <<rows, created, job>>
            /\ \A r \in Requests \ {q} : pc'[r] = pc[r]
            /\ trees' = trees \ {job[q].copy.path}
        BY <1>2, <2>2 DEF RemoveWorktree, Goto, TypeInv
      <3>2. OnePathEach'
        BY <3>1 DEF WorktreeInv, OnePathEach, Found
      <3>3. CopiesAgree'
        BY <3>1 DEF WorktreeInv, CopiesAgree, Creating, Found
      <3>4. CreatorsAlone'
        BY <3>1 DEF WorktreeInv, CreatorsAlone, Creating
      <3>5. NothingLeft'
        BY <3>1 DEF WorktreeInv, NothingLeft, Found
      <3>6. NoOrphanWorktree'
        BY <3>1 DEF WorktreeInv, NoOrphanWorktree
      <3> QED BY <3>2, <3>3, <3>4, <3>5, <3>6 DEF WorktreeInv
    <2> QED BY <1>2, <2>1, <2>2 DEF RemoveWorktree
  <1>3. CASE DeleteRow(q)
    <2>1. pc[q] = "delete" /\ Return(q) /\ UNCHANGED <<created, trees>>
          /\ rows' = [rows EXCEPT ![job[q].worker] = NoRow]
      BY <1>3 DEF DeleteRow
    <2> QED BY <2>1, DeletionKeepsWorktrees
  <1> QED BY <1>1, <1>2, <1>3 DEF Remove

\* The invariant of the worktrees holds throughout.
LEMMA WorktreeInvariant == Spec => []WorktreeInv
  <1>1. Init => WorktreeInv
    BY RegistryAssumption DEF Init, NoRow, WorktreeInv, OnePathEach, CopiesAgree,
       CreatorsAlone, Creating, NothingLeft, NoOrphanWorktree, Found
  <1>2. TypeInv /\ TypeInv' /\ WorktreeInv /\ [Next]_vars => WorktreeInv'
    <2> SUFFICES ASSUME TypeInv, TypeInv', WorktreeInv, [Next]_vars PROVE WorktreeInv'
      OBVIOUS
    <2>1. ASSUME NEW q \in Requests, Dispatch(q) \/ ReadForContinue(q) \/ Approve(q)
                                       \/ Interrupt(q) \/ Steer(q) \/ Kill(q)
          PROVE  WorktreeInv'
      BY <2>1, DispatchIsQuiet, ApproveIsQuiet, ControlIsQuiet, QuietKeepsWorktrees
    <2>2. ASSUME NEW q \in Requests, Abandon(q) PROVE WorktreeInv'
      <3>1. "idle" \notin Creating \union {"delete"}
        BY DEF Creating
      <3> QED BY <2>2, <3>1, SaveIsQuiet, QuietKeepsWorktrees DEF Abandon
    <2>3. ASSUME UNCHANGED <<rows, created, trees, pc, job>> PROVE WorktreeInv'
      BY <2>3 DEF WorktreeInv, OnePathEach, CopiesAgree, CreatorsAlone, NothingLeft,
         NoOrphanWorktree, Found
    <2>4. CASE UNCHANGED vars \/ \E t \in 1..MaxTurns : TurnAdvances(t)
      BY <2>3, <2>4 DEF vars, TurnAdvances
    <2> QED BY <2>1, <2>2, <2>4, CreateKeepsWorktrees, RemoveKeepsWorktrees DEF Next
  <1> QED BY <1>1, <1>2, TypeInvariant, PTL DEF Spec

\* Every worktree on disk belongs to a worker that is recorded, wherever requests
\* end early and however many of them meet.
THEOREM NoWorktreeIsOrphaned == Spec => []NoOrphanWorktree
  <1>1. WorktreeInv => NoOrphanWorktree
    BY DEF WorktreeInv
  <1> QED BY <1>1, WorktreeInvariant, PTL

-----------------------------------------------------------------------------
(* Verdicts.                                                               *)

\* A row that says completed names a turn that did complete.
Earned(row) ==
  row.status = "completed" => row.turn # 0 /\ turns[row.turn] = "completed"

\* So do the copies that may be written back, and whoever waits for a turn waits
\* for one that was started.
VerdictInv ==
  /\ \A w \in 1..MaxWorkers : Earned(rows[w])
  /\ \A q \in Requests : /\ pc[q] # "idle" => Earned(job[q].copy)
                         /\ pc[q] = "turn" => job[q].turn # 0

\* A turn that completed stays completed.
TurnsStay == \A t \in 1..started : turns[t] = "completed" => turns'[t] = "completed"

\* A turn that is started is one of the table's.
LEMMA StartedTurns ==
  ASSUME TypeInv
  PROVE  \A t \in 1..started : t \in 1..MaxTurns
  BY TableTypes, RegistryAssumption

\* A request may change its row and its copy; both stay earned as turns stay.
LEMMA EarnedStays ==
  ASSUME TypeInv, TurnsStay, NEW r \in RowType, Earned(r)
  PROVE  Earned(r)'
  <1>1. r.turn \in 0..started /\ started \in Nat
    BY TableTypes, RegistryAssumption DEF RowType
  <1> QED BY <1>1 DEF Earned, TurnsStay

\* What a step of a request has to show.
LEMMA StepKeepsVerdicts ==
  ASSUME TypeInv, VerdictInv, TurnsStay, NEW q \in Requests,
         \A r \in Requests \ {q} : pc'[r] = pc[r] /\ job'[r] = job[r],
         \A w \in 1..MaxWorkers : rows'[w] = rows[w] \/ Earned(rows[w])',
         pc'[q] # "idle" => Earned(job[q].copy)',
         pc'[q] = "turn" => job'[q].turn # 0
  PROVE  VerdictInv'
  <1>1. ASSUME NEW w \in 1..MaxWorkers PROVE Earned(rows[w])'
    <2>1. CASE rows'[w] = rows[w]
      <3>1. rows[w] \in RowType /\ Earned(rows[w])
        BY TableTypes DEF VerdictInv
      <3>2. rows[w].turn \in 0..started /\ started \in Nat
        BY <3>1, TableTypes, RegistryAssumption DEF RowType
      <3> QED BY <2>1, <3>1, <3>2 DEF Earned, TurnsStay
    <2> QED BY <2>1
  <1>2. ASSUME NEW r \in Requests
        PROVE  /\ pc'[r] # "idle" => Earned(job[r].copy)'
               /\ pc'[r] = "turn" => job'[r].turn # 0
    <2>1. CASE r # q
      <3>1. pc'[r] = pc[r] /\ job'[r] = job[r]
        BY <2>1
      <3>2. job[r].copy.turn \in 0..started /\ started \in Nat
        BY HeldTypes DEF RowType
      <3> QED BY <3>1, <3>2 DEF VerdictInv, Earned, TurnsStay
    <2> QED BY <2>1
  <1> QED BY <1>1, <1>2 DEF VerdictInv

\* A request that reads a row.
LEMMA ReadKeepsVerdicts ==
  ASSUME TypeInv, VerdictInv, NEW q \in Requests, NEW place, place # "turn",
         \E w \in 1..created : Read(q, w), Goto(q, place), UNCHANGED <<rows, turns, started>>
  PROVE  VerdictInv'
  <1>1. PICK w \in 1..created : Read(q, w)
    OBVIOUS
  <1>2. job' = [job EXCEPT ![q] = [worker |-> w, copy |-> rows[w], turn |-> 0]]
    BY <1>1, NewJob DEF Read
  <1>3. job'[q].copy = rows[w] /\ \A r \in Requests \ {q} : job'[r] = job[r]
    BY <1>2 DEF TypeInv
  <1>4. pc'[q] = place /\ \A r \in Requests \ {q} : pc'[r] = pc[r]
    BY DEF Goto, TypeInv
  <1>5. w \in 1..MaxWorkers
    BY TableTypes, RegistryAssumption
  <1>6. Earned(job[q].copy)'
    BY <1>3, <1>5 DEF VerdictInv, Earned
  <1> QED BY <1>3, <1>4, <1>6, StepKeepsVerdicts DEF TurnsStay

\* A request that returns or goes on, with its row as it was, saved or deleted.
LEMMA SaveKeepsVerdicts ==
  ASSUME TypeInv, VerdictInv, TurnsStay, NEW q \in Requests, pc[q] # "idle",
         NEW place, place # "turn",
         \/ UNCHANGED rows
         \/ \E row \in RowType : /\ Earned(row)
                                 /\ rows' = [rows EXCEPT ![job[q].worker] = row],
         Return(q) \/ (Goto(q, place) /\ UNCHANGED job)
  PROVE  VerdictInv'
  <1>1. \A w \in 1..MaxWorkers : rows'[w] = rows[w] \/ Earned(rows[w])'
    <2>1. ASSUME NEW row \in RowType, Earned(row),
                 rows' = [rows EXCEPT ![job[q].worker] = row], NEW w \in 1..MaxWorkers
          PROVE  rows'[w] = rows[w] \/ Earned(rows[w])'
      <3>1. Earned(row)'
        BY <2>1, EarnedStays
      <3>2. rows'[w] = rows[w] \/ rows'[w] = row
        BY <2>1, TableTypes
      <3> QED BY <3>1, <3>2 DEF Earned
    <2> QED BY <2>1
  <1>2. /\ \A r \in Requests \ {q} : pc'[r] = pc[r] /\ job'[r] = job[r]
        /\ pc'[q] = "idle" \/ (pc'[q] = place /\ job'[q] = job[q])
    BY DEF Return, Goto, TypeInv
  <1>3. pc'[q] # "idle" => Earned(job[q].copy)'
    <2>1. job[q].copy.turn \in 0..started /\ started \in Nat
      BY HeldTypes DEF RowType
    <2> QED BY <1>2, <2>1 DEF VerdictInv, Earned, TurnsStay
  <1> QED BY <1>1, <1>2, <1>3, StepKeepsVerdicts

\* Save writes the row or nothing.
LEMMA SaveWrites ==
  ASSUME NEW q \in Requests, NEW row, Save(q, row)
  PROVE  UNCHANGED rows \/ rows' = [rows EXCEPT ![job[q].worker] = row]
  BY DEF Save

\* create starts with a row without a verdict.
LEMMA CreateKeepsVerdicts ==
  ASSUME TypeInv, VerdictInv, NEW q \in Requests, Create(q)
  PROVE  VerdictInv'
  <1>1. TurnsStay
    BY Zenon DEF Create, InsertRow, AddWorktree, UndoRow, SaveCreated, TurnsStay
  <1>2. CASE InsertRow(q)
    <2>1. PICK p \in Paths :
            LET row == [NoRow EXCEPT !.status = "creating", !.path = p] IN
              /\ rows' = [rows EXCEPT ![created + 1] = row]
              /\ job' = [job EXCEPT ![q] = [NoJob EXCEPT !.worker = created + 1, !.copy = row]]
      BY <1>2 DEF InsertRow
    <2> DEFINE row == [status |-> "creating", path |-> p, turn |-> 0]
    <2>2. /\ rows' = [rows EXCEPT ![created + 1] = row]
          /\ job' = [job EXCEPT ![q] = [worker |-> created + 1, copy |-> row, turn |-> 0]]
      <3>1. [NoRow EXCEPT !.status = "creating", !.path = p] = row
        BY NewRow
      <3>2. [NoJob EXCEPT !.worker = created + 1, !.copy = row]
              = [worker |-> created + 1, copy |-> row, turn |-> 0]
        BY NewJob
      <3> QED BY <2>1, <3>1, <3>2
    <2>3. row.status = "creating"
      OBVIOUS
    <2> HIDE DEF row
    <2>4. job'[q].copy = row /\ \A r \in Requests \ {q} : job'[r] = job[r]
      BY <2>2 DEF TypeInv
    <2>5. \A w \in 1..MaxWorkers : rows'[w] = rows[w] \/ rows'[w] = row
      BY <2>2, TableTypes
    <2>6. pc'[q] = "add" /\ \A r \in Requests \ {q} : pc'[r] = pc[r]
      BY <1>2 DEF InsertRow, Goto, TypeInv
    <2>7. \A w \in 1..MaxWorkers : rows'[w] = rows[w] \/ Earned(rows[w])'
      BY <2>3, <2>5 DEF Earned
    <2>8. Earned(job[q].copy)'
      BY <2>3, <2>4 DEF Earned
    <2> QED BY <1>1, <2>4, <2>6, <2>7, <2>8, StepKeepsVerdicts
  <1>3. CASE AddWorktree(q)
    <2>1. /\ pc[q] # "idle" /\ UNCHANGED <<rows, job>>
          /\ Goto(q, "created") \/ Goto(q, "undo")
      BY <1>3 DEF AddWorktree
    <2> QED BY <1>1, <2>1, SaveKeepsVerdicts
  <1>4. CASE UndoRow(q)
    <2>1. NoRow \in RowType /\ Earned(NoRow)
      BY EmptyRowType DEF NoRow, Earned
    <2> QED BY <1>1, <1>4, <2>1, SaveKeepsVerdicts DEF UndoRow
  <1>5. CASE SaveCreated(q)
    <2> DEFINE row == [job[q].copy EXCEPT !.status = "idle"]
    <2>1. row \in RowType /\ row.status = "idle"
      BY StatusSaved DEF Statuses
    <2>2. pc[q] # "idle" /\ Save(q, row) /\ Return(q)
      BY <1>5 DEF SaveCreated
    <2> HIDE DEF row
    <2>3. Earned(row)
      BY <2>1 DEF Earned
    <2>4. \/ UNCHANGED rows
          \/ \E r \in RowType : /\ Earned(r)
                               /\ rows' = [rows EXCEPT ![job[q].worker] = r]
      BY <2>1, <2>2, <2>3, SaveWrites, Zenon
    <2>5. pc[q] # "idle" /\ "idle" # "turn"
      BY <2>2
    <2> QED BY <1>1, <2>2, <2>4, <2>5, SaveKeepsVerdicts
  <1> QED BY <1>2, <1>3, <1>4, <1>5, Zenon DEF Create

\* A verdict is taken from the turn itself, when Execute returns.
LEMMA DispatchKeepsVerdicts ==
  ASSUME TypeInv, VerdictInv, NEW q \in Requests, Dispatch(q) \/ ReadForContinue(q)
  PROVE  VerdictInv'
  <1>1. TurnsStay
    <2>1. CASE StartTurn(q)
      BY <2>1, TableTypes, RegistryAssumption DEF StartTurn, TurnsStay
    <2> QED BY <2>1 DEF Dispatch, ReadForDispatch, Activate, ClientUnavailable,
            StartFails, TurnReturns, SaveResult, ReadForContinue, TurnsStay
  <1>2. CASE ReadForDispatch(q)
    <2>1. \E w \in 1..created : Read(q, w)
      BY <1>2 DEF ReadForDispatch
    <2> QED BY <1>2, <2>1, ReadKeepsVerdicts DEF ReadForDispatch
  <1>3. CASE Activate(q)
    <2> DEFINE row == [job[q].copy EXCEPT !.status = "executor_active"]
    <2>1. row \in RowType /\ row.status = "executor_active"
      BY StatusSaved DEF Statuses
    <2>2. /\ pc[q] # "idle" /\ Save(q, row)
          /\ Return(q) \/ (Goto(q, "start") /\ UNCHANGED job)
      BY <1>3 DEF Activate
    <2> HIDE DEF row
    <2>3. Earned(row)
      BY <2>1 DEF Earned
    <2> QED BY <1>1, <2>1, <2>2, <2>3, SaveWrites, SaveKeepsVerdicts
  <1>4. CASE ClientUnavailable(q)
    <2>1. "idle" # "turn"
      OBVIOUS
    <2> QED BY <1>1, <1>4, <2>1, SaveKeepsVerdicts DEF ClientUnavailable
  <1>5. CASE StartTurn(q)
    <2>1. /\ pc[q] = "start" /\ pc'[q] = "turn" /\ UNCHANGED rows
          /\ \A r \in Requests \ {q} : pc'[r] = pc[r]
          /\ job' = [job EXCEPT ![q].turn = started + 1] /\ started \in Nat
      BY <1>5, TableTypes, RegistryAssumption DEF StartTurn, Goto, TypeInv
    <2>2. /\ \A r \in Requests \ {q} : job'[r] = job[r]
          /\ job'[q].copy = job[q].copy /\ job'[q].turn = started + 1
      BY <2>1, HeldTypes DEF TypeInv, JobType
    <2>3. Earned(job[q].copy)'
      <3>1. job[q].copy.turn \in 0..started
        BY HeldTypes DEF RowType
      <3>2. Earned(job[q].copy)
        BY <2>1 DEF VerdictInv
      <3> QED BY <1>1, <2>1, <2>2, <3>1, <3>2 DEF Earned, TurnsStay
    <2>4. job'[q].turn # 0
      BY <2>1, <2>2
    <2> QED BY <1>1, <2>1, <2>2, <2>3, <2>4, StepKeepsVerdicts
  <1>6. CASE StartFails(q)
    <2>1. /\ pc'[q] = "save" /\ UNCHANGED rows
          /\ \A r \in Requests \ {q} : pc'[r] = pc[r] /\ job'[r] = job[r]
      BY <1>6 DEF StartFails, Goto, TypeInv
    <2>2. job'[q].copy.status = "failed"
      BY <1>6, HeldTypes DEF StartFails, TypeInv, JobType, RowType
    <2>3. Earned(job[q].copy)'
      BY <2>2 DEF Earned
    <2> QED BY <1>1, <2>1, <2>3, StepKeepsVerdicts
  <1>7. CASE TurnReturns(q)
    <2>1. PICK outcome \in {"approval_required", "completed", "failed"} :
            /\ outcome = "completed" => turns[job[q].turn] = "completed"
            /\ job' = [job EXCEPT ![q].copy.status = outcome,
                                  ![q].copy.turn = job[q].turn, ![q].turn = 0]
      BY <1>7 DEF TurnReturns
    <2>2. /\ pc[q] = "turn" /\ pc'[q] = "save" /\ UNCHANGED <<rows, turns>>
          /\ \A r \in Requests \ {q} : pc'[r] = pc[r]
      BY <1>7 DEF TurnReturns, Goto, TypeInv
    <2>3. /\ \A r \in Requests \ {q} : job'[r] = job[r]
          /\ job'[q].copy.status = outcome /\ job'[q].copy.turn = job[q].turn
      BY <2>1, HeldTypes DEF TypeInv, JobType, RowType
    <2>4. job[q].turn # 0
      BY <2>2 DEF VerdictInv
    <2>5. Earned(job[q].copy)'
      BY <2>1, <2>2, <2>3, <2>4 DEF Earned
    <2> QED BY <1>1, <2>2, <2>3, <2>5, StepKeepsVerdicts
  <1>8. CASE SaveResult(q)
    <2>1. /\ job[q].copy \in RowType /\ Earned(job[q].copy)
          /\ pc[q] # "idle" /\ Save(q, job[q].copy) /\ Return(q)
      BY <1>8, HeldTypes DEF SaveResult, VerdictInv
    <2> QED BY <1>1, <2>1, SaveWrites, SaveKeepsVerdicts
  <1>9. CASE ReadForContinue(q)
    <2>1. PICK w \in 1..created :
            /\ Continuable(rows[w])
            /\ job' = [job EXCEPT ![q] = [worker |-> w, copy |-> rows[w],
                                          turn |-> rows[w].turn]]
      BY <1>9 DEF ReadForContinue
    <2>2. /\ job'[q].copy = rows[w] /\ job'[q].turn = rows[w].turn
          /\ \A r \in Requests \ {q} : job'[r] = job[r]
      BY <2>1 DEF TypeInv
    <2>3. UNCHANGED <<rows, turns>> /\ \A r \in Requests \ {q} : pc'[r] = pc[r]
      BY <1>9 DEF ReadForContinue, Goto, TypeInv
    <2>4. rows[w].turn # 0 /\ rows[w].status # "completed"
      BY <2>1 DEF Continuable
    <2>5. Earned(job[q].copy)'
      BY <2>2, <2>4 DEF Earned
    <2> QED BY <1>1, <2>2, <2>3, <2>4, <2>5, StepKeepsVerdicts
  <1> QED BY <1>2, <1>3, <1>4, <1>5, <1>6, <1>7, <1>8, <1>9 DEF Dispatch

\* Answers, notes and removals write back what was earned.
LEMMA CommandsKeepVerdicts ==
  ASSUME TypeInv, VerdictInv, NEW q \in Requests,
         Approve(q) \/ Interrupt(q) \/ Steer(q) \/ Kill(q) \/ Remove(q) \/ Abandon(q)
  PROVE  VerdictInv'
  <1>1. TurnsStay
    <2>1. CASE Answer(q)
      BY <2>1, TableTypes, StartedTurns DEF Answer, TurnsStay
    <2>2. CASE InterruptTurn(q)
      BY <2>2, TableTypes, StartedTurns DEF InterruptTurn, TurnsStay
    <2> QED BY <2>1, <2>2 DEF Approve, ReadForAnswer, SaveAnswered, ListForReason,
            SaveReason, Interrupt, ReadForInterrupt, Steer, ReadForSteer, SteerTurn, Kill,
            ReadForKill, SaveControl, Remove, ReadForRemoval, RemoveWorktree, DeleteRow,
            Abandon, TurnsStay
  <1>2. CASE \/ ReadForAnswer(q) \/ ReadForInterrupt(q) \/ ReadForSteer(q)
             \/ ReadForKill(q) \/ ReadForRemoval(q)
    <2>1. /\ \E w \in 1..created : Read(q, w)
          /\ \E place \in {"answer", "interrupt", "steer", "note", "remove"} : Goto(q, place)
          /\ UNCHANGED <<rows, turns, started>>
      BY <1>2 DEF ReadForAnswer, ReadForInterrupt, ReadForSteer, ReadForKill, ReadForRemoval
    <2> QED BY <2>1, ReadKeepsVerdicts
  <1>3. CASE \/ Answer(q) \/ ListForReason(q) \/ SaveReason(q) \/ InterruptTurn(q)
             \/ SteerTurn(q) \/ RemoveWorktree(q) \/ Abandon(q)
    <2>1. /\ pc[q] # "idle" /\ UNCHANGED rows
          /\ \/ Return(q)
             \/ \E place \in {"answered", "keep_reason", "clear_reason", "note", "delete"} :
                  Goto(q, place) /\ UNCHANGED job
      BY <1>3 DEF Answer, ListForReason, SaveReason, KeepReason, ClearReason,
         InterruptTurn, SteerTurn, RemoveWorktree, Abandon
    <2>2. "idle" # "turn"
      OBVIOUS
    <2> QED BY <1>1, <2>1, <2>2, SaveKeepsVerdicts
  <1>4. CASE SaveAnswered(q)
    <2> DEFINE row == [job[q].copy EXCEPT !.status = "executor_active"]
    <2>1. row \in RowType /\ row.status = "executor_active"
      BY StatusSaved DEF Statuses
    <2>2. /\ pc[q] # "idle" /\ Save(q, row)
          /\ Return(q) \/ (Goto(q, "list") /\ UNCHANGED job)
      BY <1>4 DEF SaveAnswered
    <2> HIDE DEF row
    <2>3. Earned(row)
      BY <2>1 DEF Earned
    <2> QED BY <1>1, <2>1, <2>2, <2>3, SaveWrites, SaveKeepsVerdicts
  <1>5. CASE SaveControl(q)
    <2>1. /\ job[q].copy \in RowType /\ Earned(job[q].copy)
          /\ pc[q] # "idle" /\ Save(q, job[q].copy) /\ Return(q)
      BY <1>5, HeldTypes DEF SaveControl, VerdictInv
    <2> QED BY <1>1, <2>1, SaveWrites, SaveKeepsVerdicts
  <1>6. CASE DeleteRow(q)
    <2>1. NoRow \in RowType /\ Earned(NoRow)
      BY EmptyRowType DEF NoRow, Earned
    <2> QED BY <1>1, <1>6, <2>1, SaveKeepsVerdicts DEF DeleteRow
  <1> QED BY <1>2, <1>3, <1>4, <1>5, <1>6 DEF Approve, Interrupt, Steer, Kill, Remove

\* A turn that goes on was running.
LEMMA AdvanceKeepsVerdicts ==
  ASSUME TypeInv, VerdictInv,
         UNCHANGED vars \/ \E t \in 1..MaxTurns : TurnAdvances(t)
  PROVE  VerdictInv'
  <1>1. TurnsStay /\ UNCHANGED <<rows, pc, job>>
    BY TableTypes, StartedTurns DEF TurnAdvances, TurnsStay, vars
  <1>2. \A w \in 1..MaxWorkers : rows[w].turn \in 0..started
    BY TableTypes DEF RowType
  <1>3. \A q \in Requests : job[q].copy.turn \in 0..started
    BY HeldTypes DEF RowType
  <1>4. started \in Nat
    BY TableTypes, RegistryAssumption
  <1> QED BY <1>1, <1>2, <1>3, <1>4 DEF VerdictInv, Earned, TurnsStay

\* A worker recorded as completed names a turn that did complete, however many
\* requests overtake each other with copies of its row.
THEOREM VerdictsAreEarned == Spec => []VerdictEarned
  <1>1. Init => VerdictInv
    BY DEF Init, NoRow, VerdictInv, Earned
  <1>2. TypeInv /\ VerdictInv /\ [Next]_vars => VerdictInv'
    BY CreateKeepsVerdicts, DispatchKeepsVerdicts, CommandsKeepVerdicts,
       AdvanceKeepsVerdicts DEF Next
  <1>3. TypeInv /\ VerdictInv => VerdictEarned
    <2>1. TypeInv => 1..created \subseteq 1..MaxWorkers
      BY TableTypes, RegistryAssumption
    <2> QED BY <2>1 DEF VerdictInv, VerdictEarned, Earned
  <1> QED BY <1>1, <1>2, <1>3, TypeInvariant, PTL DEF Spec

-----------------------------------------------------------------------------
(* An active worker is driven, or a cycle can take it up.                  *)

\* A new row has no turn, and one that waits for an approval has.
Sound(row) ==
  /\ row.status = "creating" => row.turn = 0
  /\ row.status = "approval_required" => row.turn # 0

\* A row that needs nobody to drive it.
Safe(row) == Active(row.status) => Continuable(row)

\* What a request that goes on has to know of its turn.
HeldDriven(q) ==
  /\ pc[q] \in {"answer", "answered", "note"} => job[q].copy.turn # 0
  /\ pc[q] \in {"interrupt", "steer"} => job[q].copy.turn # 0 /\ Safe(job[q].copy)
  /\ pc[q] = "turn" => job[q].turn # 0
  /\ pc[q] = "save" => Safe(job[q].copy)

RowsSound == \A w \in 1..MaxWorkers : Sound(rows[w])

\* What steps of a request amount to: a row it writes is safe or driven, and so is
\* the row of a worker that it drives no longer.
DriveStep(q) ==
  /\ \A r \in Requests \ {q} : pc'[r] = pc[r] /\ job'[r] = job[r]
  /\ \A w \in 1..MaxWorkers :
       \/ rows'[w] = rows[w]
       \/ /\ Sound(rows[w])' /\ rows'[w].status \notin {"pending", "assigned"}
          /\ (Safe(rows[w]) \/ Drives(q, w))'
  /\ \A w \in (1..MaxWorkers) \ lost' : Drives(q, w) => (Safe(rows[w]) \/ Drives(q, w))'
  /\ lost \subseteq lost'
  /\ HeldDriven(q)'

\* A request that reads a row drives nothing yet.
LEMMA ReadDrives ==
  ASSUME TypeInv, NEW q \in Requests, HeldDriven(q), RowsSound,
         NEW place \in {"activate", "answer", "interrupt", "steer", "note", "remove"},
         NEW w \in 1..created, Read(q, w), Goto(q, place), UNCHANGED <<rows, lost>>,
         place \notin {"activate", "remove"} => rows[w].turn # 0,
         place \in {"interrupt", "steer"} => Safe(rows[w])
  PROVE  DriveStep(q)
  <1>1. job' = [job EXCEPT ![q] = [worker |-> w, copy |-> rows[w], turn |-> 0]]
    BY NewJob DEF Read
  <1>2. job'[q].copy = rows[w] /\ \A r \in Requests \ {q} : job'[r] = job[r]
    BY <1>1 DEF TypeInv
  <1>3. pc'[q] = place /\ \A r \in Requests \ {q} : pc'[r] = pc[r]
    BY DEF Goto, TypeInv
  <1>4. HeldDriven(q)'
    BY <1>2, <1>3 DEF HeldDriven, Safe, Continuable
  <1>5. \A x \in 1..MaxWorkers : ~Drives(q, x)
    BY DEF Drives, Read
  <1> QED BY <1>2, <1>3, <1>4, <1>5 DEF DriveStep

\* A request that leaves its row in a safe state and goes.
LEMMA SaveDrives ==
  ASSUME TypeInv, NEW q \in Requests, HeldDriven(q), RowsSound, pc[q] # "idle",
         NEW row \in RowType, Safe(row),
         \/ Save(q, row)
         \/ rows' = [rows EXCEPT ![job[q].worker] = row],
         Return(q) \/ (Goto(q, "list") /\ UNCHANGED job), UNCHANGED lost
  PROVE  DriveStep(q)
  <1>1. job[q].worker \in 1..MaxWorkers
    BY HeldWorker
  <1>2. /\ \A w \in 1..MaxWorkers : rows'[w] = rows[w] \/ rows'[w] = row
        /\ rows'[job[q].worker] = row \/ (~Found(job[q].worker) /\ UNCHANGED rows)
    <2>1. rows \in [1..MaxWorkers -> RowType]
      BY TableTypes
    <2>2. \/ rows' = [rows EXCEPT ![job[q].worker] = row]
          \/ ~Found(job[q].worker) /\ UNCHANGED rows
      BY DEF Save
    <2> QED BY <1>1, <2>1, <2>2
  <1>3. /\ \A r \in Requests \ {q} : pc'[r] = pc[r] /\ job'[r] = job[r]
        /\ pc'[q] = "idle" \/ (pc'[q] = "list" /\ job'[q] = job[q])
    <2>1. CASE Return(q)
      BY <2>1 DEF Return, Goto, TypeInv
    <2>2. CASE Goto(q, "list") /\ UNCHANGED job
      BY <2>2 DEF Goto, TypeInv
    <2> QED BY <2>1, <2>2
  <1>4. \A w \in 1..MaxWorkers : rows'[w] = row =>
          Sound(rows[w])' /\ Safe(rows[w])' /\ rows'[w].status \notin {"pending", "assigned"}
    BY DEF Sound, Safe, Active, Continuable
  <1>5. Safe(rows[job[q].worker])
        \/ Found(job[q].worker)
    BY DEF Safe, Found, Active
  <1>6. \A w \in 1..MaxWorkers : Drives(q, w) => Safe(rows[w])'
    <2> SUFFICES ASSUME NEW w \in 1..MaxWorkers, w = job[q].worker
                 PROVE  Safe(rows[w])'
      BY DEF Drives
    <2>1. CASE rows'[w] = row
      BY <1>4, <2>1
    <2>2. CASE rows'[w] # row
      <3>1. rows'[w] = rows[w] /\ Safe(rows[w])
        BY <1>2, <1>5, <2>2
      <3> QED BY <3>1 DEF Safe, Continuable
    <2> QED BY <2>1, <2>2
  <1>7. HeldDriven(q)'
    BY <1>3 DEF HeldDriven
  <1> QED BY <1>2, <1>3, <1>4, <1>6, <1>7 DEF DriveStep

\* A request that drives nothing, or is noted as lost, and goes on or returns.
LEMMA LeaveDrives ==
  ASSUME TypeInv, NEW q \in Requests, HeldDriven(q), RowsSound, pc[q] # "idle", UNCHANGED rows,
         lost' = lost \union {w \in {job[q].worker} : Drives(q, w)},
         \/ Return(q)
         \/ /\ UNCHANGED job
            /\ \/ pc[q] = "answer" /\ Goto(q, "answered")
               \/ pc[q] \in {"interrupt", "steer"} /\ Goto(q, "note")
               \/ Goto(q, "keep_reason") \/ Goto(q, "clear_reason") \/ Goto(q, "delete")
  PROVE  DriveStep(q)
  <1>1. \A r \in Requests \ {q} : pc'[r] = pc[r] /\ job'[r] = job[r]
    BY DEF Return, Goto, TypeInv
  <1>2. \/ pc'[q] = "idle"
        \/ /\ job'[q] = job[q]
           /\ \/ pc[q] = "answer" /\ pc'[q] = "answered"
              \/ pc[q] \in {"interrupt", "steer"} /\ pc'[q] = "note"
              \/ pc'[q] \in {"keep_reason", "clear_reason", "delete"}
    BY DEF Return, Goto, TypeInv
  <1>3. HeldDriven(q)'
    BY <1>2 DEF HeldDriven, Safe, Continuable
  <1>4. \A w \in (1..MaxWorkers) \ lost' : ~Drives(q, w)
    BY DEF Drives
  <1> QED BY <1>1, <1>3, <1>4 DEF DriveStep

LEMMA CreateDrives ==
  ASSUME TypeInv, NEW q \in Requests, HeldDriven(q), RowsSound, Create(q)
  PROVE  DriveStep(q)
  <1>1. CASE InsertRow(q)
    <2>1. PICK p \in Paths :
            LET row == [NoRow EXCEPT !.status = "creating", !.path = p] IN
              /\ rows' = [rows EXCEPT ![created + 1] = row]
              /\ job' = [job EXCEPT ![q] = [NoJob EXCEPT !.worker = created + 1, !.copy = row]]
      BY <1>1 DEF InsertRow
    <2> DEFINE row == [status |-> "creating", path |-> p, turn |-> 0]
    <2> DEFINE j == [worker |-> created + 1, copy |-> row, turn |-> 0]
    <2>2. rows' = [rows EXCEPT ![created + 1] = row] /\ job' = [job EXCEPT ![q] = j]
      <3>1. [NoRow EXCEPT !.status = "creating", !.path = p] = row
        BY NewRow
      <3>2. [NoJob EXCEPT !.worker = created + 1, !.copy = row] = j
        BY NewJob
      <3> QED BY <2>1, <3>1, <3>2
    <2>3. Sound(row) /\ row.status = "creating" /\ j.worker = created + 1 /\ j.copy = row
      BY DEF Sound
    <2> HIDE DEF row, j
    <2>4. job'[q] = j /\ \A r \in Requests \ {q} : job'[r] = job[r]
      BY <2>2 DEF TypeInv
    <2>5. pc'[q] = "add" /\ \A r \in Requests \ {q} : pc'[r] = pc[r]
      BY <1>1 DEF InsertRow, Goto, TypeInv
    <2>6. ASSUME NEW w \in 1..MaxWorkers
          PROVE  \/ rows'[w] = rows[w]
                 \/ /\ Sound(rows[w])' /\ rows'[w].status \notin {"pending", "assigned"}
                    /\ Drives(q, w)'
      <3>1. CASE w = created + 1
        <4>1. rows'[w] = row
          BY <2>2, <3>1, TableTypes
        <4> QED BY <2>3, <2>4, <2>5, <3>1, <4>1 DEF Sound, Drives
      <3>2. CASE w # created + 1
        <4>1. rows \in [1..MaxWorkers -> RowType]
          BY TableTypes
        <4>2. rows'[w] = rows[w]
          BY <2>2, <3>2, <4>1
        <4> QED BY <4>2
      <3> QED BY <3>1, <3>2
    <2>7. HeldDriven(q)'
      BY <2>5 DEF HeldDriven
    <2>8. \A w \in 1..MaxWorkers : ~Drives(q, w)
      BY <1>1 DEF InsertRow, Drives
    <2> QED BY <1>1, <2>4, <2>5, <2>6, <2>7, <2>8 DEF DriveStep, InsertRow
  <1>2. CASE AddWorktree(q)
    <2>1. /\ pc[q] = "add" /\ pc'[q] \in {"created", "undo"} /\ UNCHANGED <<rows, job, lost>>
          /\ \A r \in Requests \ {q} : pc'[r] = pc[r]
      BY <1>2 DEF AddWorktree, Goto, TypeInv
    <2>2. HeldDriven(q)'
      BY <2>1 DEF HeldDriven
    <2>3. \A w \in 1..MaxWorkers : Drives(q, w) => Drives(q, w)'
      BY <2>1 DEF Drives
    <2> QED BY <2>1, <2>2, <2>3 DEF DriveStep
  <1>3. CASE UndoRow(q)
    <2>1. NoRow \in RowType /\ Safe(NoRow)
      BY EmptyRowType DEF NoRow, Safe, Active
    <2>2. /\ pc[q] # "idle" /\ rows' = [rows EXCEPT ![job[q].worker] = NoRow]
          /\ Return(q) /\ UNCHANGED lost
      BY <1>3 DEF UndoRow
    <2> QED BY <2>1, <2>2, SaveDrives
  <1>4. CASE SaveCreated(q)
    <2> DEFINE row == [job[q].copy EXCEPT !.status = "idle"]
    <2>1. row \in RowType /\ row.status = "idle"
      BY StatusSaved DEF Statuses
    <2>2. pc[q] # "idle" /\ Save(q, row) /\ Return(q) /\ UNCHANGED lost
      BY <1>4 DEF SaveCreated
    <2> HIDE DEF row
    <2>3. Safe(row)
      BY <2>1 DEF Safe, Active
    <2> QED BY <2>1, <2>2, <2>3, SaveDrives
  <1> QED BY <1>1, <1>2, <1>3, <1>4 DEF Create

\* From activation to the saving of the result the request drives the worker.
LEMMA DispatchDrives ==
  ASSUME TypeInv, NEW q \in Requests, HeldDriven(q), RowsSound, Dispatch(q) \/ ReadForContinue(q)
  PROVE  DriveStep(q)
  <1>1. CASE ReadForDispatch(q)
    <2>1. PICK w \in 1..created : Read(q, w)
      BY <1>1 DEF ReadForDispatch
    <2>2. Goto(q, "activate") /\ UNCHANGED <<rows, lost>>
      BY <1>1 DEF ReadForDispatch
    <2> QED BY <2>1, <2>2, ReadDrives
  <1>2. CASE Activate(q)
    <2> DEFINE row == [job[q].copy EXCEPT !.status = "executor_active"]
    <2>1. row \in RowType /\ row.status = "executor_active"
      BY StatusSaved DEF Statuses
    <2>2. /\ pc[q] = "activate" /\ Save(q, row) /\ UNCHANGED lost
          /\ IF Found(job[q].worker) THEN Goto(q, "start") /\ UNCHANGED job ELSE Return(q)
      BY <1>2 DEF Activate
    <2> HIDE DEF row
    <2>3. Sound(row) /\ \A w \in 1..MaxWorkers : ~Drives(q, w)
      BY <2>1, <2>2 DEF Sound, Drives
    <2>4. CASE Found(job[q].worker)
      <3>1. /\ job' = job /\ pc'[q] = "start" /\ \A r \in Requests \ {q} : pc'[r] = pc[r]
        BY <2>2, <2>4 DEF Goto, TypeInv
      <3>2. ASSUME NEW w \in 1..MaxWorkers
            PROVE  \/ rows'[w] = rows[w]
                   \/ /\ Sound(rows[w])' /\ rows'[w].status \notin {"pending", "assigned"}
                      /\ Drives(q, w)'
        <4>1. rows \in [1..MaxWorkers -> RowType]
          BY TableTypes
        <4>2. rows' = [rows EXCEPT ![job[q].worker] = row]
          BY <2>2, <2>4 DEF Save
        <4>3. CASE w = job[q].worker
          <5>1. rows'[w] = row
            BY <4>1, <4>2, <4>3
          <5> QED BY <2>1, <2>3, <3>1, <4>3, <5>1 DEF Sound, Drives
        <4>4. CASE w # job[q].worker
          BY <4>1, <4>2, <4>4
        <4> QED BY <4>3, <4>4
      <3>3. HeldDriven(q)'
        BY <3>1 DEF HeldDriven
      <3> QED BY <2>2, <2>3, <3>1, <3>2, <3>3 DEF DriveStep
    <2>5. CASE ~Found(job[q].worker)
      <3>1. UNCHANGED rows /\ Return(q)
        BY <2>2, <2>5 DEF Save
      <3>2. {w \in {job[q].worker} : Drives(q, w)} = {}
        BY <2>2 DEF Drives
      <3> QED BY <2>2, <3>1, <3>2, LeaveDrives
    <2> QED BY <2>4, <2>5
  <1>3. CASE ClientUnavailable(q)
    <2>1. /\ pc[q] = "start" /\ Return(q) /\ UNCHANGED rows
          /\ lost' = lost \union {job[q].worker}
      BY <1>3 DEF ClientUnavailable
    <2>2. {job[q].worker} = {w \in {job[q].worker} : Drives(q, w)}
      BY <2>1 DEF Drives
    <2> QED BY <2>1, <2>2, LeaveDrives
  <1>4. CASE StartTurn(q)
    <2>1. /\ pc[q] = "start" /\ pc'[q] = "turn" /\ UNCHANGED <<rows, lost>>
          /\ \A r \in Requests \ {q} : pc'[r] = pc[r]
          /\ job' = [job EXCEPT ![q].turn = started + 1] /\ started \in Nat
      BY <1>4, TableTypes, RegistryAssumption DEF StartTurn, Goto, TypeInv
    <2>2. /\ \A r \in Requests \ {q} : job'[r] = job[r]
          /\ job'[q].worker = job[q].worker
          /\ job'[q].copy = job[q].copy /\ job'[q].turn = started + 1
      BY <2>1, HeldTypes DEF TypeInv, JobType
    <2>3. HeldDriven(q)'
      BY <2>1, <2>2 DEF HeldDriven, Sound
    <2>4. \A w \in 1..MaxWorkers : Drives(q, w) => Drives(q, w)'
      BY <2>1, <2>2 DEF Drives
    <2> QED BY <2>1, <2>2, <2>3, <2>4 DEF DriveStep
  <1>5. CASE StartFails(q)
    <2>1. /\ pc[q] = "start" /\ pc'[q] = "save" /\ UNCHANGED <<rows, lost>>
          /\ \A r \in Requests \ {q} : pc'[r] = pc[r] /\ job'[r] = job[r]
      BY <1>5 DEF StartFails, Goto, TypeInv
    <2>2. /\ job'[q].worker = job[q].worker
          /\ job'[q].copy.status = "failed" /\ job'[q].copy.turn = 0
      BY <1>5, HeldTypes DEF StartFails, TypeInv, JobType, RowType
    <2>3. HeldDriven(q)'
      BY <2>1, <2>2 DEF HeldDriven, Sound, Safe, Active
    <2>4. \A w \in 1..MaxWorkers : Drives(q, w) => Drives(q, w)'
      BY <2>1, <2>2 DEF Drives
    <2> QED BY <2>1, <2>3, <2>4 DEF DriveStep
  <1>6. CASE TurnReturns(q)
    <2>1. PICK outcome \in {"approval_required", "completed", "failed"} :
            job' = [job EXCEPT ![q].copy.status = outcome,
                               ![q].copy.turn = job[q].turn, ![q].turn = 0]
      BY <1>6 DEF TurnReturns
    <2>2. /\ pc[q] = "turn" /\ pc'[q] = "save" /\ UNCHANGED <<rows, lost>>
          /\ \A r \in Requests \ {q} : pc'[r] = pc[r]
      BY <1>6 DEF TurnReturns, Goto, TypeInv
    <2>3. /\ \A r \in Requests \ {q} : job'[r] = job[r]
          /\ job'[q].worker = job[q].worker
          /\ job'[q].copy.status = outcome /\ job'[q].copy.turn = job[q].turn
      BY <2>1, HeldTypes DEF TypeInv, JobType, RowType
    <2>4. job[q].turn # 0
      BY <2>2 DEF HeldDriven
    <2>5. HeldDriven(q)'
      BY <2>2, <2>3, <2>4 DEF HeldDriven, Sound, Safe, Active, Continuable
    <2>6. \A w \in 1..MaxWorkers : Drives(q, w) => Drives(q, w)'
      BY <2>2, <2>3 DEF Drives
    <2> QED BY <2>2, <2>3, <2>5, <2>6 DEF DriveStep
  <1>7. CASE SaveResult(q)
    <2>1. /\ pc[q] = "save" /\ job[q].copy \in RowType
          /\ Save(q, job[q].copy) /\ Return(q) /\ UNCHANGED lost
      BY <1>7, HeldTypes DEF SaveResult
    <2>2. Safe(job[q].copy)
      BY <2>1 DEF HeldDriven
    <2> QED BY <2>1, <2>2, SaveDrives
  <1>8. CASE ReadForContinue(q)
    <2>1. PICK w \in 1..created :
            /\ Continuable(rows[w])
            /\ job' = [job EXCEPT ![q] = [worker |-> w, copy |-> rows[w],
                                          turn |-> rows[w].turn]]
      BY <1>8 DEF ReadForContinue
    <2>2. /\ job'[q].copy = rows[w] /\ job'[q].turn = rows[w].turn
          /\ \A r \in Requests \ {q} : job'[r] = job[r]
      BY <2>1 DEF TypeInv
    <2>3. /\ UNCHANGED <<rows, lost>> /\ pc[q] = "idle" /\ pc'[q] = "turn"
          /\ \A r \in Requests \ {q} : pc'[r] = pc[r]
      BY <1>8 DEF ReadForContinue, Goto, TypeInv
    <2>4. HeldDriven(q)' /\ \A x \in 1..MaxWorkers : ~Drives(q, x)
      BY <2>1, <2>2, <2>3 DEF HeldDriven, Drives, Continuable
    <2> QED BY <2>2, <2>3, <2>4 DEF DriveStep
  <1> QED BY <1>1, <1>2, <1>3, <1>4, <1>5, <1>6, <1>7, <1>8 DEF Dispatch

\* An answer writes back a turn that can be continued; so does a note of what is safe.
LEMMA CommandsDrive ==
  ASSUME TypeInv, NEW q \in Requests, HeldDriven(q), RowsSound,
         Approve(q) \/ Interrupt(q) \/ Steer(q) \/ Kill(q) \/ Remove(q) \/ Abandon(q),
         SaveControl(q) => Safe(job[q].copy)
  PROVE  DriveStep(q)
  <1>1. CASE \/ ReadForAnswer(q) \/ ReadForInterrupt(q) \/ ReadForSteer(q)
             \/ ReadForKill(q) \/ ReadForRemoval(q)
    <2>1. PICK w \in 1..created,
               place \in {"activate", "answer", "interrupt", "steer", "note", "remove"} :
            /\ Read(q, w) /\ Goto(q, place) /\ UNCHANGED <<rows, lost>>
            /\ place \notin {"activate", "remove"} =>
                 rows[w].turn # 0 \/ rows[w].status = "approval_required"
            /\ place \in {"interrupt", "steer"} => Controllable(rows[w])
      BY <1>1 DEF ReadForAnswer, ReadForInterrupt, ReadForSteer, ReadForKill, ReadForRemoval,
         Controllable
    <2>2. rows[w].status = "approval_required" => rows[w].turn # 0
      <3>1. w \in 1..MaxWorkers
        BY TableTypes, RegistryAssumption
      <3> QED BY <3>1 DEF RowsSound, Sound
    <2>3. Controllable(rows[w]) => Safe(rows[w])
      BY DEF Controllable, Safe, Active, Continuable
    <2> QED BY <2>1, <2>2, <2>3, ReadDrives
  <1>2. CASE \/ Answer(q) \/ListForReason(q) \/ SaveReason(q) \/ InterruptTurn(q)
             \/ SteerTurn(q) \/ RemoveWorktree(q)
    <2>1. /\ pc[q] \in {"answer", "list", "keep_reason", "clear_reason", "interrupt", "steer",
                        "remove"}
          /\ UNCHANGED <<rows, lost>>
          /\ \/ Return(q)
             \/ /\ UNCHANGED job
                /\ \/ pc[q] = "answer" /\ Goto(q, "answered")
                   \/ pc[q] \in {"interrupt", "steer"} /\ Goto(q, "note")
                   \/ Goto(q, "keep_reason") \/ Goto(q, "clear_reason") \/ Goto(q, "delete")
      BY <1>2 DEF Answer, ListForReason, SaveReason, KeepReason, ClearReason,
         InterruptTurn, SteerTurn, RemoveWorktree
    <2>2. {w \in {job[q].worker} : Drives(q, w)} = {}
      BY <2>1 DEF Drives
    <2> QED BY <2>1, <2>2, LeaveDrives
  <1>3. CASE Abandon(q)
    <2>1. /\ pc[q] # "idle" /\ Return(q) /\ UNCHANGED rows
          /\ lost' = lost \union {w \in {job[q].worker} : Drives(q, w)}
      BY <1>3 DEF Abandon
    <2> QED BY <2>1, LeaveDrives
  <1>4. CASE SaveAnswered(q)
    <2> DEFINE row == [job[q].copy EXCEPT !.status = "executor_active"]
    <2>1. row \in RowType /\ row.status = "executor_active" /\ row.turn = job[q].copy.turn
      <3>1. row \in RowType /\ row.status = "executor_active"
        BY StatusSaved DEF Statuses
      <3>2. row.turn = job[q].copy.turn
        BY HeldTypes DEF RowType
      <3> QED BY <3>1, <3>2
    <2>2. /\ pc[q] = "answered" /\ Save(q, row) /\ UNCHANGED lost
          /\ Return(q) \/ (Goto(q, "list") /\ UNCHANGED job)
      BY <1>4 DEF SaveAnswered
    <2> HIDE DEF row
    <2>3. row.turn # 0
      BY <2>1, <2>2 DEF HeldDriven
    <2>4. Safe(row)
      BY <2>1, <2>3 DEF Safe, Continuable
    <2> QED BY <2>1, <2>2, <2>4, SaveDrives
  <1>5. CASE SaveControl(q)
    <2>1. /\ pc[q] = "note" /\ job[q].copy \in RowType
          /\ Save(q, job[q].copy) /\ Return(q) /\ UNCHANGED lost
      BY <1>5, HeldTypes DEF SaveControl
    <2>2. Safe(job[q].copy)
      BY <1>5
    <2> QED BY <2>1, <2>2, SaveDrives
  <1>6. CASE DeleteRow(q)
    <2>1. NoRow \in RowType /\ Safe(NoRow)
      BY EmptyRowType DEF NoRow, Safe, Active
    <2>2. /\ pc[q] # "idle" /\ rows' = [rows EXCEPT ![job[q].worker] = NoRow]
          /\ Return(q) /\ UNCHANGED lost
      BY <1>6 DEF DeleteRow
    <2> QED BY <2>1, <2>2, SaveDrives
  <1> QED BY <1>1, <1>2, <1>3, <1>4, <1>5, <1>6 DEF Approve, Interrupt, Steer, Kill, Remove

\* Only a cycle makes a worker pending or assigned, so what a kill notes is safe.
DrivenInv ==
  /\ RowsSound
  /\ \A w \in 1..MaxWorkers : rows[w].status \notin {"pending", "assigned"}
  /\ \A w \in (1..MaxWorkers) \ lost : Safe(rows[w]) \/ \E q \in Requests : Drives(q, w)
  /\ \A q \in Requests : HeldDriven(q) /\ (pc[q] = "note" => Safe(job[q].copy))

LEMMA StepKeepsDriven ==
  ASSUME DrivenInv, NEW q \in Requests, DriveStep(q), pc'[q] = "note" => Safe(job[q].copy)'
  PROVE  DrivenInv'
  <1>1. RowsSound' /\ \A w \in 1..MaxWorkers : rows'[w].status \notin {"pending", "assigned"}
    BY DEF DrivenInv, RowsSound, Sound, DriveStep
  <1>2. ASSUME NEW w \in (1..MaxWorkers) \ lost', ~Safe(rows[w])'
        PROVE  \E r \in Requests : Drives(r, w)'
    <2>1. CASE Drives(q, w)'
      BY <2>1
    <2>2. CASE ~Drives(q, w)'
      <3>1. rows'[w] = rows[w] /\ ~Drives(q, w)
        BY <1>2, <2>2 DEF DriveStep
      <3>2. ~Safe(rows[w])
        BY <1>2, <3>1 DEF Safe, Continuable
      <3>3. PICK r \in Requests : Drives(r, w)
        BY <3>2 DEF DrivenInv, DriveStep
      <3>4. r # q
        BY <3>1, <3>3
      <3> QED BY <3>3, <3>4 DEF Drives, DriveStep
    <2> QED BY <2>1, <2>2
  <1>3. \A r \in Requests : HeldDriven(r)' /\ (pc'[r] = "note" => Safe(job[r].copy)')
    <2>1. ASSUME NEW r \in Requests, r # q
          PROVE  HeldDriven(r)' /\ (pc'[r] = "note" => Safe(job[r].copy)')
      <3>1. /\ pc'[r] = pc[r] /\ job'[r] = job[r] /\ HeldDriven(r)
            /\ pc[r] = "note" => Safe(job[r].copy)
        BY <2>1 DEF DrivenInv, DriveStep
      <3> QED BY <3>1 DEF HeldDriven, Safe, Continuable
    <2> QED BY <2>1 DEF DriveStep
  <1> QED BY <1>1, <1>2, <1>3 DEF DrivenInv

\* A kill reads a row with a turn, the others one that can be controlled.
LEMMA NotesAreSafe ==
  ASSUME TypeInv, DrivenInv, NEW q \in Requests,
         \/ Create(q) \/ Dispatch(q) \/ ReadForContinue(q) \/ Approve(q) \/ Interrupt(q)
         \/ Steer(q) \/ Kill(q) \/ Remove(q) \/ Abandon(q),
         pc'[q] = "note"
  PROVE  Safe(job[q].copy)'
  <1>1. CASE ReadForKill(q)
    <2>1. PICK w \in 1..created : Read(q, w) /\ rows[w].turn # 0
      BY <1>1 DEF ReadForKill
    <2> DEFINE j == [worker |-> w, copy |-> rows[w], turn |-> 0]
    <2>2. job' = [job EXCEPT ![q] = j]
      BY <2>1, NewJob DEF Read
    <2>3. job'[q].copy = rows[w]
      BY <2>2 DEF TypeInv
    <2>4. w \in 1..MaxWorkers
      BY TableTypes, RegistryAssumption
    <2>5. Safe(rows[w])
      BY <2>1, <2>4 DEF DrivenInv, RowsSound, Sound, Safe, Active, Continuable
    <2> QED BY <2>3, <2>5 DEF Safe, Continuable
  <1>2. CASE InterruptTurn(q) \/ SteerTurn(q)
    <2>1. job' = job /\ pc[q] \in {"interrupt", "steer"}
      BY <1>2 DEF InterruptTurn, SteerTurn, Return, Goto, TypeInv
    <2>2. Safe(job[q].copy)
      BY <2>1 DEF DrivenInv, HeldDriven
    <2> QED BY <2>1, <2>2 DEF Safe, Continuable
  <1>3. CASE ~ReadForKill(q) /\ ~InterruptTurn(q) /\ ~SteerTurn(q)
    <2>1. \E place \in Places \ {"note"} : Goto(q, place)
      BY <1>3 DEF Create, Dispatch, Approve, Interrupt, Steer, Kill, Remove, Abandon, Return, 
         InsertRow, AddWorktree, UndoRow, SaveCreated, ReadForDispatch, Activate,
         ClientUnavailable, StartTurn, StartFails, TurnReturns, SaveResult, ReadForContinue,
         ReadForAnswer, Answer, SaveAnswered, ListForReason, SaveReason, ReadForInterrupt,
         ReadForSteer, SaveControl, ReadForRemoval, RemoveWorktree, DeleteRow, Places
    <2> QED BY <2>1 DEF Goto, TypeInv
  <1> QED BY <1>1, <1>2, <1>3

\* A worker that counts as active is driven by a request, or a cycle can continue
\* its turn (IsWorkerActive, hasContinuableWorkerTurn), unless a request that
\* drove it ended early.
THEOREM ActiveWorkersAreDriven == Spec => []ActiveIsDriven
  <1>1. Init => DrivenInv
    BY DEF Init, NoRow, NoJob, DrivenInv, RowsSound, Sound, Safe, Active, HeldDriven
  <1>2. TypeInv /\ DrivenInv /\ [Next]_vars => DrivenInv'
    <2>1. ASSUME DrivenInv, UNCHANGED <<rows, pc, job, lost>>
          PROVE  DrivenInv'
      BY <2>1 DEF DrivenInv, RowsSound, Sound, Safe, Continuable, Drives, HeldDriven
    <2>2. ASSUME UNCHANGED vars \/ \E t \in 1..MaxTurns : TurnAdvances(t)
          PROVE  UNCHANGED <<rows, pc, job, lost>>
      BY <2>2 DEF TurnAdvances, vars
    <2>3. ASSUME TypeInv, DrivenInv, NEW q \in Requests,
                 \/ Create(q) \/ Dispatch(q) \/ ReadForContinue(q) \/ Approve(q) \/ Interrupt(q)
                 \/ Steer(q) \/ Kill(q) \/ Remove(q) \/ Abandon(q)
          PROVE  DrivenInv'
      <3>1. RowsSound /\ HeldDriven(q) /\ (pc[q] = "note" => Safe(job[q].copy))
        BY <2>3 DEF DrivenInv
      <3>2. SaveControl(q) => Safe(job[q].copy)
        BY <3>1 DEF SaveControl
      <3>4. DriveStep(q)
        BY <2>3, <3>1, <3>2, CreateDrives, DispatchDrives, CommandsDrive
      <3>3. pc'[q] = "note" => Safe(job[q].copy)'
        BY <2>3, NotesAreSafe
      <3> QED BY <2>3, <3>3, <3>4, StepKeepsDriven
    <2> QED BY Zenon, <2>1, <2>2, <2>3 DEF Next
  <1>3. TypeInv /\ DrivenInv => ActiveIsDriven
    <2> SUFFICES ASSUME TypeInv, DrivenInv, NEW w \in (1..created) \ lost,
                        Active(rows[w].status), ~Continuable(rows[w])
                 PROVE  \E q \in Requests : Drives(q, w)
      BY DEF ActiveIsDriven
    <2>1. w \in (1..MaxWorkers) \ lost
      BY TableTypes, RegistryAssumption
    <2>2. ~Safe(rows[w])
      BY DEF Safe
    <2> QED BY <2>1, <2>2 DEF DrivenInv
  <1> QED BY <1>1, <1>2, <1>3, TypeInvariant, PTL DEF Spec
=============================================================================

-------------------------- MODULE ControlRunsProofs --------------------------
(***************************************************************************)
(* What holds of ControlRuns for any number of backends and requests.      *)
(* The reservation of a backend is passed from the request that made it to *)
(* the loop it starts and is given back exactly once; the guard file of a  *)
(* living backend is the one of the loop that holds the reservation.       *)
(***************************************************************************)
EXTENDS ControlRuns, FiniteSetTheorems, TLAPS

\* The handlers that have a run: it was stored before they came to have it.
WithRun == {"attach", "guard", "session", "loop"}

TypeInv ==
  /\ TypeOK
  /\ \A h \in Handlers : pc[h] \in WithRun => job[h].run \in 1..runs
  /\ \A h \in Handlers : Holds(h) => job[h].session \in 1..sessions

-----------------------------------------------------------------------------
(* Types.                                                                  *)

LEMMA HandlerBackend ==
  ASSUME NEW h \in Handlers
  PROVE  h[1] \in Backends
  BY RunsAssumption

LEMMA EmptyTypes == NoGuard \in GuardType /\ NoJob \in JobType
  <1>1. NoGuard \in GuardType
    BY DEF NoGuard, GuardType
  <1> QED BY <1>1 DEF NoJob, JobType

\* The fields that the handlers set, one record at a time.
LEMMA ReservedType ==
  ASSUME NEW r \in BackendType, NEW s \in Nat
  PROVE  [r EXCEPT !.session = s, !.run = 0] \in BackendType
  BY DEF BackendType

LEMMA StartedType ==
  ASSUME NEW j \in JobType, NEW kind \in {"start", "continue"}, NEW s \in Nat
  PROVE  /\ [j EXCEPT !.kind = kind, !.session = s] \in JobType
         /\ [j EXCEPT !.kind = kind, !.session = s].session = s
  BY DEF JobType

LEMMA ResolvedType ==
  ASSUME NEW j \in JobType, NEW n \in Nat
  PROVE  /\ [j EXCEPT !.run = n, !.store = TRUE] \in JobType
         /\ [j EXCEPT !.run = n, !.store = TRUE].run = n
         /\ [j EXCEPT !.run = n, !.store = TRUE].session = j.session
  BY DEF JobType

\* finish and attachRunID change what a backend holds, if they change anything.
LEMMA ReleasedType ==
  ASSUME TypeOK, NEW h \in Handlers, NEW s
  PROVE  Released(h[1], s) \in [Backends -> BackendType]
  <1>1. [backend EXCEPT ![h[1]].session = 0, ![h[1]].run = 0]
          = [backend EXCEPT ![h[1]] = [backend[h[1]] EXCEPT !.session = 0, !.run = 0]]
    BY HandlerBackend DEF TypeOK
  <1> QED BY <1>1, HandlerBackend, ReservedType DEF Released, TypeOK

\* A handler that goes back to wait for requests.
LEMMA IdleTypes ==
  ASSUME TypeInv, NEW h \in Handlers, Goto(h, "idle"), job' = [job EXCEPT ![h] = NoJob],
         UNCHANGED <<runs, sessions>>
  PROVE  /\ pc' \in [Handlers -> Places]
         /\ job' \in [Handlers -> JobType]
         /\ \A g \in Handlers : pc'[g] \in WithRun => job'[g].run \in 1..runs'
         /\ \A g \in Handlers : Holds(g)' => job'[g].session \in 1..sessions'
  BY EmptyTypes DEF TypeInv, TypeOK, Goto, Places, WithRun, Holds

\* A handler that goes on with the run and the reservation it has.
LEMMA OnwardTypes ==
  ASSUME TypeInv, NEW h \in Handlers, Holds(h),
         NEW place \in Places, Goto(h, place),
         place \in WithRun => pc[h] \in WithRun,
         UNCHANGED <<job, runs, sessions>>
  PROVE  /\ pc' \in [Handlers -> Places]
         /\ job' \in [Handlers -> JobType]
         /\ \A g \in Handlers : pc'[g] \in WithRun => job'[g].run \in 1..runs'
         /\ \A g \in Handlers : Holds(g)' => job'[g].session \in 1..sessions'
  BY DEF TypeInv, TypeOK, Goto, Holds

LEMMA InitTypes == Init => TypeInv
  BY EmptyTypes DEF Init, TypeInv, TypeOK, BackendType, Places, WithRun, Holds

LEMMA LaunchTypes ==
  ASSUME TypeInv, NEW h \in Handlers, Reserve(h) \/ Launch(h)
  PROVE  TypeInv'
  <1> USE HandlerBackend
  <1>1. CASE Reserve(h)
    <2>1. PICK kind \in {"start", "continue"} :
            job' = [job EXCEPT ![h] = [NoJob EXCEPT !.kind = kind, !.session = sessions']]
      BY <1>1 DEF Reserve
    <2>2. sessions' = sessions + 1 /\ sessions \in Nat
      BY <1>1 DEF Reserve, TypeInv, TypeOK
    <2> DEFINE j == [NoJob EXCEPT !.kind = kind, !.session = sessions']
    <2>3. j \in JobType /\ j.session = sessions'
      <3>1. NoJob \in JobType /\ sessions' \in Nat
        BY <2>2, EmptyTypes
      <3> QED BY <3>1, StartedType
    <2>4. backend' \in [Backends -> BackendType]
      <3>1. backend' = [backend EXCEPT ![h[1]] = [backend[h[1]] EXCEPT !.session = sessions', !.run = 0]]
        BY <1>1 DEF Reserve, TypeInv, TypeOK
      <3>2. sessions' \in Nat /\ backend[h[1]] \in BackendType
        BY <2>2 DEF TypeInv, TypeOK
      <3> QED BY <3>1, <3>2, ReservedType DEF TypeInv, TypeOK
    <2> HIDE DEF j
    <2>5. job' \in [Handlers -> JobType] /\ \A g \in Handlers : g # h => job'[g] = job[g]
      BY <2>1, <2>3 DEF TypeInv, TypeOK, j
    <2>6. pc' \in [Handlers -> Places] /\ pc'[h] = "resolve"
          /\ \A g \in Handlers : g # h => pc'[g] = pc[g]
      BY <1>1 DEF Reserve, Goto, TypeInv, TypeOK, Places
    <2>7. \A g \in Handlers : Holds(g)' => job'[g].session \in 1..sessions'
      BY <2>1, <2>2, <2>3, <2>5, <2>6 DEF j, Holds, TypeInv, TypeOK
    <2>8. \A g \in Handlers : pc'[g] \in WithRun => job'[g].run \in 1..runs'
      BY <1>1, <2>5, <2>6 DEF Reserve, WithRun, TypeInv
    <2> QED BY <1>1, <2>2, <2>4, <2>5, <2>6, <2>7, <2>8 DEF Reserve, TypeInv, TypeOK
  <1>2. ASSUME NEW r \in 1..runs', ResolveRun(h, r), runs' \in Nat, runs <= runs'
        PROVE  TypeInv'
    <2> DEFINE j == [job[h] EXCEPT !.run = r, !.store = TRUE]
    <2>1. job' = [job EXCEPT ![h] = j]
      BY <1>2 DEF ResolveRun, TypeInv, TypeOK
    <2>2. j \in JobType /\ j.run = r /\ j.session = job[h].session
      <3>1. job[h] \in JobType /\ r \in Nat
        BY <1>2 DEF TypeInv, TypeOK
      <3> QED BY <3>1, ResolvedType
    <2> HIDE DEF j
    <2>3. job' \in [Handlers -> JobType] /\ job'[h] = j
          /\ \A g \in Handlers : g # h => job'[g] = job[g]
      BY <2>1, <2>2 DEF TypeInv, TypeOK
    <2>4. pc' \in [Handlers -> Places] /\ pc[h] = "resolve" /\ pc'[h] = "attach"
          /\ \A g \in Handlers : g # h => pc'[g] = pc[g]
      BY <1>2 DEF ResolveRun, Goto, TypeInv, TypeOK, Places
    <2>5. UNCHANGED <<backend, guard, completed, build, sessions, crashes, worked>>
      BY <1>2 DEF ResolveRun
    <2>6. \A g \in Handlers : Holds(g)' => job'[g].session \in 1..sessions'
      BY <2>2, <2>3, <2>4, <2>5 DEF Holds, TypeInv
    <2>7. \A g \in Handlers : pc'[g] \in WithRun => job'[g].run \in 1..runs'
      BY <1>2, <2>2, <2>3, <2>4 DEF WithRun, TypeInv, TypeOK
    <2> QED BY <1>2, <2>3, <2>4, <2>5, <2>6, <2>7 DEF TypeInv, TypeOK
  <1>3. CASE StartRun(h)
    BY <1>2, <1>3 DEF StartRun, TypeInv, TypeOK
  <1>4. CASE ContinueRun(h)
    BY <1>2, <1>4 DEF ContinueRun, TypeInv, TypeOK
  <1>5. CASE LaunchFails(h)
    BY <1>5, ReleasedType, IdleTypes DEF LaunchFails, TypeInv, TypeOK
  <1>6. CASE AttachRun(h)
    <2>1. backend' \in [Backends -> BackendType]
      <3>1. \A b \in BackendType, n \in Nat : [b EXCEPT !.run = n] \in BackendType
        BY DEF BackendType
      <3>2. job[h].run \in Nat
        BY DEF TypeInv, TypeOK, JobType
      <3> QED BY <1>6, <3>1, <3>2 DEF AttachRun, TypeInv, TypeOK
    <2>2. Holds(h) /\ "guard" \in Places /\ pc[h] \in WithRun
      BY <1>6 DEF AttachRun, Holds, Places, WithRun
    <2> QED BY <1>6, <2>1, <2>2, OnwardTypes DEF AttachRun, TypeInv, TypeOK
  <1>7. CASE WriteGuard(h)
    <2>1. guard' \in GuardType
      BY <1>7 DEF WriteGuard, TypeInv, TypeOK, GuardType, JobType, BackendType
    <2>2. Holds(h) /\ "session" \in Places /\ pc[h] \in WithRun
      BY <1>7 DEF WriteGuard, Holds, Places, WithRun
    <2> QED BY <1>7, <2>1, <2>2, OnwardTypes DEF WriteGuard, TypeInv, TypeOK
  <1>8. CASE StartBuildSession(h)
    <2>1. Holds(h) /\ "loop" \in Places /\ pc[h] \in WithRun
      BY <1>8 DEF StartBuildSession, Holds, Places, WithRun
    <2>2. job[h].session \in 0..sessions
      BY <2>1 DEF TypeInv, TypeOK
    <2>3. build' \in [total : SUBSET (1..sessions), start : 0..sessions]
      BY <1>8, <2>2 DEF StartBuildSession, TypeInv, TypeOK
    <2> QED BY <1>8, <2>1, <2>3, OnwardTypes DEF StartBuildSession, TypeInv, TypeOK
  <1> QED BY <1>1, <1>3, <1>4, <1>5, <1>6, <1>7, <1>8 DEF Launch

LEMMA WindTypes ==
  ASSUME TypeInv, NEW h \in Handlers, LoopReturns(h) \/ Wind(h)
  PROVE  TypeInv'
  <1>1. ASSUME Holds(h), NEW place \in Places \ WithRun, Goto(h, place),
               UNCHANGED <<job, runs, sessions>>
        PROVE  /\ pc' \in [Handlers -> Places]
               /\ job' \in [Handlers -> JobType]
               /\ \A g \in Handlers : pc'[g] \in WithRun => job'[g].run \in 1..runs'
               /\ \A g \in Handlers : Holds(g)' => job'[g].session \in 1..sessions'
    BY <1>1, OnwardTypes
  <1>2. {"close", "end", "unguard", "remove", "finish"} \subseteq Places \ WithRun
    BY DEF Places, WithRun
  <1>3. CASE LoopReturns(h)
    <2>1. pc[h] \in WithRun /\ Holds(h)
      BY <1>3 DEF LoopReturns, WithRun, Holds
    <2>2. completed' \subseteq 1..runs /\ worked' \subseteq 1..sessions
      BY <1>3, <2>1 DEF LoopReturns, TypeInv, TypeOK
    <2> QED BY <1>1, <1>2, <1>3, <2>1, <2>2 DEF LoopReturns, TypeInv, TypeOK
  <1>4. CASE CloseStore(h)
    <2> DEFINE j == [job[h] EXCEPT !.store = FALSE]
    <2>1. job' = [job EXCEPT ![h] = j]
      BY <1>4 DEF CloseStore
    <2>2. j \in JobType /\ j.session = job[h].session
      BY DEF TypeInv, TypeOK, JobType
    <2> HIDE DEF j
    <2>3. job' \in [Handlers -> JobType] /\ job'[h] = j
          /\ \A g \in Handlers : g # h => job'[g] = job[g]
      BY <2>1, <2>2 DEF TypeInv, TypeOK
    <2>4. pc' \in [Handlers -> Places] /\ pc[h] = "close" /\ pc'[h] = "end"
          /\ \A g \in Handlers : g # h => pc'[g] = pc[g]
      BY <1>4 DEF CloseStore, Goto, TypeInv, TypeOK, Places
    <2>5. UNCHANGED <<backend, guard, runs, completed, build, sessions, crashes, worked>>
      BY <1>4 DEF CloseStore
    <2>6. \A g \in Handlers : Holds(g)' => job'[g].session \in 1..sessions'
      BY <2>2, <2>3, <2>4, <2>5 DEF Holds, TypeInv
    <2>7. \A g \in Handlers : pc'[g] \in WithRun => job'[g].run \in 1..runs'
      BY <2>3, <2>4, <2>5 DEF WithRun, TypeInv
    <2> QED BY <2>3, <2>4, <2>5, <2>6, <2>7 DEF TypeInv, TypeOK
  <1>5. CASE EndBuildSession(h)
    <2>1. build' \in [total : SUBSET (1..sessions), start : 0..sessions]
      <3>1. build.total \union (build.start..sessions) \subseteq 1..sessions
              \/ build.start = 0
        BY DEF TypeInv, TypeOK
      <3>2. 0 \in 0..sessions
        BY DEF TypeInv, TypeOK
      <3> QED BY <1>5, <3>1, <3>2 DEF EndBuildSession, TypeInv, TypeOK
    <2>2. Holds(h)
      BY <1>5 DEF EndBuildSession, Holds
    <2> QED BY <1>1, <1>2, <1>5, <2>1, <2>2 DEF EndBuildSession, TypeInv, TypeOK
  <1>6. CASE ReadOwnGuard(h)
    <2>1. Holds(h)
      BY <1>6 DEF ReadOwnGuard, Holds
    <2> QED BY <1>1, <1>2, <1>6, <2>1 DEF ReadOwnGuard, TypeInv, TypeOK
  <1>7. CASE RemoveOwnGuard(h)
    <2>1. Holds(h)
      BY <1>7 DEF RemoveOwnGuard, Holds
    <2> QED BY <1>1, <1>2, <1>7, <2>1, EmptyTypes DEF RemoveOwnGuard, TypeInv, TypeOK
  <1>8. CASE Finish(h)
    BY <1>8, ReleasedType, IdleTypes DEF Finish, TypeInv, TypeOK
  <1> QED BY <1>3, <1>4, <1>5, <1>6, <1>7, <1>8 DEF Wind

LEMMA RecoverTypes ==
  ASSUME TypeInv, NEW h \in Handlers, BeginRecovery(h) \/ Recover(h)
  PROVE  TypeInv'
  <1>1. CASE BeginRecovery(h)
    <2> DEFINE j == [NoJob EXCEPT !.kind = "recover"]
    <2>1. j \in JobType
      BY EmptyTypes DEF JobType
    <2>2. job' = [job EXCEPT ![h] = j]
      BY <1>1 DEF BeginRecovery
    <2> HIDE DEF j
    <2> QED BY <1>1, <2>1, <2>2 DEF BeginRecovery, Goto, TypeInv, TypeOK, Places,
                                    WithRun, Holds
  <1>2. CASE InspectGuard(h)
    <2>1. PICK r \in 0..runs : job' = [job EXCEPT ![h] = [job[h] EXCEPT !.seen = guard, !.run = r]]
      BY <1>2 DEF InspectGuard, TypeInv, TypeOK
    <2> DEFINE j == [job[h] EXCEPT !.seen = guard, !.run = r]
    <2>2. j \in JobType
      <3>1. \A i \in JobType, g \in GuardType, n \in Nat :
              [i EXCEPT !.seen = g, !.run = n] \in JobType
        BY DEF JobType
      <3>2. job[h] \in JobType /\ guard \in GuardType /\ r \in Nat
        BY DEF TypeInv, TypeOK
      <3> QED BY <3>1, <3>2, Zenon
    <2> HIDE DEF j
    <2> QED BY <1>2, <2>1, <2>2 DEF InspectGuard, Goto, TypeInv, TypeOK, Places,
                                    WithRun, Holds, j
  <1>3. CASE RecoverRun(h)
    BY <1>3, IdleTypes, EmptyTypes DEF RecoverRun, TypeInv, TypeOK
  <1> QED BY <1>1, <1>2, <1>3 DEF Recover

LEMMA ProcessTypes ==
  ASSUME TypeInv, NEW b \in Backends, Crash(b) \/ Restart(b)
  PROVE  TypeInv'
  <1>1. CASE Crash(b)
    <2>1. backend' \in [Backends -> BackendType]
      <3>1. \A r \in BackendType :
              [r EXCEPT !.up = FALSE, !.session = 0, !.run = 0] \in BackendType
        BY DEF BackendType
      <3>2. backend' = [backend EXCEPT ![b] =
                          [backend[b] EXCEPT !.up = FALSE, !.session = 0, !.run = 0]]
        BY <1>1 DEF Crash, TypeInv, TypeOK
      <3> QED BY <3>1, <3>2 DEF TypeInv, TypeOK
    <2> QED BY <1>1, <2>1, EmptyTypes DEF Crash, TypeInv, TypeOK, Places, WithRun, Holds
  <1>2. CASE Restart(b)
    <2>1. backend' \in [Backends -> BackendType]
      <3>1. \A r \in BackendType, n \in Nat : [r EXCEPT !.up = TRUE, !.epoch = n] \in BackendType
        BY DEF BackendType
      <3>2. backend' = [backend EXCEPT ![b] =
                          [backend[b] EXCEPT !.up = TRUE, !.epoch = backend[b].epoch + 1]]
        BY <1>2 DEF Restart, TypeInv, TypeOK
      <3>3. backend[b].epoch + 1 \in Nat
        BY DEF TypeInv, TypeOK, BackendType
      <3> QED BY <3>1, <3>2, <3>3 DEF TypeInv, TypeOK
    <2> QED BY <1>2, <2>1 DEF Restart, TypeInv, TypeOK, Holds
  <1> QED BY <1>1, <1>2

LEMMA TypeInvariant == Spec => []TypeInv
  <1>1. TypeInv /\ [Next]_vars => TypeInv'
    <2> SUFFICES ASSUME TypeInv, [Next]_vars PROVE TypeInv'
      OBVIOUS
    <2>1. CASE UNCHANGED vars
      BY <2>1 DEF vars, TypeInv, TypeOK, Holds
    <2> QED BY <2>1, LaunchTypes, WindTypes, RecoverTypes, ProcessTypes DEF Next
  <1> QED BY <1>1, InitTypes, PTL DEF Spec

\* The reservations, the guard file and the rows keep their shape: a loop only
\* ever runs a run that is stored, and only stored runs are completed.
THEOREM TypeCorrect == Spec => []TypeOK
  <1>1. TypeInv => TypeOK
    BY DEF TypeInv
  <1> QED BY <1>1, TypeInvariant, PTL

-----------------------------------------------------------------------------
(* The reservation.  It is taken with the mutex held, so one request has   *)
(* it; that request, and then its loop, is the only one to give it back.   *)

ReservationInv ==
  /\ \A h \in Handlers : Holds(h) => /\ backend[h[1]].up
                                     /\ backend[h[1]].session = job[h].session
  /\ \A g, h \in Handlers : Holds(g) /\ Holds(h) /\ g[1] = h[1] => g = h
  /\ \A b \in Backends : backend[b].session # 0 =>
       \E h \in Handlers : h[1] = b /\ Holds(h)

\* A step that hands the reservations on as they are.
HandsOn ==
  /\ \A h \in Handlers : /\ Holds(h)' <=> Holds(h)
                         /\ Holds(h) => job'[h].session = job[h].session
  /\ \A b \in Backends : /\ backend'[b].session = backend[b].session
                         /\ backend[b].up => backend'[b].up

LEMMA HandsOnKeeps ==
  ASSUME TypeInv, ReservationInv, HandsOn
  PROVE  ReservationInv'
  BY HandlerBackend DEF ReservationInv, HandsOn

\* Between reserve and finish, and in recoveries, the reservations are handed on.
LEMMA WorkHandsOn ==
  ASSUME TypeInv, NEW h \in Handlers,
         \/ StartRun(h) \/ ContinueRun(h) \/ AttachRun(h) \/ WriteGuard(h)
         \/ StartBuildSession(h) \/ LoopReturns(h) \/ CloseStore(h)
         \/ EndBuildSession(h) \/ ReadOwnGuard(h) \/ RemoveOwnGuard(h)
         \/ BeginRecovery(h) \/ Recover(h)
  PROVE  HandsOn
  <1> USE HandlerBackend
  <1>1. ASSUME NEW place, Goto(h, place),
               Holds(h) <=> place \notin {"idle", "inspect", "recover"},
               Holds(h) => job'[h].session = job[h].session,
               \A g \in Handlers \ {h} : job'[g] = job[g],
               \A b \in Backends : /\ backend'[b].session = backend[b].session
                                   /\ backend'[b].up = backend[b].up
        PROVE  HandsOn
    BY <1>1 DEF HandsOn, Goto, Holds, TypeInv, TypeOK
  <1>2. CASE StartRun(h) \/ ContinueRun(h)
    <2>1. PICK r : ResolveRun(h, r)
      BY <1>2 DEF StartRun, ContinueRun
    <2>2. job'[h].session = job[h].session /\ \A g \in Handlers \ {h} : job'[g] = job[g]
      BY <2>1 DEF ResolveRun, TypeInv, TypeOK, JobType
    <2> QED BY <1>1, <2>1, <2>2 DEF ResolveRun, Holds
  <1>3. CASE AttachRun(h)
    <2>1. \A b \in Backends : /\ backend'[b].session = backend[b].session
                              /\ backend'[b].up = backend[b].up
      BY <1>3 DEF AttachRun, TypeInv, TypeOK, BackendType
    <2> QED BY <1>1, <1>3, <2>1 DEF AttachRun, Holds
  <1>4. CASE \/ WriteGuard(h) \/ StartBuildSession(h) \/ LoopReturns(h)
             \/ EndBuildSession(h) \/ ReadOwnGuard(h) \/ RemoveOwnGuard(h)
    BY <1>1, <1>4 DEF WriteGuard, StartBuildSession, LoopReturns, EndBuildSession,
       ReadOwnGuard, RemoveOwnGuard, Holds
  <1>5. CASE CloseStore(h)
    <2>1. job'[h].session = job[h].session /\ \A g \in Handlers \ {h} : job'[g] = job[g]
      BY <1>5 DEF CloseStore, TypeInv, TypeOK, JobType
    <2> QED BY <1>1, <1>5, <2>1 DEF CloseStore, Holds
  <1>6. CASE BeginRecovery(h)
    BY <1>1, <1>6 DEF BeginRecovery, Holds, TypeInv, TypeOK
  <1>7. CASE Recover(h)
    BY <1>1, <1>7 DEF Recover, InspectGuard, RecoverRun, Holds, TypeInv, TypeOK
  <1> QED BY <1>2, <1>3, <1>4, <1>5, <1>6, <1>7

\* reserve is refused while the backend has a loop.
LEMMA ReserveKeeps ==
  ASSUME TypeInv, ReservationInv, NEW h \in Handlers, Reserve(h)
  PROVE  ReservationInv'
  <1> USE HandlerBackend
  <1>1. \A g \in Handlers : Holds(g) => g[1] # h[1]
    <2>1. backend[h[1]].session = 0
      BY DEF Reserve
    <2> QED BY <2>1 DEF ReservationInv, TypeInv
  <1>2. /\ Holds(h)' /\ ~Holds(h)
        /\ \A g \in Handlers \ {h} : /\ Holds(g)' <=> Holds(g)
                                     /\ job'[g] = job[g]
    BY DEF Reserve, Goto, Holds, TypeInv, TypeOK
  <1>3. job'[h].session = sessions'
    <2>1. PICK kind \in {"start", "continue"} :
            job' = [job EXCEPT ![h] = [NoJob EXCEPT !.kind = kind, !.session = sessions']]
      BY DEF Reserve
    <2>2. NoJob \in JobType /\ sessions' \in Nat
      BY EmptyTypes DEF Reserve, TypeInv, TypeOK
    <2>3. [NoJob EXCEPT !.kind = kind, !.session = sessions'].session = sessions'
      BY <2>2, StartedType
    <2> QED BY <2>1, <2>3 DEF TypeInv, TypeOK
  <1>4. /\ backend'[h[1]].session = sessions' /\ backend'[h[1]].up
        /\ \A b \in Backends \ {h[1]} : backend'[b] = backend[b]
    BY DEF Reserve, TypeInv, TypeOK, BackendType
  <1>5. \A g \in Handlers : Holds(g)' => /\ backend'[g[1]].up
                                         /\ backend'[g[1]].session = job'[g].session
    BY <1>1, <1>2, <1>3, <1>4 DEF ReservationInv
  <1>6. \A f, g \in Handlers : Holds(f)' /\ Holds(g)' /\ f[1] = g[1] => f = g
    BY <1>1, <1>2 DEF ReservationInv
  <1>7. \A b \in Backends : backend'[b].session # 0 =>
          \E g \in Handlers : g[1] = b /\ Holds(g)'
    BY <1>2, <1>4 DEF ReservationInv
  <1> QED BY <1>5, <1>6, <1>7 DEF ReservationInv

\* finish, and the start that fails, give back what the handler itself holds.
LEMMA GiveBackKeeps ==
  ASSUME TypeInv, ReservationInv, NEW h \in Handlers, LaunchFails(h) \/ Finish(h)
  PROVE  ReservationInv'
  <1> USE HandlerBackend
  <1>1. Holds(h) /\ ~Holds(h)'
        /\ \A g \in Handlers \ {h} : /\ Holds(g)' <=> Holds(g)
                                     /\ job'[g] = job[g]
    BY DEF LaunchFails, Finish, Goto, Holds, TypeInv, TypeOK
  <1>2. backend[h[1]].session = job[h].session
    BY <1>1 DEF ReservationInv
  <1>3. /\ backend'[h[1]].session = 0
        /\ \A b \in Backends \ {h[1]} : backend'[b] = backend[b]
    BY <1>2 DEF LaunchFails, Finish, Released, TypeInv, TypeOK, BackendType
  <1>4. \A g \in Handlers \ {h} : Holds(g) => g[1] # h[1]
    BY <1>1 DEF ReservationInv
  <1>5. \A b \in Backends : backend'[b].session # 0 =>
          \E g \in Handlers : g[1] = b /\ Holds(g)'
    BY <1>1, <1>3 DEF ReservationInv
  <1> QED BY <1>1, <1>3, <1>4, <1>5 DEF ReservationInv

\* A backend that dies takes its reservation and its requests with it.
LEMMA CrashKeeps ==
  ASSUME TypeInv, ReservationInv, NEW b \in Backends, Crash(b)
  PROVE  ReservationInv'
  <1> USE HandlerBackend
  <1>1. \A g \in Handlers : /\ Holds(g)' <=> Holds(g) /\ g[1] # b
                            /\ g[1] # b => job'[g] = job[g]
    BY DEF Crash, Holds, TypeInv, TypeOK
  <1>2. backend'[b].session = 0 /\ \A c \in Backends \ {b} : backend'[c] = backend[c]
    BY DEF Crash, TypeInv, TypeOK, BackendType
  <1>3. ASSUME NEW c \in Backends, backend'[c].session # 0
        PROVE  \E g \in Handlers : g[1] = c /\ Holds(g)'
    <2>1. c # b /\ backend[c].session # 0
      BY <1>2, <1>3
    <2>2. PICK g \in Handlers : g[1] = c /\ Holds(g)
      BY <2>1 DEF ReservationInv
    <2> QED BY <1>1, <2>1, <2>2
  <1>4. ASSUME NEW g \in Handlers, Holds(g)'
        PROVE  backend'[g[1]].up /\ backend'[g[1]].session = job'[g].session
    <2>1. Holds(g) /\ g[1] # b /\ g[1] \in Backends /\ job'[g] = job[g]
      BY <1>1, <1>4
    <2> QED BY <1>2, <2>1 DEF ReservationInv
  <1>5. ASSUME NEW f \in Handlers, NEW g \in Handlers, Holds(f)', Holds(g)', f[1] = g[1]
        PROVE  f = g
    BY <1>1, <1>5 DEF ReservationInv
  <1> QED BY <1>3, <1>4, <1>5 DEF ReservationInv

LEMMA ReservationInvariant == Spec => []ReservationInv
  <1>1. Init => ReservationInv
    BY DEF Init, ReservationInv, Holds
  <1>2. TypeInv /\ ReservationInv /\ [Next]_vars => ReservationInv'
    <2> SUFFICES ASSUME TypeInv, ReservationInv, [Next]_vars PROVE ReservationInv'
      OBVIOUS
    <2>1. CASE UNCHANGED vars
      <3>1. HandsOn
        BY <2>1 DEF vars, HandsOn, Holds
      <3> QED BY <3>1, HandsOnKeeps
    <2>2. ASSUME NEW b \in Backends, Restart(b) PROVE ReservationInv'
      <3>1. HandsOn
        BY <2>2 DEF Restart, HandsOn, Holds, TypeInv, TypeOK, BackendType
      <3> QED BY <3>1, HandsOnKeeps
    <2>3. ASSUME NEW h \in Handlers,
                 \/ Reserve(h) \/ Launch(h) \/ LoopReturns(h)
                 \/ Wind(h) \/ BeginRecovery(h) \/ Recover(h)
          PROVE  ReservationInv'
      BY <2>3, WorkHandsOn, HandsOnKeeps, ReserveKeeps, GiveBackKeeps DEF Launch, Wind
    <2> QED BY <2>1, <2>2, <2>3, CrashKeeps DEF Next
  <1> QED BY <1>1, <1>2, TypeInvariant, PTL DEF Spec

\* A set without two different elements has at most one.
LEMMA AtMostOne ==
  ASSUME NEW S, \A x, y \in S : x = y
  PROVE  Cardinality(S) <= 1
  <1>1. CASE S = {}
    BY <1>1, FS_EmptySet
  <1>2. ASSUME NEW x \in S PROVE Cardinality(S) <= 1
    <2>1. S = {x}
      OBVIOUS
    <2> QED BY <2>1, FS_Singleton
  <1> QED BY <1>1, <1>2

\* However requests of a backend interleave, fail or die with it, the reservation
\* has exactly one holder while it stands, and none when it is gone.
THEOREM ReservationIsHeld == Spec => []ReservationHeld
  <1>1. TypeInv /\ ReservationInv => ReservationHeld
    <2> SUFFICES ASSUME TypeInv, ReservationInv, NEW b \in Backends
                 PROVE  LET holders == {h \in Handlers : h[1] = b /\ Holds(h)} IN
                          /\ Cardinality(holders) <= 1
                          /\ backend[b].session # 0 <=> holders # {}
                          /\ \A h \in holders : backend[b].session = job[h].session
      BY DEF ReservationHeld
    <2> DEFINE holders == {h \in Handlers : h[1] = b /\ Holds(h)}
    <2>1. \A x, y \in holders : x = y
      BY DEF ReservationInv
    <2>2. Cardinality(holders) <= 1
      <3> HIDE DEF holders
      <3> QED BY <2>1, AtMostOne
    <2>3. \A h \in holders : backend[b].session = job[h].session /\ job[h].session # 0
      BY DEF ReservationInv, TypeInv
    <2>4. backend[b].session # 0 <=> holders # {}
      BY <2>3 DEF ReservationInv
    <2> QED BY <2>2, <2>3, <2>4
  <1> QED BY <1>1, TypeInvariant, ReservationInvariant, PTL

-----------------------------------------------------------------------------
(* The guard file.  Of the backend that wrote it, while that process lives, *)
(* nobody but the holder of the reservation can have written it.            *)

GuardInv ==
  /\ guard # NoGuard => /\ guard.backend \in Backends
                        /\ guard.epoch <= backend[guard.backend].epoch
  /\ GuardOwned
  /\ \A h \in Handlers : pc[h] = "remove" =>
       \/ guard = NoGuard
       \/ guard.session = job[h].session
       \/ guard.backend # h[1]

\* Where a loop is whose guard has been written and not yet removed.
Guarded == {"session", "loop", "close", "end", "unguard", "remove"}

\* A step that leaves or deletes the guard, and lets no loop slip away from it.
LEMMA GuardStays ==
  ASSUME TypeInv, GuardInv,
         guard' = guard \/ guard' = NoGuard,
         \A b \in Backends : /\ backend'[b].epoch = backend[b].epoch
                             /\ backend'[b].up => backend[b].up,
         guard' # NoGuard =>
           \A g \in Handlers : pc[g] \in Guarded /\ job[g].session = guard.session =>
             pc'[g] \in Guarded /\ job'[g].session = job[g].session,
         \A g \in Handlers : pc'[g] = "remove" =>
           \/ job'[g].session = guard.session
           \/ pc[g] = "remove" /\ job'[g].session = job[g].session
  PROVE  GuardInv'
  <1>1. CASE guard' = NoGuard
    BY <1>1 DEF GuardInv, GuardOwned
  <1>2. CASE guard' = guard /\ guard # NoGuard
    <2>1. /\ guard.backend \in Backends
          /\ guard.epoch <= backend'[guard.backend].epoch
      BY <1>2 DEF GuardInv
    <2>2. GuardOwned'
      <3>1. SUFFICES ASSUME backend'[guard.backend].up, ~Stale(guard.backend, guard)'
                     PROVE  \E h \in Handlers :
                              /\ h[1] = guard.backend /\ job'[h].session = guard.session
                              /\ pc'[h] \in Guarded
        BY <1>2 DEF GuardOwned, Guarded
      <3>2. backend[guard.backend].up /\ ~Stale(guard.backend, guard)
        BY <1>2, <2>1, <3>1 DEF Stale
      <3>3. PICK h \in Handlers : /\ h[1] = guard.backend /\ job[h].session = guard.session
                                  /\ pc[h] \in Guarded
        BY <1>2, <3>2 DEF GuardInv, GuardOwned, Guarded
      <3> QED BY <1>2, <3>3
    <2> QED BY <1>2, <2>1, <2>2 DEF GuardInv
  <1> QED BY <1>1, <1>2

LEMMA LoopKeepsGuard ==
  ASSUME TypeInv, ReservationInv, GuardInv, NEW h \in Handlers,
         \/ Reserve(h) \/ Launch(h) \/ LoopReturns(h)
         \/ Wind(h) \/ BeginRecovery(h) \/ Recover(h)
  PROVE  GuardInv'
  <1> USE HandlerBackend
  <1>1. ASSUME guard' = guard \/ guard' = NoGuard,
               NEW place, Goto(h, place),
               \A g \in Handlers \ {h} : job'[g] = job[g],
               pc[h] \in Guarded /\ guard' # NoGuard =>
                 \/ guard.session # job[h].session
                 \/ place \in Guarded /\ job'[h].session = job[h].session,
               place = "remove" => job'[h].session = guard.session,
               \A b \in Backends : /\ backend'[b].epoch = backend[b].epoch
                                   /\ backend'[b].up = backend[b].up
        PROVE  GuardInv'
    <2>1. pc'[h] = place /\ \A g \in Handlers \ {h} : pc'[g] = pc[g]
      BY <1>1 DEF Goto, TypeInv, TypeOK
    <2>2. guard' # NoGuard =>
            \A g \in Handlers : pc[g] \in Guarded /\ job[g].session = guard.session =>
              pc'[g] \in Guarded /\ job'[g].session = job[g].session
      BY <1>1, <2>1
    <2>3. \A g \in Handlers : pc'[g] = "remove" =>
            \/ job'[g].session = guard.session
            \/ pc[g] = "remove" /\ job'[g].session = job[g].session
      BY <1>1, <2>1
    <2> QED BY <1>1, <2>2, <2>3, GuardStays
  <1>2. \A s : \A b \in Backends : /\ Released(h[1], s)[b].epoch = backend[b].epoch
                                   /\ Released(h[1], s)[b].up = backend[b].up
    BY DEF Released, TypeInv, TypeOK, BackendType
  <1>3. CASE Reserve(h)
    <2>1. \A b \in Backends : /\ backend'[b].epoch = backend[b].epoch
                              /\ backend'[b].up = backend[b].up
      BY <1>3 DEF Reserve, TypeInv, TypeOK, BackendType
    <2>2. \A g \in Handlers \ {h} : job'[g] = job[g]
      BY <1>3 DEF Reserve, TypeInv, TypeOK
    <2> QED BY <1>1, <1>3, <2>1, <2>2 DEF Reserve, Guarded
  <1>4. CASE StartRun(h) \/ ContinueRun(h)
    <2>1. PICK r : ResolveRun(h, r)
      BY <1>4 DEF StartRun, ContinueRun
    <2>2. \A g \in Handlers \ {h} : job'[g] = job[g]
      BY <2>1 DEF ResolveRun, TypeInv, TypeOK
    <2> QED BY <1>1, <2>1, <2>2 DEF ResolveRun, Guarded
  <1>5. CASE LaunchFails(h) \/ Finish(h)
    <2>1. \A g \in Handlers \ {h} : job'[g] = job[g]
      BY <1>5 DEF LaunchFails, Finish, TypeInv, TypeOK
    <2> QED BY <1>1, <1>2, <1>5, <2>1 DEF LaunchFails, Finish, Guarded
  <1>6. CASE AttachRun(h)
    <2>1. \A b \in Backends : /\ backend'[b].epoch = backend[b].epoch
                              /\ backend'[b].up = backend[b].up
      BY <1>6 DEF AttachRun, TypeInv, TypeOK, BackendType
    <2> QED BY <1>1, <1>6, <2>1 DEF AttachRun, Guarded
  <1>7. CASE StartBuildSession(h) \/ LoopReturns(h) \/ EndBuildSession(h) \/ ReadOwnGuard(h)
    BY <1>1, <1>7 DEF StartBuildSession, LoopReturns, EndBuildSession, ReadOwnGuard, Guarded
  <1>8. CASE CloseStore(h)
    <2>1. job'[h].session = job[h].session /\ \A g \in Handlers \ {h} : job'[g] = job[g]
      BY <1>8 DEF CloseStore, TypeInv, TypeOK, JobType
    <2> QED BY <1>1, <1>8, <2>1 DEF CloseStore, Guarded
  <1>9. CASE RemoveOwnGuard(h)
    BY <1>1, <1>9 DEF RemoveOwnGuard, GuardInv, Guarded
  <1>10. CASE BeginRecovery(h) \/ Recover(h)
    <2>1. \A g \in Handlers \ {h} : job'[g] = job[g]
      BY <1>10 DEF BeginRecovery, Recover, InspectGuard, RecoverRun, TypeInv, TypeOK
    <2> QED BY <1>1, <1>10, <2>1 DEF BeginRecovery, Recover, InspectGuard, RecoverRun, Guarded
  <1>11. CASE WriteGuard(h)
    <2>1. /\ guard'.session = job[h].session /\ guard'.backend = h[1]
          /\ guard'.epoch = backend[h[1]].epoch
          /\ UNCHANGED <<backend, job>>
      BY <1>11 DEF WriteGuard
    <2>2. pc[h] = "guard" /\ pc'[h] = "session" /\ \A g \in Handlers \ {h} : pc'[g] = pc[g]
      BY <1>11 DEF WriteGuard, Goto, TypeInv, TypeOK
    <2>3. GuardOwned'
      BY <2>1, <2>2 DEF GuardOwned
    <2>4. guard'.backend \in Backends /\ guard'.epoch <= backend'[guard'.backend].epoch
      BY <2>1 DEF TypeInv, TypeOK, BackendType
    <2>5. ASSUME NEW g \in Handlers, pc'[g] = "remove" PROVE guard'.backend # g[1]
      <3>1. g # h /\ pc[g] = "remove"
        BY <2>2, <2>5
      <3>2. Holds(g) /\ Holds(h)
        BY <2>2, <3>1 DEF Holds
      <3> QED BY <2>1, <3>1, <3>2 DEF ReservationInv
    <2> QED BY <2>3, <2>4, <2>5 DEF GuardInv
  <1> QED BY <1>3, <1>4, <1>5, <1>6, <1>7, <1>8, <1>9, <1>10, <1>11 DEF Launch, Wind

\* Guards of a process that dies become stale, and stay so.
LEMMA ProcessKeepsGuard ==
  ASSUME TypeInv, GuardInv, NEW b \in Backends, Crash(b) \/ Restart(b)
  PROVE  GuardInv'
  <1> USE HandlerBackend
  <1>1. guard' = guard
    BY DEF Crash, Restart
  <1>2. \A g \in Handlers : \/ pc'[g] = pc[g] /\ job'[g] = job[g]
                            \/ pc'[g] = "idle" /\ g[1] = b /\ ~backend'[b].up
    BY DEF Crash, Restart, TypeInv, TypeOK, BackendType
  <1>3. /\ \A c \in Backends \ {b} : backend'[c] = backend[c]
        /\ backend'[b].up => backend'[b].epoch = backend[b].epoch + 1
        /\ backend[b].epoch \in Nat /\ backend'[b].epoch >= backend[b].epoch
    BY DEF Crash, Restart, TypeInv, TypeOK, BackendType
  <1>4. GuardOwned'
    <2>1. CASE guard = NoGuard
      BY <1>1, <2>1 DEF GuardOwned
    <2>2. CASE guard # NoGuard /\ guard.backend # b
      <3>1. guard.backend \in Backends /\ backend'[guard.backend] = backend[guard.backend]
        BY <1>3, <2>2 DEF GuardInv
      <3> QED BY <1>1, <1>2, <2>2, <3>1 DEF GuardInv, GuardOwned, Stale
    <2>3. CASE guard # NoGuard /\ guard.backend = b
      <3>1. guard.epoch <= backend[b].epoch /\ guard.epoch \in Nat
        BY <2>3 DEF GuardInv, TypeInv, TypeOK, GuardType
      <3>2. backend'[b].up => guard.epoch # backend'[b].epoch
        BY <1>3, <3>1
      <3> QED BY <1>1, <2>3, <3>2 DEF GuardOwned, Stale
    <2> QED BY <2>1, <2>2, <2>3
  <1>5. guard # NoGuard => guard.backend \in Backends
                             /\ guard.epoch <= backend'[guard.backend].epoch
    <2>1. guard # NoGuard => guard.backend \in Backends
                               /\ guard.epoch <= backend[guard.backend].epoch
      BY DEF GuardInv
    <2>2. guard.epoch \in Nat
      BY DEF TypeInv, TypeOK, GuardType
    <2>3. backend'[b].epoch \in {backend[b].epoch, backend[b].epoch + 1}
      BY DEF Crash, Restart, TypeInv, TypeOK, BackendType
    <2>4. CASE guard # NoGuard /\ guard.backend = b
      BY <1>3, <2>1, <2>2, <2>3, <2>4
    <2> QED BY <1>3, <2>1, <2>4
  <1>6. \A h \in Handlers : pc'[h] = "remove" => pc[h] = "remove" /\ job'[h] = job[h]
    BY <1>2
  <1> QED BY <1>1, <1>4, <1>5, <1>6 DEF GuardInv

LEMMA GuardInvariant == Spec => []GuardInv
  <1>1. Init => GuardInv
    BY DEF Init, GuardInv, GuardOwned
  <1>2. TypeInv /\ ReservationInv /\ GuardInv /\ [Next]_vars => GuardInv'
    <2> SUFFICES ASSUME TypeInv, ReservationInv, GuardInv, [Next]_vars PROVE GuardInv'
      OBVIOUS
    <2>1. CASE UNCHANGED vars
      BY <2>1 DEF vars, GuardInv, GuardOwned, Stale
    <2> QED BY <2>1, LoopKeepsGuard, ProcessKeepsGuard DEF Next
  <1> QED BY <1>1, <1>2, TypeInvariant, ReservationInvariant, PTL DEF Spec

\* A guard that names a living backend process is that of the loop it runs,
\* whatever other backends, recoveries and crashes did to the file.
THEOREM GuardIsOwned == Spec => []GuardOwned
  <1>1. GuardInv => GuardOwned
    BY DEF GuardInv
  <1> QED BY <1>1, GuardInvariant, PTL

\* A loop that ends takes away no guard of a later loop of its backend, although it
\* reads the file in one step and removes it in another.
THEOREM GuardIsNotStolen == Spec => GuardNotStolen
  <1>1. GuardInv => \A h \in Handlers : RemoveOwnGuard(h) =>
          \/ guard = NoGuard
          \/ guard.session = job[h].session
          \/ guard.backend # h[1]
    BY DEF GuardInv, RemoveOwnGuard
  <1> QED BY <1>1, GuardInvariant, PTL DEF GuardNotStolen
=============================================================================

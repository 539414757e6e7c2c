----------------------------- MODULE ControlRuns -----------------------------
(***************************************************************************)
(* How control servers start, continue and recover run loops               *)
(* (internal/cli/runtime_control_runs.go, runtime_control_recovery.go and  *)
(* state/build_time.go).  A backend process keeps, under a mutex, which    *)
(* loop it runs; a guard file in the repository names the loop for the     *)
(* backends that come after; the row of table build_time counts the time   *)
(* loops were running.  Requests of one backend run concurrently, several  *)
(* backends may serve one repository, and a backend may die at any point.  *)
(***************************************************************************)
EXTENDS Integers, FiniteSets

CONSTANTS Backends,     \* control server processes of one repository
          Handlers,     \* the requests they serve at the same time, <<backend, request>>
          MaxSessions,  \* bound: loops ever reserved
          MaxCrashes    \* bound: backends killed

ASSUME RunsAssumption ==
  /\ \A h \in Handlers : h = <<h[1], h[2]>> /\ h[1] \in Backends
  /\ MaxSessions \in Nat /\ MaxCrashes \in Nat

VARIABLES
  backend,    \* per backend: up, epoch, and controlRunManager: session, run
  guard,      \* active-run-guard.json, or NoGuard
  runs,       \* number of runs created, 1..runs
  completed,  \* the completed ones
  build,      \* the row of build_time: the sessions whose time the total has,
              \* and the session since whose start time is counted, or 0
  sessions,   \* reservations ever made
  crashes,
  worked,     \* the sessions whose loop ran and returned
  pc,         \* where each request handler, and the loop it started, is
  job         \* what it holds: its kind, reservation, run, the guard it saw

vars == <<backend, guard, runs, completed, build, sessions, crashes, worked,
          pc, job>>

NoGuard == [session |-> 0, backend |-> "none", epoch |-> 0, run |-> 0]
NoJob == [kind |-> "none", session |-> 0, run |-> 0, store |-> FALSE,
          seen |-> NoGuard]

Places == {"idle", "resolve", "attach", "guard", "session", "loop", "close",
           "end", "unguard", "remove", "finish", "inspect", "recover"}

Init ==
  /\ backend = [b \in Backends |-> [up |-> TRUE, epoch |-> 1, session |-> 0, run |-> 0]]
  /\ guard = NoGuard
  /\ runs = 0
  /\ completed = {}
  /\ build = [total |-> {}, start |-> 0]
  /\ sessions = 0
  /\ crashes = 0
  /\ worked = {}
  /\ pc = [h \in Handlers |-> "idle"]
  /\ job = [h \in Handlers |-> NoJob]

Goto(h, place) == pc' = [pc EXCEPT ![h] = place]

\* controlRunManager.finish: only the holder of the reservation clears it.
Released(b, session) ==
  IF backend[b].session = session
  THEN [backend EXCEPT ![b].session = 0, ![b].run = 0] ELSE backend

\* A guard written by another process is stale.
Stale(b, g) == g # NoGuard /\ ~(g.backend = b /\ g.epoch = backend[b].epoch)

-----------------------------------------------------------------------------
(* StartRun and ContinueRun, then runForeground.                           *)

\* reserve: one loop per backend.
Reserve(h) ==
  /\ pc[h] = "idle"
  /\ backend[h[1]].up
  /\ backend[h[1]].session = 0
  /\ sessions < MaxSessions
  /\ sessions' = sessions + 1
  /\ backend' = [backend EXCEPT ![h[1]].session = sessions', ![h[1]].run = 0]
  /\ \E kind \in {"start", "continue"} :
       job' = [job EXCEPT ![h] = [NoJob EXCEPT !.kind = kind, !.session = sessions']]
  /\ Goto(h, "resolve")
  /\ UNCHANGED <<guard, runs, completed, build, crashes, worked>>

\* resolveControlContinueRun, or the run just created.
ResolveRun(h, r) ==
  /\ pc[h] = "resolve"
  /\ job' = [job EXCEPT ![h].run = r, ![h].store = TRUE]
  /\ Goto(h, "attach")
  /\ UNCHANGED <<backend, guard, completed, build, sessions, crashes, worked>>

\* Mutant: the loop is started before its run is stored.
StartUnrecorded(h) ==
  /\ job[h].kind = "start"
  /\ ResolveRun(h, runs + 1)
  /\ UNCHANGED runs

\* createAutoRun
StartRun(h) ==
  /\ job[h].kind = "start"
  /\ runs' = runs + 1
  /\ ResolveRun(h, runs')

\* An unfinished run, if there is one.
ContinueRun(h) ==
  /\ job[h].kind = "continue"
  /\ \E r \in (1..runs) \ completed : ResolveRun(h, r)
  /\ UNCHANGED runs

\* Mutant: an error path that forgets the reservation.
LaunchFailsHolding(h) ==
  /\ pc[h] = "resolve"
  /\ Goto(h, "idle")
  /\ job' = [job EXCEPT ![h] = NoJob]
  /\ UNCHANGED <<backend, guard, runs, completed, build, sessions, crashes, worked>>

\* The run cannot be created, or none is found to continue.
LaunchFails(h) ==
  /\ pc[h] = "resolve"
  /\ backend' = Released(h[1], job[h].session)
  /\ Goto(h, "idle")
  /\ job' = [job EXCEPT ![h] = NoJob]
  /\ UNCHANGED <<guard, runs, completed, build, sessions, crashes, worked>>

\* attachRunID, then the goroutine of the loop.
AttachRun(h) ==
  /\ pc[h] = "attach"
  /\ backend' = IF backend[h[1]].session = job[h].session
                THEN [backend EXCEPT ![h[1]].run = job[h].run] ELSE backend
  /\ Goto(h, "guard")
  /\ UNCHANGED <<guard, runs, completed, build, sessions, crashes, worked, job>>

\* writeActiveRunGuard: whatever guard is there is overwritten.
WriteGuard(h) ==
  /\ pc[h] = "guard"
  /\ guard' = [session |-> job[h].session, backend |-> h[1],
               epoch |-> backend[h[1]].epoch, run |-> job[h].run]
  /\ Goto(h, "session")
  /\ UNCHANGED <<backend, runs, completed, build, sessions, crashes, worked, job>>

\* StartBuildSession, as of the reservation; a start that is still there is kept.
StartBuildSession(h) ==
  /\ pc[h] = "session"
  /\ build' = IF build.start = 0 THEN [build EXCEPT !.start = job[h].session] ELSE build
  /\ Goto(h, "loop")
  /\ UNCHANGED <<backend, guard, runs, completed, sessions, crashes, worked, job>>

\* executeForegroundLoop returns, with the run completed or not.
LoopReturns(h) ==
  /\ pc[h] = "loop"
  /\ completed' \in {completed, completed \union {job[h].run}}
  /\ worked' = worked \union {job[h].session}
  /\ Goto(h, "close")
  /\ UNCHANGED <<backend, guard, runs, build, sessions, crashes, job>>

\* The last deferred call is the first to run: store.Close.
CloseStore(h) ==
  /\ pc[h] = "close"
  /\ job' = [job EXCEPT ![h].store = FALSE]
  /\ Goto(h, "end")
  /\ UNCHANGED <<backend, guard, runs, completed, build, sessions, crashes, worked>>

\* Mutant: deferred calls in another order, the reservation released early.
EndBuildSessionReleasing(h) ==
  /\ pc[h] = "end"
  /\ backend' = Released(h[1], job[h].session)
  /\ Goto(h, "unguard")
  /\ UNCHANGED <<guard, runs, completed, build, sessions, crashes, worked, job>>

\* EndBuildSession, whose error nobody looks at.
EndBuildSession(h) ==
  /\ pc[h] = "end"
  /\ build' = IF job[h].store /\ build.start # 0
              THEN [total |-> build.total \union (build.start..sessions), start |-> 0]
              ELSE build
  /\ Goto(h, "unguard")
  /\ UNCHANGED <<backend, guard, runs, completed, sessions, crashes, worked, job>>

\* Mutant: the guard outlives the loop that wrote it.
LeaveGuard(h) ==
  /\ pc[h] = "unguard"
  /\ Goto(h, "finish")
  /\ UNCHANGED <<backend, guard, runs, completed, build, sessions, crashes, worked, job>>

\* removeActiveRunGuard reads the file, and leaves a guard of another session.
ReadOwnGuard(h) ==
  /\ pc[h] = "unguard"
  /\ Goto(h, IF guard.session = job[h].session THEN "remove" ELSE "finish")
  /\ UNCHANGED <<backend, guard, runs, completed, build, sessions, crashes, worked, job>>

RemoveOwnGuard(h) ==
  /\ pc[h] = "remove"
  /\ guard' = NoGuard
  /\ Goto(h, "finish")
  /\ UNCHANGED <<backend, runs, completed, build, sessions, crashes, worked, job>>

Finish(h) ==
  /\ pc[h] = "finish"
  /\ backend' = Released(h[1], job[h].session)
  /\ Goto(h, "idle")
  /\ job' = [job EXCEPT ![h] = NoJob]
  /\ UNCHANGED <<guard, runs, completed, build, sessions, crashes, worked>>

-----------------------------------------------------------------------------
(* RecoverStaleRun.                                                        *)

\* It is refused while this backend runs a loop.
BeginRecovery(h) ==
  /\ pc[h] = "idle"
  /\ backend[h[1]].up
  /\ backend[h[1]].session = 0
  /\ Goto(h, "inspect")
  /\ job' = [job EXCEPT ![h] = [NoJob EXCEPT !.kind = "recover"]]
  /\ UNCHANGED <<backend, guard, runs, completed, build, sessions, crashes, worked>>

\* buildActiveRunGuardSnapshot, and the run that the request or the guard names,
\* or the latest unfinished one; 0 when there is no such run.
InspectGuard(h) ==
  /\ pc[h] = "inspect"
  /\ \E r \in 0..runs : job' = [job EXCEPT ![h].seen = guard, ![h].run = r]
  /\ Goto(h, "recover")
  /\ UNCHANGED <<backend, guard, runs, completed, build, sessions, crashes, worked>>

\* When the guard that was seen is to be removed, for the run it found.
MayRemove(h, force) ==
  LET seen == job[h].seen
      own  == seen.run = job[h].run \/ force
      old  == Stale(h[1], seen) \/ force
  IN /\ seen # NoGuard
     /\ \/ job[h].run = 0 /\ old
        \/ job[h].run \in completed /\ old /\ own
        \/ job[h].run \notin completed \union {0} /\ own
             /\ (old \/ seen.run # job[h].run)

\* os.Remove takes whatever guard is there by now; everything else returns.
RecoverRun(h) ==
  /\ pc[h] = "recover"
  /\ \E force \in BOOLEAN :
       guard' = IF MayRemove(h, force) THEN NoGuard ELSE guard
  /\ Goto(h, "idle")
  /\ job' = [job EXCEPT ![h] = NoJob]
  /\ UNCHANGED <<backend, runs, completed, build, sessions, crashes, worked>>

-----------------------------------------------------------------------------
(* Processes.                                                              *)

\* A backend dies with its loop and its requests; files and rows stay.
Crash(b) ==
  /\ backend[b].up
  /\ crashes < MaxCrashes
  /\ crashes' = crashes + 1
  /\ backend' = [backend EXCEPT ![b].up = FALSE, ![b].session = 0, ![b].run = 0]
  /\ pc' = [h \in Handlers |-> IF h[1] = b THEN "idle" ELSE pc[h]]
  /\ job' = [h \in Handlers |-> IF h[1] = b THEN NoJob ELSE job[h]]
  /\ UNCHANGED <<guard, runs, completed, build, sessions, worked>>

Restart(b) ==
  /\ ~backend[b].up
  /\ backend' = [backend EXCEPT ![b].up = TRUE, ![b].epoch = backend[b].epoch + 1]
  /\ UNCHANGED <<guard, runs, completed, build, sessions, crashes, worked, pc, job>>

-----------------------------------------------------------------------------
Launch(h) == \/ StartRun(h) \/ ContinueRun(h) \/ LaunchFails(h) \/ AttachRun(h)
             \/ WriteGuard(h) \/ StartBuildSession(h)

Wind(h) == \/ CloseStore(h) \/ EndBuildSession(h) \/ ReadOwnGuard(h)
           \/ RemoveOwnGuard(h) \/ Finish(h)

Recover(h) == InspectGuard(h) \/ RecoverRun(h)

Next == \/ \E h \in Handlers : \/ Reserve(h) \/ Launch(h) \/ LoopReturns(h)
                               \/ Wind(h) \/ BeginRecovery(h) \/ Recover(h)
        \/ \E b \in Backends : Crash(b) \/ Restart(b)

Spec == Init /\ [][Next]_vars

-----------------------------------------------------------------------------
(* Properties.                                                             *)

GuardType == [session : Nat, backend : Backends \union {"none"},
              epoch : Nat, run : Nat]

BackendType == [up : BOOLEAN, epoch : Nat, session : Nat, run : Nat]

JobType == [kind : {"none", "start", "continue", "recover"}, session : Nat,
            run : Nat, store : BOOLEAN, seen : GuardType]

TypeOK ==
  /\ backend \in [Backends -> BackendType]
  /\ guard \in GuardType
  /\ runs \in Nat /\ completed \subseteq 1..runs
  /\ build \in [total : SUBSET (1..sessions), start : 0..sessions]
  /\ sessions \in Nat /\ crashes \in Nat /\ worked \subseteq 1..sessions
  /\ pc \in [Handlers -> Places]
  /\ job \in [Handlers -> JobType]

Holds(h) == pc[h] \notin {"idle", "inspect", "recover"}

\* The mutex-guarded reservation is held by exactly one handler or loop of the
\* backend as long as it stands, and by none once it is gone: no error path
\* leaks it (every later start would be refused), and no late finish takes it
\* from the loop after.
ReservationHeld ==
  \A b \in Backends :
    LET holders == {h \in Handlers : h[1] = b /\ Holds(h)} IN
      /\ Cardinality(holders) <= 1
      /\ backend[b].session # 0 <=> holders # {}
      /\ \A h \in holders : backend[b].session = job[h].session

\* A guard that names a living backend process is the guard of the loop that
\* backend runs now; only guards of dead processes are left behind.
GuardOwned ==
  guard # NoGuard =>
    LET b == guard.backend IN
      backend[b].up /\ ~Stale(b, guard)
        => \E h \in Handlers : /\ h[1] = b /\ job[h].session = guard.session
                               /\ pc[h] \in {"session", "loop", "close", "end",
                                             "unguard", "remove"}

\* A loop that ends never takes away the guard of a later loop of its backend,
\* though it reads the file in one step and removes it in another: the deferred
\* calls release the reservation last.  (Between backends nothing prevents it.)
GuardNotStolen ==
  [][\A h \in Handlers : RemoveOwnGuard(h) =>
       \/ guard = NoGuard
       \/ guard.session = job[h].session
       \/ guard.backend # h[1]]_vars

-----------------------------------------------------------------------------
(* What the documentation says and the code does not keep.                 *)

\* README: durable Total Build Time of the loops a control server launches.
\* While no loop runs, the total has the time of every loop that ran, and the
\* count is paused: no session is open.
BuildTimeKept ==
  (\A h \in Handlers : ~Holds(h)) => worked \subseteq build.total /\ build.start = 0
=============================================================================

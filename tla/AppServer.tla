----------------------------- MODULE AppServer -----------------------------
(***************************************************************************)
(* The client of the Codex app server (executor/appserver): a call of      *)
(* Execute starts a turn on the run's thread, or joins one it left, and    *)
(* listens until the turn ends or asks for an approval; a command of the   *)
(* operator (cli/executor.go) opens a session of its own on the thread.    *)
(* The server is external: a thread has one active turn, every client that *)
(* joined the thread is told what happens, and an open request for an      *)
(* approval is put again to a client that joins.                           *)
(***************************************************************************)
EXTENDS Integers, Sequences

CONSTANTS Executors,  \* loops that call Execute
          Operators,  \* control commands running at the same time
          Items,      \* items of a turn that an approval can be about
          NoItem,
          MaxTurns,   \* bound: turns ever started
          MaxAsks,    \* bound: approvals ever asked for
          MaxFaults   \* bound: connections broken, deadlines, cancellations

ASSUME AppServerAssumption ==
  /\ Executors \intersect Operators = {} /\ NoItem \notin Items
  /\ MaxTurns \in Nat /\ MaxAsks \in Nat /\ MaxFaults \in Nat

Clients == Executors \union Operators

VARIABLES
  turns,    \* the server's turns
  started,  \* turns ever started, ids 1..started
  ask,      \* the open request for an approval
  asks,     \* requests ever made
  joined,   \* clients of the thread
  inbox,    \* streamMessages: what a client has been sent and has not taken
  pc,       \* where a client is
  call,     \* the request of the caller, or the row an operator read
  result,   \* probeAccumulator
  saved,    \* the run's executor columns
  faults

server == <<turns, started, ask, asks>>
vars == <<turns, started, ask, asks, joined, inbox, pc, call, result, saved, faults>>

NoAsk == [id |-> 0, turn |-> 0, item |-> NoItem]

\* SaveExecutorState: the columns that decide anything.
NoTurn == [turn |-> 0, status |-> "none", approval |-> "none", item |-> NoItem]

\* TurnResult: ended is whether CompletedAt is set, asked whether ApprovalState is
\* required, error whether the call returns one.
NoResult == [turn |-> 0, status |-> "none", ended |-> FALSE, asked |-> FALSE,
             item |-> NoItem, error |-> FALSE]

\* subject: the turn that was started, or the request that is to be answered.
NoCall == [continue |-> FALSE, action |-> "none", copy |-> NoTurn, subject |-> 0]

Terminal == {"completed", "failed", "interrupted"}

Init ==
  /\ turns = [t \in 1..MaxTurns |-> "none"]
  /\ started = 0
  /\ ask = NoAsk
  /\ asks = 0
  /\ joined = {}
  /\ inbox = [c \in Clients |-> <<>>]
  /\ pc = [c \in Clients |-> "idle"]
  /\ call = [c \in Clients |-> NoCall]
  /\ result = [c \in Executors |-> NoResult]
  /\ saved = NoTurn
  /\ faults = 0

Goto(c, place) == pc' = [pc EXCEPT ![c] = place]

\* stdin is closed and the process waited for.
Close(c) ==
  /\ joined' = joined \ {c}
  /\ inbox' = [inbox EXCEPT ![c] = <<>>]

-----------------------------------------------------------------------------
(* The server.                                                             *)

Active(t) == t # 0 /\ turns[t] \in {"running", "waiting"}

Idle == \A t \in 1..started : ~Active(t)

Notice(type, t, status) ==
  [type |-> type, turn |-> t, status |-> status, id |-> 0, item |-> NoItem]

Request(a) ==
  [type |-> "ask", turn |-> a.turn, status |-> "none", id |-> a.id, item |-> a.item]

Tell(messages) ==
  inbox' = [c \in Clients |-> IF c \in joined THEN inbox[c] \o messages ELSE inbox[c]]

End(t, outcome) ==
  /\ turns' = [turns EXCEPT ![t] = outcome]
  /\ ask' = IF ask.turn = t THEN NoAsk ELSE ask
  /\ Tell(<<Notice("ended", t, outcome)>>)

TurnEnds(t) ==
  /\ Active(t)
  /\ \E outcome \in {"completed", "failed"} : End(t, outcome)
  /\ UNCHANGED <<started, asks, joined, pc, call, result, saved, faults>>

\* The request, and the flag of the thread's status, in either order.
TurnAsks(t) ==
  /\ turns[t] = "running"
  /\ asks < MaxAsks
  /\ asks' = asks + 1
  /\ turns' = [turns EXCEPT ![t] = "waiting"]
  /\ \E i \in Items : ask' = [id |-> asks + 1, turn |-> t, item |-> i]
  /\ LET flag == Notice("waiting", t, "none") IN
       Tell(<<Request(ask'), flag>>) \/ Tell(<<flag, Request(ask')>>)
  /\ UNCHANGED <<started, joined, pc, call, result, saved, faults>>

\* thread/start or thread/resume: what the answer says of the turn, and the open
\* request before or after it.
Join(c, t) ==
  LET reply == Notice("thread", t, IF t = 0 THEN "none" ELSE turns[t])
      open == IF ask = NoAsk THEN <<>> ELSE <<Request(ask)>> IN
    /\ joined' = joined \union {c}
    /\ \E first \in {<<reply>> \o open, open \o <<reply>>} :
         inbox' = [inbox EXCEPT ![c] = first]

\* turn/start, refused while a turn is active.
AcceptTurn(c) ==
  /\ pc[c] = "send"
  /\ \/ /\ Idle
        /\ started < MaxTurns
        /\ started' = started + 1
        /\ turns' = [turns EXCEPT ![started + 1] = "running"]
        /\ inbox' = [d \in Clients |->
             inbox[d] \o (IF d = c THEN <<Notice("turn", started + 1, "running")>> ELSE <<>>)
                      \o (IF d \in joined THEN <<Notice("started", started + 1, "none")>>
                                          ELSE <<>>)]
        /\ call' = [call EXCEPT ![c].subject = started + 1]
     \/ /\ ~Idle
        /\ inbox' = [inbox EXCEPT ![c] = Append(@, Notice("refused", 0, "none"))]
        /\ UNCHANGED <<started, turns, call>>
  /\ Goto(c, "turn")
  /\ UNCHANGED <<ask, asks, joined, result, saved, faults>>

-----------------------------------------------------------------------------
(* Execute.                                                                *)

\* hasActiveExecutorTurn
Unfinished(row) == row.turn # 0 /\ row.status \in {"in_progress", "approval_required"}

\* runTurn: the process, initialize, and the request for the thread.  A turn that
\* is left is joined, otherwise a new one is to be started.
Begin(c) ==
  /\ pc[c] = "idle"
  /\ Unfinished(saved) \/ started < MaxTurns
  /\ LET t == IF Unfinished(saved) THEN saved.turn ELSE 0 IN
       /\ call' = [call EXCEPT ![c] = [NoCall EXCEPT !.continue = t # 0]]
       /\ result' = [result EXCEPT ![c] = [NoResult EXCEPT !.turn = t]]
       /\ Join(c, t)
  /\ Goto(c, "thread")
  /\ UNCHANGED <<server, saved, faults>>

\* codex is not found, or its process does not start: the result is empty, and
\* it will be saved over a turn that was to be joined.
Unavailable(c) ==
  /\ pc[c] = "idle"
  /\ faults < MaxFaults
  /\ faults' = faults + 1
  /\ result' = [result EXCEPT ![c] = [NoResult EXCEPT !.error = TRUE]]
  /\ Goto(c, "returned")
  /\ UNCHANGED <<server, joined, inbox, call, saved>>

\* Mutant: the server's words are kept.
RawStatus(status) == status

\* normalizeTurnStatus
Normal(status) ==
  IF status \in Terminal THEN status
  ELSE IF status = "none" THEN "pending" ELSE "in_progress"

\* resumeExistingTurn: the status of the turn, but not when it ended.
Resume(r, m) ==
  IF m.status = "waiting"
    THEN [r EXCEPT !.status = "approval_required", !.asked = TRUE]
    ELSE [r EXCEPT !.status = Normal(m.status)]

\* Mutant: the end of a turn changes the status and not the turn.
ObserveStatus(r, m) ==
  CASE m.type = "started" -> [r EXCEPT !.status = "in_progress",
                                       !.turn = IF @ = 0 THEN m.turn ELSE @]
    [] m.type = "waiting" -> [r EXCEPT !.status = "approval_required", !.asked = TRUE]
    [] m.type = "ended"   -> [r EXCEPT !.status = Normal(m.status), !.ended = TRUE]

\* Mutant: the end of a turn is not dated.
ObserveUndated(r, m) ==
  CASE m.type = "started" -> [r EXCEPT !.status = "in_progress",
                                       !.turn = IF @ = 0 THEN m.turn ELSE @]
    [] m.type = "waiting" -> [r EXCEPT !.status = "approval_required", !.asked = TRUE]
    [] m.type = "ended"   -> [r EXCEPT !.status = Normal(m.status), !.turn = m.turn]

\* observe: of whatever turn the notification is.
Observe(r, m) ==
  CASE m.type = "started" -> [r EXCEPT !.status = "in_progress",
                                       !.turn = IF @ = 0 THEN m.turn ELSE @]
    [] m.type = "waiting" -> [r EXCEPT !.status = "approval_required", !.asked = TRUE]
    [] m.type = "ended"   -> [r EXCEPT !.status = Normal(m.status), !.turn = m.turn,
                                       !.ended = TRUE]

\* handleServerRequest
HandleServerRequest(r, m) ==
  [r EXCEPT !.turn = IF @ = 0 THEN m.turn ELSE @,
            !.status = "approval_required", !.asked = TRUE, !.item = m.item]

ApprovalRequired(r) == r.status = "approval_required" \/ r.asked

TurnFinished(r) == r.status \in Terminal /\ r.ended

Listens(c) ==
  \/ pc[c] \in {"thread", "send", "turn"}
  \/ pc[c] = "stream" /\ ~TurnFinished(result[c]) /\ ~ApprovalRequired(result[c])

\* nextMessage
Receive(c, types) ==
  /\ Listens(c)
  /\ inbox[c] # <<>>
  /\ Head(inbox[c]).type \in types
  /\ inbox' = [inbox EXCEPT ![c] = Tail(@)]

TakeNotification(c) ==
  /\ Receive(c, {"started", "waiting", "ended"})
  /\ result' = [result EXCEPT ![c] = Observe(@, Head(inbox[c]))]
  /\ UNCHANGED <<server, joined, pc, call, saved, faults>>

TakeRequest(c) ==
  /\ Receive(c, {"ask"})
  /\ result' = [result EXCEPT ![c] = HandleServerRequest(@, Head(inbox[c]))]
  /\ UNCHANGED <<server, joined, pc, call, saved, faults>>

TakeThread(c) ==
  /\ Receive(c, {"thread"})
  /\ IF call[c].continue
       THEN /\ result' = [result EXCEPT ![c] = Resume(@, Head(inbox[c]))]
            /\ Goto(c, "stream")
       ELSE Goto(c, "send") /\ UNCHANGED result
  /\ UNCHANGED <<server, joined, call, saved, faults>>

\* Mutant: the status of a turn that ended before is kept.
TakeTurnKeepingStatus(c) ==
  /\ Receive(c, {"turn"})
  /\ result' = [result EXCEPT ![c].turn = Head(inbox[c]).turn]
  /\ Goto(c, "stream")
  /\ UNCHANGED <<server, joined, call, saved, faults>>

\* The answer to turn/start names the turn, whatever was heard before.
TakeTurn(c) ==
  /\ Receive(c, {"turn"})
  /\ result' = [result EXCEPT ![c].turn = Head(inbox[c]).turn,
                              ![c].status = Normal(Head(inbox[c]).status)]
  /\ Goto(c, "stream")
  /\ UNCHANGED <<server, joined, call, saved, faults>>

\* fail and failWithStatus: an end that was heard of stays.
Failed(r, status) ==
  [r EXCEPT !.error = TRUE,
            !.status = IF @ = "none" /\ status = "broken" THEN "pending"
                       ELSE IF status = "broken"
                         THEN (IF @ = "in_progress" THEN "failed" ELSE @)
                       ELSE IF @ \in Terminal THEN @ ELSE status]

TakeRefusal(c) ==
  /\ Receive(c, {"refused"})
  /\ result' = [result EXCEPT ![c] = Failed(@, "broken")]
  /\ Goto(c, "returned")
  /\ UNCHANGED <<server, joined, call, saved, faults>>

\* The stream ends or cannot be read, the server makes a request that is not
\* supported, the deadline passes, or the caller gives up.
WaitFails(c) ==
  /\ Listens(c)
  /\ faults < MaxFaults
  /\ faults' = faults + 1
  /\ \E status \in {"broken", "failed", "interrupted"} :
       result' = [result EXCEPT ![c] = Failed(@, status)]
  /\ Goto(c, "returned")
  /\ UNCHANGED <<server, joined, inbox, call, saved>>

\* The loop is left; a turn that did not complete is an error.
Finish(c) ==
  /\ pc[c] = "stream"
  /\ ~Listens(c)
  /\ result' = [result EXCEPT ![c].error =
                  ~ApprovalRequired(result[c]) /\ result[c].status # "completed"]
  /\ Goto(c, "returned")
  /\ UNCHANGED <<server, joined, inbox, call, saved, faults>>

\* The caller saves the columns.
Record(c) ==
  /\ pc[c] = "returned"
  /\ LET r == result[c] IN
       saved' = [turn |-> r.turn, status |-> r.status, item |-> r.item,
                 approval |-> IF r.asked THEN "required" ELSE "none"]
  /\ Close(c)
  /\ Goto(c, "idle")
  /\ call' = [call EXCEPT ![c] = NoCall]
  /\ result' = [result EXCEPT ![c] = NoResult]
  /\ UNCHANGED <<server, faults>>

-----------------------------------------------------------------------------
(* The commands of the operator, each from the row as it read it.          *)

\* withActiveExecutorRun
Read(o, action, place) ==
  /\ pc[o] = "idle"
  /\ saved.turn # 0
  /\ call' = [call EXCEPT ![o] = [NoCall EXCEPT !.action = action, !.copy = saved]]
  /\ Goto(o, place)
  /\ UNCHANGED <<server, result, saved, faults>>

\* Without its kind and item an approval cannot be answered.
Answerable(row) == row.approval = "required" /\ row.item # NoItem

Approve(o) == Answerable(saved) /\ Read(o, "approve", "match") /\ Join(o, saved.turn)

Deny(o) == Answerable(saved) /\ Read(o, "deny", "match") /\ Join(o, saved.turn)

AskToInterrupt(o) == Read(o, "interrupt", "interrupt") /\ UNCHANGED <<joined, inbox>>

\* Not supported by the server: it is only noted.
Kill(o) == Read(o, "kill", "note") /\ UNCHANGED <<joined, inbox>>

AskToSteer(o) ==
  /\ saved.status = "in_progress" /\ saved.approval # "required"
  /\ Read(o, "steer", "steer")
  /\ UNCHANGED <<joined, inbox>>

\* Mutant: any request for an approval will do.
AnyRequest(approval, m) == m.type = "ask"

\* approvalMatches: by the kind and the item, not by the request.
ApprovalMatches(approval, m) == m.type = "ask" /\ m.item = approval.item

\* captureServerRequest, waitForMatchingApproval
MatchApproval(o) ==
  /\ pc[o] = "match"
  /\ inbox[o] # <<>>
  /\ LET m == Head(inbox[o]) IN
       IF ApprovalMatches(call[o].copy, m)
         THEN Goto(o, "answer") /\ call' = [call EXCEPT ![o].subject = m.id]
         ELSE UNCHANGED <<pc, call>>
  /\ inbox' = [inbox EXCEPT ![o] = Tail(@)]
  /\ UNCHANGED <<server, joined, result, saved, faults>>

\* resolveApproval: the server takes the answer to a request that is open.
Answer(o) ==
  /\ pc[o] = "answer"
  /\ IF ask.id = call[o].subject
       THEN turns' = [turns EXCEPT ![ask.turn] = "running"] /\ ask' = NoAsk
       ELSE UNCHANGED <<turns, ask>>
  /\ Close(o)
  /\ Goto(o, "note")
  /\ UNCHANGED <<started, asks, call, result, saved, faults>>

Abort(o) == Goto(o, "idle") /\ call' = [call EXCEPT ![o] = NoCall]

\* InterruptTurn
Interrupt(o) ==
  /\ pc[o] = "interrupt"
  /\ LET t == call[o].copy.turn IN
       IF Active(t) THEN End(t, "interrupted") /\ Goto(o, "note") /\ UNCHANGED call
                    ELSE Abort(o) /\ UNCHANGED <<turns, ask, inbox>>
  /\ UNCHANGED <<started, asks, joined, result, saved, faults>>

\* SteerTurn
Steer(o) ==
  /\ pc[o] = "steer"
  /\ IF Active(call[o].copy.turn) THEN Goto(o, "note") /\ UNCHANGED call ELSE Abort(o)
  /\ UNCHANGED <<server, joined, inbox, result, saved, faults>>

\* The control session breaks; without a deadline it may wait for ever before.
SessionBreaks(o) ==
  /\ pc[o] \in {"match", "answer", "interrupt", "steer"}
  /\ faults < MaxFaults
  /\ faults' = faults + 1
  /\ Close(o)
  /\ Abort(o)
  /\ UNCHANGED <<server, result, saved>>

\* executorStateFromRun: all columns, from the copy.  Nothing that follows tells an
\* approval that was granted from one that was denied.
Written(command) ==
  IF command.action \in {"approve", "deny"}
    THEN [command.copy EXCEPT !.status = "in_progress", !.approval = "answered"]
    ELSE command.copy

SaveControl(o) ==
  /\ pc[o] = "note"
  /\ saved' = Written(call[o])
  /\ Abort(o)
  /\ UNCHANGED <<server, joined, inbox, result, faults>>

-----------------------------------------------------------------------------
ExecuteStep(c) ==
  \/ TakeNotification(c) \/ TakeRequest(c) \/ TakeThread(c) \/ TakeTurn(c)
  \/ TakeRefusal(c) \/ Finish(c) \/ Record(c)

Command(o) ==
  \/ Approve(o) \/ Deny(o) \/ MatchApproval(o) \/ Answer(o)
  \/ AskToInterrupt(o) \/ Kill(o) \/ AskToSteer(o) \/ Interrupt(o) \/ Steer(o) \/ SaveControl(o) \/ SessionBreaks(o)

Next ==
  \/ \E c \in Executors : Begin(c) \/ Unavailable(c) \/ AcceptTurn(c)
                          \/ ExecuteStep(c) \/ WaitFails(c)
  \/ \E o \in Operators : Command(o)
  \/ \E t \in 1..MaxTurns : TurnEnds(t) \/ TurnAsks(t)

\* A call of Execute takes what it is sent; nothing makes the server act, nor the
\* operator, and there is no deadline unless one was configured.
Spec == Init /\ [][Next]_vars /\ \A c \in Executors : WF_vars(ExecuteStep(c))

-----------------------------------------------------------------------------
(* Properties.                                                             *)

Places == {"idle", "thread", "send", "turn", "stream", "returned",
           "match", "answer", "interrupt", "steer", "note"}

\* The shape of the state; nobody holds a turn that was never started.
TypeOK ==
  /\ turns \in [1..MaxTurns -> {"none", "running", "waiting"} \union Terminal]
  /\ started \in 0..MaxTurns
  /\ ask.turn \in 0..started /\ ask.id \in 0..asks /\ ask.item \in Items \union {NoItem}
  /\ asks \in 0..MaxAsks
  /\ joined \subseteq Clients
  /\ \A c \in Clients : pc[c] \in Places
  /\ \A c \in Executors :
       /\ result[c].turn \in 0..started
       /\ result[c].status \in Terminal \union
            {"none", "pending", "in_progress", "approval_required"}
  /\ saved.turn \in 0..started

\* A call that returns a completed turn and no error, names a turn that did
\* complete; when it was to start one, it is the turn it started, although the end
\* of another was heard while it waited for the thread or for the answer.
ResultEarned ==
  \A c \in Executors :
    pc[c] = "returned" /\ ~result[c].error /\ ~ApprovalRequired(result[c]) =>
      /\ result[c].turn # 0
      /\ call[c].continue \/ result[c].turn = call[c].subject
      /\ result[c].status = "completed" /\ turns[result[c].turn] = "completed"

\* The operator's decision goes to a request about the item that was shown, when
\* the turn went on and asked again in between.
DecisionFitsItem ==
  [][\A o \in Operators : Answer(o) /\ ask # ask' => ask.item = call[o].copy.item]_vars

\* The end of its turn, once sent to a call that listens to the stream, ends the
\* call: neither another turn's notifications nor commands of the operator keep it
\* waiting.  The end of a turn that came before it joined is not sent again.
EndReported ==
  \A c \in Executors :
    (/\ pc[c] = "stream"
     /\ \E i \in 1..Len(inbox[c]) :
          inbox[c][i].type = "ended" /\ inbox[c][i].turn = result[c].turn)
      ~> pc[c] # "stream"
=============================================================================

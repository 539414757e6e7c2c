--------------------------- MODULE AppServerProofs ---------------------------
(***************************************************************************)
(* Theorems about the client of the app server, for any number of calls of *)
(* Execute, of commands of the operator, of turns, approvals and faults.   *)
(*                                                                         *)
(* What was sent stays true: the status that the notice of an end carries  *)
(* is the turn's for good, and an identifier names one request.  Because a *)
(* thread has one active turn, a call that started one hears of its end    *)
(* before it hears of the end of any other.                                *)
(***************************************************************************)
EXTENDS AppServer, SequenceTheorems, TLAPS

Statuses == {"none", "running", "waiting"} \union Terminal

ResultStatuses == {"none", "pending", "in_progress", "approval_required"} \union Terminal

\* The notifications and the requests, as against the answers of the server.
Told == {"started", "waiting", "ended", "ask"}

Answers == {"thread", "turn", "refused"}

\* What can be in an inbox.
Message ==
  {m \in [type : Told \union Answers, turn : 0..started, status : Statuses,
          id : 0..asks, item : Items \union {NoItem}] :
     /\ m.type = "ended" => m.turn # 0 /\ m.status \in Terminal /\ turns[m.turn] = m.status
     /\ m.type = "ask" => m.id # 0 /\ (m.id = ask.id => m.item = ask.item)
     /\ m.type = "turn" => m.status = "running"}

RowType == [turn : 0..started, status : ResultStatuses,
            approval : {"none", "required", "answered"}, item : Items \union {NoItem}]

ResultType == [turn : 0..started, status : ResultStatuses, ended : BOOLEAN,
               asked : BOOLEAN, item : Items \union {NoItem}, error : BOOLEAN]

CallType == [continue : BOOLEAN,
             action : {"none", "approve", "deny", "interrupt", "kill", "steer"},
             copy : RowType, subject : Nat]

\* The server: one active turn, and the open request is about it.
ServerInv ==
  /\ started \in 0..MaxTurns
  /\ asks \in 0..MaxAsks
  /\ turns \in [1..MaxTurns -> Statuses]
  /\ \A t \in 1..MaxTurns : turns[t] = "none" <=> t > started
  /\ \A t, u \in 1..MaxTurns : Active(t) /\ Active(u) => t = u
  /\ \/ ask = NoAsk
     \/ /\ ask \in [id : 1..asks, turn : 1..started, item : Items]
        /\ turns[ask.turn] = "waiting"

ClientInv ==
  /\ joined \subseteq Clients
  /\ pc \in [Clients -> Places]
  /\ call \in [Clients -> CallType]
  /\ result \in [Executors -> ResultType]
  /\ saved \in RowType
  /\ inbox \in [Clients -> Seq(Message)]

\* The request that a command is about to answer is about the item it was shown.
AnswerInv ==
  \A o \in Operators : pc[o] = "answer" =>
    /\ call[o].subject \in 1..asks
    /\ call[o].subject = ask.id => ask.item = call[o].copy.item

TypeInv == ServerInv /\ ClientInv /\ AnswerInv

-----------------------------------------------------------------------------
(* Sequences of messages.                                                  *)

\* The first message is taken.
LEMMA TakeFirst ==
  ASSUME NEW S, NEW s \in Seq(S), s # <<>>
  PROVE  /\ Head(s) \in S
         /\ Head(s) = s[1]
         /\ Tail(s) \in Seq(S)
         /\ Len(s) \in Nat \ {0}
         /\ Len(Tail(s)) = Len(s) - 1
         /\ \A i \in 1..Len(Tail(s)) : Tail(s)[i] = s[i + 1]
<1>1. Len(s) \in Nat \ {0}
  BY EmptySeq
<1>2. Head(s) = s[1]
  BY DEF Head
<1> QED
  BY <1>1, <1>2, HeadTailProperties

\* Messages are put behind those that wait.
LEMMA PutBehind ==
  ASSUME NEW S, NEW s \in Seq(S), NEW m \in Seq(S)
  PROVE  /\ s \o m \in Seq(S)
         /\ Len(s) \in Nat
         /\ Len(m) \in Nat
         /\ Len(s \o m) = Len(s) + Len(m)
         /\ \A i \in 1..Len(s) : (s \o m)[i] = s[i]
         /\ \A i \in 1..Len(m) : (s \o m)[Len(s) + i] = m[i]
BY ConcatProperties

LEMMA MoreRoom ==
  ASSUME NEW S, NEW T, S \subseteq T, NEW s \in Seq(S)
  PROVE  s \in Seq(T)
<1>1. Len(s) \in Nat /\ \A i \in 1..Len(s) : s[i] \in T
  BY ElementOfSeq
<1> QED
  BY <1>1, SeqDef

-----------------------------------------------------------------------------
(* What the server sends.                                                  *)

LEMMA TurnNumbers ==
  ASSUME ServerInv
  PROVE  /\ started \in Nat /\ asks \in Nat
         /\ \A t \in 1..started : t \in 1..MaxTurns
<1>1. started \in 0..MaxTurns /\ asks \in 0..MaxAsks
  BY DEF ServerInv
<1> QED
  BY <1>1, AppServerAssumption

\* The open request.
LEMMA OpenRequest ==
  ASSUME ServerInv, ask # NoAsk
  PROVE  /\ ask \in [id : 1..asks, turn : 1..started, item : Items]
         /\ turns[ask.turn] = "waiting"
BY DEF ServerInv

\* The notice of an end is true.
LEMMA EndIsTrue ==
  ASSUME ServerInv, NEW m \in Message, m.type = "ended"
  PROVE  /\ m.turn \in 1..MaxTurns /\ m.turn \in 1..started
         /\ turns[m.turn] = m.status /\ m.status \in Terminal
<1>1. m.turn \in 0..started /\ m.turn # 0 /\ turns[m.turn] = m.status /\ m.status \in Terminal
  BY DEF Message
<1> QED
  BY <1>1, TurnNumbers

\* A notice, and a request, are messages.
LEMMA NoticeIsMessage ==
  ASSUME ServerInv, NEW type \in Told \union Answers, NEW t \in 0..started,
         NEW status \in Statuses,
         type = "ended" => t # 0 /\ status \in Terminal /\ turns[t] = status,
         type # "ask", type = "turn" => status = "running"
  PROVE  Notice(type, t, status) \in Message
BY DEF Notice, Message, ServerInv

LEMMA RequestIsMessage ==
  ASSUME ServerInv, ask # NoAsk
  PROVE  Request(ask) \in Message
BY DEF Request, Message, ServerInv, Told, Statuses, Terminal

\* The inboxes after a message to those that joined.
LEMMA TellEffect ==
  ASSUME inbox \in [Clients -> Seq(Message)], Message \subseteq Message',
         NEW messages \in Seq(Message'), Tell(messages)
  PROVE  inbox' \in [Clients -> Seq(Message')]
<1>1. \A c \in Clients : inbox[c] \in Seq(Message')
  BY MoreRoom
<1>2. \A c \in Clients : inbox[c] \o messages \in Seq(Message')
  BY <1>1, PutBehind
<1> QED
  BY <1>1, <1>2 DEF Tell

\* The end of a turn.
LEMMA EndEffect ==
  ASSUME ServerInv, NEW t \in 1..MaxTurns, Active(t), NEW outcome \in Terminal,
         End(t, outcome), UNCHANGED <<started, asks>>
  PROVE  /\ ServerInv'
         /\ Message \subseteq Message'
         /\ Notice("ended", t, outcome) \in Message'
         /\ ask'.id \in {0, ask.id}
         /\ ask'.id # 0 => ask' = ask
<1>1. /\ turns' \in [1..MaxTurns -> Statuses]
      /\ turns'[t] = outcome
      /\ \A u \in 1..MaxTurns : u # t => turns'[u] = turns[u]
      /\ turns[t] \in {"running", "waiting"} /\ t \in 1..started
  BY DEF ServerInv, End, Statuses, Active
<1>2. ask' = ask \/ ask' = NoAsk
  BY DEF End
<1>3. ServerInv'
  BY <1>1, <1>2 DEF ServerInv, End, Active, Terminal, NoAsk
<1>4. Message \subseteq Message'
  <2> SUFFICES ASSUME NEW m \in Message
               PROVE  m \in Message'
    OBVIOUS
  <2>1. m.type = "ended" => m.turn \in 1..MaxTurns /\ turns[m.turn] \in Terminal
    BY EndIsTrue
  <2>2. m.type = "ended" => turns'[m.turn] = turns[m.turn]
    BY <1>1, <2>1 DEF Terminal
  <2> QED
    BY <2>2, <1>2 DEF Message, NoAsk
<1>5. Notice("ended", t, outcome) \in Message'
  BY <1>1, <1>2 DEF Message, Notice, ServerInv, Told, Statuses, NoAsk
<1> QED
  BY <1>2, <1>3, <1>4, <1>5 DEF NoAsk

\* A turn asks for an approval.
LEMMA AskEffect ==
  ASSUME ServerInv, NEW t \in 1..MaxTurns, NEW i \in Items,
         turns[t] = "running", asks < MaxAsks, asks' = asks + 1,
         turns' = [turns EXCEPT ![t] = "waiting"],
         ask' = [id |-> asks + 1, turn |-> t, item |-> i], UNCHANGED started
  PROVE  /\ ServerInv'
         /\ Message \subseteq Message'
         /\ Request(ask') \in Message'
         /\ Notice("waiting", t, "none") \in Message'
<1>1. /\ turns' \in [1..MaxTurns -> Statuses]
      /\ turns'[t] = "waiting"
      /\ \A u \in 1..MaxTurns : u # t => turns'[u] = turns[u]
      /\ t \in 1..started
  BY DEF ServerInv, Statuses
<1>2. /\ ask'.id = asks + 1 /\ ask'.turn = t /\ ask'.item = i
      /\ ask' \in [id : 1..asks', turn : 1..started, item : Items]
      /\ asks \in Nat
  BY <1>1, AppServerAssumption DEF ServerInv
<1>3. ServerInv'
  <2>1. started' \in 0..MaxTurns /\ asks' \in 0..MaxAsks
    BY AppServerAssumption DEF ServerInv
  <2>2. \A u \in 1..MaxTurns : turns'[u] = "none" <=> u > started'
    BY <1>1 DEF ServerInv
  <2>3. \A u \in 1..MaxTurns : Active(u)' <=> Active(u)
    BY <1>1 DEF ServerInv, Active
  <2> QED
    BY <1>1, <1>2, <2>1, <2>2, <2>3 DEF ServerInv
<1>4. Message \subseteq Message'
  <2> SUFFICES ASSUME NEW m \in Message
               PROVE  m \in Message'
    OBVIOUS
  <2>1. m.type = "ended" => m.turn \in 1..MaxTurns /\ turns[m.turn] \in Terminal
    BY EndIsTrue
  <2>2. m.type = "ended" => turns'[m.turn] = turns[m.turn]
    BY <1>1, <2>1 DEF Terminal
  <2>3. m.id \in 0..asks /\ m.id # ask'.id
    BY <1>2 DEF Message
  <2> QED
    BY <2>2, <2>3, <1>2 DEF Message
<1>5. Request(ask') \in Message'
  BY <1>1, <1>2 DEF Message, Request, ServerInv, Told, Statuses
<1>6. Notice("waiting", t, "none") \in Message'
  BY <1>1, <1>2 DEF Message, Notice, ServerInv, Told, Statuses
<1> QED
  BY <1>3, <1>4, <1>5, <1>6

\* A turn is started.
LEMMA StartEffect ==
  ASSUME ServerInv, Idle, started < MaxTurns,
         started' = started + 1,
         turns' = [turns EXCEPT ![started + 1] = "running"], UNCHANGED <<ask, asks>>
  PROVE  /\ ServerInv'
         /\ Message \subseteq Message'
         /\ Notice("turn", started + 1, "running") \in Message'
         /\ Notice("started", started + 1, "none") \in Message'
         /\ started + 1 \in 1..MaxTurns /\ turns'[started + 1] = "running"
         /\ \A u \in 1..started : turns'[u] = turns[u]
<1>1. /\ started \in Nat /\ started + 1 \in 1..MaxTurns
      /\ turns' \in [1..MaxTurns -> Statuses]
      /\ turns'[started + 1] = "running"
      /\ \A u \in 1..MaxTurns : u # started + 1 => turns'[u] = turns[u]
  BY AppServerAssumption DEF ServerInv, Statuses
<1>2. ServerInv'
  <2>1. started' \in 0..MaxTurns /\ asks' \in 0..MaxAsks
    BY <1>1, AppServerAssumption DEF ServerInv
  <2>2. \A u \in 1..MaxTurns : turns'[u] = "none" <=> u > started'
    BY <1>1 DEF ServerInv
  <2>3. \A u \in 1..MaxTurns : Active(u)' => u = started + 1
    BY <1>1, <2>2 DEF ServerInv, Active, Idle
  <2>4. ask' = NoAsk
    BY DEF Idle, ServerInv, Active
  <2> QED
    BY <1>1, <2>1, <2>2, <2>3, <2>4 DEF ServerInv
<1>3. Message \subseteq Message'
  <2> SUFFICES ASSUME NEW m \in Message
               PROVE  m \in Message'
    OBVIOUS
  <2>1. m.turn \in 0..started' /\ (m.turn # 0 => turns'[m.turn] = turns[m.turn])
    BY <1>1 DEF Message, ServerInv
  <2> QED
    BY <2>1 DEF Message
<1>4. /\ Notice("turn", started + 1, "running") \in Message'
      /\ Notice("started", started + 1, "none") \in Message'
  <2>1. asks' \in Nat /\ started + 1 \in 0..started'
    BY <1>1 DEF ServerInv
  <2> QED
    BY <2>1 DEF Message, Notice, Told, Answers, Statuses
<1>5. \A u \in 1..started : turns'[u] = turns[u]
  BY <1>1, TurnNumbers
<1> QED
  BY <1>1, <1>2, <1>3, <1>4, <1>5

\* An open request is answered.
LEMMA ResolveEffect ==
  ASSUME ServerInv, ask # NoAsk, turns' = [turns EXCEPT ![ask.turn] = "running"],
         ask' = NoAsk, UNCHANGED <<started, asks>>
  PROVE  /\ ServerInv'
         /\ Message \subseteq Message'
         /\ \A u \in 1..MaxTurns : u # ask.turn => turns'[u] = turns[u]
         /\ \A u \in 1..MaxTurns : Active(u)' <=> Active(u)
<1>1. /\ turns' \in [1..MaxTurns -> Statuses]
      /\ ask.turn \in 1..started /\ turns[ask.turn] = "waiting"
      /\ turns'[ask.turn] = "running"
      /\ \A u \in 1..MaxTurns : u # ask.turn => turns'[u] = turns[u]
  <2>1. ask.turn \in 1..started /\ turns[ask.turn] = "waiting"
    BY OpenRequest
  <2>2. ask.turn \in 1..MaxTurns
    BY <2>1, TurnNumbers
  <2> QED
    BY <2>1, <2>2 DEF ServerInv, Statuses
<1>2. \A u \in 1..MaxTurns : Active(u)' <=> Active(u)
  BY <1>1 DEF ServerInv, Active
<1>3. ServerInv'
  <2>1. \A u \in 1..MaxTurns : turns'[u] = "none" <=> u > started'
    BY <1>1 DEF ServerInv
  <2> QED
    BY <1>1, <1>2, <2>1 DEF ServerInv
<1>4. Message \subseteq Message'
  <2> SUFFICES ASSUME NEW m \in Message
               PROVE  m \in Message'
    OBVIOUS
  <2>1. m.type = "ended" => m.turn \in 1..MaxTurns /\ turns[m.turn] \in Terminal
    BY EndIsTrue
  <2>2. m.type = "ended" => turns'[m.turn] = turns[m.turn]
    BY <1>1, <2>1 DEF Terminal
  <2> QED
    BY <2>2 DEF Message, NoAsk
<1> QED
  BY <1>1, <1>2, <1>3, <1>4

-----------------------------------------------------------------------------
(* What a client makes of a message.                                       *)

LEMMA ObserveType ==
  ASSUME NEW r \in ResultType, NEW m \in Message, m.type \in {"started", "waiting", "ended"}
  PROVE  Observe(r, m) \in ResultType
<1>1. m.turn \in 0..started
  BY DEF Message
<1>2. Normal(m.status) \in ResultStatuses
  BY DEF Normal, ResultStatuses, Terminal
<1>3. CASE m.type = "started"
  BY <1>1, <1>3 DEF Observe, ResultType, ResultStatuses
<1>4. CASE m.type = "waiting"
  BY <1>4 DEF Observe, ResultType, ResultStatuses
<1>5. CASE m.type = "ended"
  BY <1>1, <1>2, <1>5 DEF Observe, ResultType
<1> QED
  BY <1>3, <1>4, <1>5

LEMMA RequestType ==
  ASSUME NEW r \in ResultType, NEW m \in Message
  PROVE  HandleServerRequest(r, m) \in ResultType
<1>1. m.turn \in 0..started /\ m.item \in Items \union {NoItem}
  BY DEF Message
<1> QED
  BY <1>1 DEF HandleServerRequest, ResultType, ResultStatuses

LEMMA ResumeType ==
  ASSUME NEW r \in ResultType, NEW m
  PROVE  Resume(r, m) \in ResultType
<1>1. Normal(m.status) \in ResultStatuses
  BY DEF Normal, ResultStatuses, Terminal
<1> QED
  BY <1>1 DEF Resume, ResultType, ResultStatuses

LEMMA FailedType ==
  ASSUME NEW r \in ResultType, NEW status \in {"broken", "failed", "interrupted"}
  PROVE  Failed(r, status) \in ResultType /\ Failed(r, status).error
<1> DEFINE new == IF r.status = "none" /\ status = "broken" THEN "pending"
                  ELSE IF status = "broken"
                    THEN (IF r.status = "in_progress" THEN "failed" ELSE r.status)
                  ELSE IF r.status \in Terminal THEN r.status ELSE status
<1>1. r.status \in ResultStatuses
  BY DEF ResultType
<1>2. new \in ResultStatuses
  BY <1>1 DEF ResultStatuses, Terminal
<1>3. Failed(r, status) = [r EXCEPT !.error = TRUE, !.status = new]
  BY DEF Failed
<1> HIDE DEF new
<1> QED
  BY <1>2, <1>3 DEF ResultType

-----------------------------------------------------------------------------
(* The types are kept by every step.                                       *)

LEMMA SameServer ==
  ASSUME ServerInv, UNCHANGED server
  PROVE  /\ ServerInv'
         /\ Message' = Message /\ RowType' = RowType
         /\ ResultType' = ResultType /\ CallType' = CallType
BY DEF server, ServerInv, Active, Message, RowType, ResultType, CallType

\* The request that is open is the same, is gone, or is a new one.
LEMMA AnswerKept ==
  ASSUME ServerInv, AnswerInv, asks' \in {asks, asks + 1},
         ask' = ask \/ ask'.id = 0 \/ ask'.id = asks + 1,
         \A o \in Operators : pc'[o] = "answer" => pc[o] = "answer" /\ call'[o] = call[o]
  PROVE  AnswerInv'
<1> SUFFICES ASSUME NEW o \in Operators, pc'[o] = "answer"
             PROVE  /\ call'[o].subject \in 1..asks'
                    /\ call'[o].subject = ask'.id => ask'.item = call'[o].copy.item
  BY DEF AnswerInv
<1>1. /\ call'[o] = call[o] /\ call[o].subject \in 1..asks
      /\ call[o].subject = ask.id => ask.item = call[o].copy.item
  BY DEF AnswerInv
<1>2. call[o].subject \in 1..asks' /\ call[o].subject # 0 /\ call[o].subject # asks + 1
  BY <1>1, TurnNumbers
<1> QED
  BY <1>1, <1>2

LEMMA JoinType ==
  ASSUME ServerInv, ClientInv, NEW c \in Clients, NEW t \in 0..started, Join(c, t)
  PROVE  /\ joined' = joined \union {c}
         /\ inbox' \in [Clients -> Seq(Message)]
         /\ \E m \in Message : \E open \in Seq(Message) :
              /\ m.type = "thread"
              /\ \A i \in 1..Len(open) : open[i].type = "ask"
              /\ inbox' = [inbox EXCEPT ![c] = <<m>> \o open] \/ inbox' = [inbox EXCEPT ![c] = open \o <<m>>]
<1> DEFINE m == Notice("thread", t, IF t = 0 THEN "none" ELSE turns[t])
<1> DEFINE open == IF ask = NoAsk THEN <<>> ELSE <<Request(ask)>>
<1>1. m \in Message /\ m.type = "thread"
  <2>1. (IF t = 0 THEN "none" ELSE turns[t]) \in Statuses
    <3>1. CASE t = 0
      BY <3>1 DEF Statuses
    <3>2. CASE t # 0
      BY <3>2, TurnNumbers DEF ServerInv
    <3> QED
      BY <3>1, <3>2
  <2> QED
    BY <2>1, NoticeIsMessage DEF Notice, Answers
<1>2. open \in Seq(Message) /\ \A i \in 1..Len(open) : open[i].type = "ask"
  BY RequestIsMessage DEF Request
<1>3. /\ joined' = joined \union {c}
      /\ inbox' = [inbox EXCEPT ![c] = <<m>> \o open] \/ inbox' = [inbox EXCEPT ![c] = open \o <<m>>]
  BY DEF Join
<1> HIDE DEF m, open
<1>4. <<m>> \in Seq(Message)
  BY <1>1
<1>5. <<m>> \o open \in Seq(Message) /\ open \o <<m>> \in Seq(Message)
  BY <1>2, <1>4, PutBehind
<1>6. inbox' \in [Clients -> Seq(Message)]
  BY <1>3, <1>5 DEF ClientInv
<1> QED
  BY <1>1, <1>2, <1>3, <1>6

\* A step that leaves the server alone.
LEMMA LocalStep ==
  ASSUME TypeInv, UNCHANGED server,
         joined' \subseteq Clients, pc' \in [Clients -> Places],
         call' \in [Clients -> CallType], result' \in [Executors -> ResultType],
         saved' \in RowType, inbox' \in [Clients -> Seq(Message)],
         \A o \in Operators : pc'[o] = "answer" => pc[o] = "answer" /\ call'[o] = call[o]
  PROVE  TypeInv'
<1>1. ServerInv' /\ ClientInv'
  BY SameServer DEF TypeInv, ClientInv
<1>2. AnswerInv'
  BY AnswerKept DEF TypeInv, server
<1> QED
  BY <1>1, <1>2 DEF TypeInv

LEMMA GotoType ==
  ASSUME pc \in [Clients -> Places], NEW c \in Clients, NEW place \in Places, Goto(c, place)
  PROVE  /\ pc' \in [Clients -> Places]
         /\ pc'[c] = place
         /\ \A d \in Clients : d # c => pc'[d] = pc[d]
BY DEF Goto

LEMMA CloseType ==
  ASSUME joined \subseteq Clients, inbox \in [Clients -> Seq(Message)],
         NEW c \in Clients, Close(c)
  PROVE  joined' \subseteq Clients /\ inbox' \in [Clients -> Seq(Message)]
BY DEF Close

\* The empty values.
LEMMA EmptyValues ==
  ASSUME ServerInv
  PROVE  NoTurn \in RowType /\ NoResult \in ResultType /\ NoCall \in CallType
<1>1. started \in Nat
  BY TurnNumbers
<1>2. NoTurn \in RowType
  BY <1>1 DEF NoTurn, RowType, ResultStatuses
<1>3. NoResult \in ResultType
  BY <1>1 DEF NoResult, ResultType, ResultStatuses
<1>4. NoCall \in CallType
  BY <1>2 DEF NoCall, CallType
<1> QED
  BY <1>2, <1>3, <1>4

LEMMA ExecutorsAreClients ==
  /\ \A c \in Executors : c \in Clients
  /\ \A o \in Operators : o \in Clients /\ o \notin Executors
BY AppServerAssumption DEF Clients

\* Taking a message.
LEMMA ReceiveType ==
  ASSUME ClientInv, NEW c \in Clients, NEW types, Receive(c, types)
  PROVE  /\ Head(inbox[c]) \in Message
         /\ Head(inbox[c]).type \in types
         /\ inbox' \in [Clients -> Seq(Message)]
<1>1. inbox[c] \in Seq(Message) /\ inbox[c] # <<>>
  BY DEF ClientInv, Receive
<1>2. Head(inbox[c]) \in Message /\ Tail(inbox[c]) \in Seq(Message)
  BY <1>1, TakeFirst
<1>3. inbox' = [inbox EXCEPT ![c] = Tail(inbox[c])]
  BY DEF Receive
<1>4. Head(inbox[c]).type \in types
  BY DEF Receive
<1> QED
  BY <1>2, <1>3, <1>4 DEF ClientInv

LEMMA BeginTypes ==
  ASSUME TypeInv, NEW c \in Executors, Begin(c)
  PROVE  TypeInv'
<1> DEFINE t == IF Unfinished(saved) THEN saved.turn ELSE 0
<1> DEFINE new == [NoCall EXCEPT !.continue = t # 0]
<1> DEFINE r == [NoResult EXCEPT !.turn = t]
<1>1. t \in 0..started
  BY TurnNumbers DEF TypeInv, ClientInv, RowType
<1>2. new \in CallType /\ r \in ResultType
  BY <1>1, EmptyValues DEF TypeInv, CallType, ResultType
<1>3. /\ call' = [call EXCEPT ![c] = new] /\ result' = [result EXCEPT ![c] = r]
      /\ Join(c, t) /\ Goto(c, "thread") /\ UNCHANGED <<server, saved>>
  BY DEF Begin
<1> HIDE DEF t, new, r
<1>4. c \in Clients /\ "thread" \in Places /\ \A o \in Operators : o \in Clients /\ o # c
  BY ExecutorsAreClients DEF Places
<1>5. joined' \subseteq Clients /\ inbox' \in [Clients -> Seq(Message)]
  BY <1>1, <1>3, <1>4, JoinType DEF TypeInv, ClientInv
<1>6. /\ pc' \in [Clients -> Places] /\ call' \in [Clients -> CallType]
      /\ result' \in [Executors -> ResultType] /\ saved' \in RowType
      /\ \A o \in Operators : pc'[o] = pc[o] /\ call'[o] = call[o]
  BY <1>2, <1>3, <1>4, GotoType DEF TypeInv, ClientInv
<1> QED
  BY <1>3, <1>5, <1>6, LocalStep

LEMMA UnavailableTypes ==
  ASSUME TypeInv, NEW c \in Executors, Unavailable(c)
  PROVE  TypeInv'
<1> DEFINE r == [NoResult EXCEPT !.error = TRUE]
<1>1. r \in ResultType
  BY EmptyValues DEF TypeInv, ResultType
<1>2. /\ result' = [result EXCEPT ![c] = r] /\ Goto(c, "returned")
      /\ UNCHANGED <<server, joined, inbox, call, saved>>
  BY DEF Unavailable
<1> HIDE DEF r
<1>3. c \in Clients /\ "returned" \in Places /\ \A o \in Operators : o \in Clients /\ o # c
  BY ExecutorsAreClients DEF Places
<1>4. /\ pc' \in [Clients -> Places] /\ result' \in [Executors -> ResultType]
      /\ \A o \in Operators : pc'[o] = pc[o]
  BY <1>1, <1>2, <1>3, GotoType DEF TypeInv, ClientInv
<1> QED
  BY <1>2, <1>4, LocalStep DEF TypeInv, ClientInv

LEMMA AcceptTypes ==
  ASSUME TypeInv, NEW c \in Executors, AcceptTurn(c)
  PROVE  TypeInv'
<1> USE DEF TypeInv
<1>1. c \in Clients /\ "turn" \in Places /\ \A o \in Operators : o \in Clients /\ o # c
  BY ExecutorsAreClients DEF Places
<1>2. /\ pc' \in [Clients -> Places]
      /\ \A o \in Operators : pc'[o] = pc[o]
      /\ UNCHANGED <<ask, asks, joined, result, saved>>
  BY <1>1, GotoType DEF AcceptTurn, ClientInv
<1>3. CASE /\ Idle /\ started < MaxTurns /\ started' = started + 1
           /\ turns' = [turns EXCEPT ![started + 1] = "running"]
           /\ inbox' = [d \in Clients |->
                inbox[d] \o (IF d = c THEN <<Notice("turn", started + 1, "running")>> ELSE <<>>)
                         \o (IF d \in joined THEN <<Notice("started", started + 1, "none")>>
                                             ELSE <<>>)]
           /\ call' = [call EXCEPT ![c].subject = started + 1]
  <2>1. /\ ServerInv' /\ Message \subseteq Message'
        /\ Notice("turn", started + 1, "running") \in Message'
        /\ Notice("started", started + 1, "none") \in Message'
    BY <1>2, <1>3, StartEffect
  <2>2. inbox' \in [Clients -> Seq(Message')]
    <3> SUFFICES ASSUME NEW d \in Clients
                 PROVE  inbox'[d] \in Seq(Message')
      BY <1>3
    <3> DEFINE m == IF d = c THEN <<Notice("turn", started + 1, "running")>> ELSE <<>>
    <3> DEFINE n == IF d \in joined THEN <<Notice("started", started + 1, "none")>> ELSE <<>>
    <3>1. m \in Seq(Message') /\ n \in Seq(Message') /\ inbox[d] \in Seq(Message')
      BY <2>1, MoreRoom DEF ClientInv
    <3>2. inbox'[d] = inbox[d] \o m \o n
      BY <1>3
    <3> HIDE DEF m, n
    <3> QED
      BY <3>1, <3>2, PutBehind
  <2>3. started \in Nat /\ started' = started + 1
    BY <1>3, TurnNumbers
  <2>4. /\ \A r \in RowType : r \in RowType'
        /\ \A r \in ResultType : r \in ResultType'
    BY <2>3 DEF RowType, ResultType
  <2>5. /\ \A d \in Clients : call'[d] \in CallType'
        /\ call' = [d \in Clients |-> call'[d]]
        /\ \A d \in Clients : d # c => call'[d] = call[d]
    <3>1. call \in [Clients -> CallType']
      BY <2>4 DEF ClientInv, CallType
    <3>2. call[c] \in CallType' /\ started + 1 \in Nat
      BY <1>1, <2>3, <3>1
    <3> DEFINE new == [call[c] EXCEPT !.subject = started + 1]
    <3>3. new \in CallType'
      BY <3>2 DEF CallType
    <3>4. call' = [call EXCEPT ![c] = new]
      BY <1>3
    <3> HIDE DEF new
    <3> QED
      BY <1>1, <3>1, <3>3, <3>4
  <2>6. ClientInv'
    <3>1. call' \in [Clients -> CallType']
      BY <2>5
    <3> QED
      BY <1>2, <2>2, <2>4, <3>1 DEF ClientInv
  <2>7. AnswerInv'
    BY <1>1, <1>2, <2>5, AnswerKept
  <2> QED
    BY <2>1, <2>6, <2>7
<1>4. CASE /\ ~Idle /\ inbox' = [inbox EXCEPT ![c] = Append(@, Notice("refused", 0, "none"))]
           /\ UNCHANGED <<started, turns, call>>
  <2>1. Notice("refused", 0, "none") \in Message
    BY NoticeIsMessage, TurnNumbers DEF Answers, Statuses
  <2>2. Append(inbox[c], Notice("refused", 0, "none")) \in Seq(Message)
    BY <1>1, <2>1, AppendProperties DEF ClientInv
  <2>3. inbox' \in [Clients -> Seq(Message)]
    BY <1>1, <1>4, <2>2 DEF ClientInv
  <2> QED
    BY <1>2, <1>4, <2>3, LocalStep DEF ClientInv, server
<1> QED
  BY <1>3, <1>4 DEF AcceptTurn

\* Taking a message changes what was heard, the place or both.
LEMMA TakeTypes ==
  ASSUME TypeInv, NEW c \in Executors, NEW types, Receive(c, types),
         NEW place \in Places, place # "answer",
         pc' = pc \/ Goto(c, place),
         NEW r \in ResultType, result' = [result EXCEPT ![c] = r],
         UNCHANGED <<server, joined, call, saved>>
  PROVE  TypeInv'
<1> USE DEF TypeInv
<1>1. c \in Clients /\ \A o \in Operators : o \in Clients /\ o # c
  BY ExecutorsAreClients
<1>2. inbox' \in [Clients -> Seq(Message)]
  BY <1>1, ReceiveType
<1>3. /\ pc' \in [Clients -> Places]
      /\ \A o \in Operators : pc'[o] = pc[o]
  BY <1>1, GotoType DEF ClientInv
<1>4. result' \in [Executors -> ResultType]
  BY DEF ClientInv
<1> QED
  BY <1>2, <1>3, <1>4, LocalStep DEF ClientInv

LEMMA ListenTypes ==
  ASSUME TypeInv, NEW c \in Executors,
         \/ TakeNotification(c) \/ TakeRequest(c) \/ TakeThread(c)
         \/ TakeTurn(c) \/ TakeRefusal(c)
  PROVE  TypeInv'
<1> DEFINE m == Head(inbox[c])
<1> DEFINE old == result[c]
<1>1. c \in Clients /\ old \in ResultType
  BY ExecutorsAreClients DEF TypeInv, ClientInv
<1>2. {"stream", "send", "returned"} \subseteq Places
  BY DEF Places
<1>3. CASE TakeNotification(c)
  <2>1. m \in Message /\ m.type \in {"started", "waiting", "ended"}
    BY <1>1, <1>3, ReceiveType DEF TakeNotification, TypeInv
  <2>2. Observe(old, m) \in ResultType
    BY <1>1, <2>1, ObserveType
  <2>3. /\ Receive(c, {"started", "waiting", "ended"}) /\ pc' = pc
        /\ result' = [result EXCEPT ![c] = Observe(old, m)]
        /\ UNCHANGED <<server, joined, call, saved>>
    BY <1>3 DEF TakeNotification
  <2> QED
    BY <1>2, <2>2, <2>3, TakeTypes
<1>4. CASE TakeRequest(c)
  <2>1. m \in Message
    BY <1>1, <1>4, ReceiveType DEF TakeRequest, TypeInv
  <2>2. HandleServerRequest(old, m) \in ResultType
    BY <1>1, <2>1, RequestType
  <2>3. /\ Receive(c, {"ask"}) /\ pc' = pc
        /\ result' = [result EXCEPT ![c] = HandleServerRequest(old, m)]
        /\ UNCHANGED <<server, joined, call, saved>>
    BY <1>4 DEF TakeRequest
  <2> QED
    BY <1>2, <2>2, <2>3, TakeTypes
<1>5. CASE TakeThread(c)
  <2>1. /\ Receive(c, {"thread"}) /\ UNCHANGED <<server, joined, call, saved>>
        /\ \/ result' = [result EXCEPT ![c] = Resume(old, m)] /\ Goto(c, "stream")
           \/ result' = result /\ Goto(c, "send")
    BY <1>5 DEF TakeThread
  <2>2. Resume(old, m) \in ResultType
    BY <1>1, ResumeType
  <2>3. result = [result EXCEPT ![c] = old]
    BY <1>1 DEF TypeInv, ClientInv
  <2>4. CASE result' = [result EXCEPT ![c] = Resume(old, m)] /\ Goto(c, "stream")
    BY <1>2, <2>1, <2>2, <2>4, TakeTypes
  <2>5. CASE result' = result /\ Goto(c, "send")
    <3>1. result' = [result EXCEPT ![c] = old]
      BY <2>3, <2>5
    <3> QED
      BY <1>1, <1>2, <2>1, <2>5, <3>1, TakeTypes
  <2> QED
    BY <2>1, <2>4, <2>5
<1>6. CASE TakeTurn(c)
  <2> DEFINE r == [old EXCEPT !.turn = m.turn, !.status = Normal(m.status)]
  <2>1. m \in Message
    BY <1>1, <1>6, ReceiveType DEF TakeTurn, TypeInv
  <2>2. m.turn \in 0..started
    BY <2>1 DEF Message
  <2>3. Normal(m.status) \in ResultStatuses
    BY DEF Normal, ResultStatuses, Terminal
  <2>4. r \in ResultType
    BY <1>1, <2>2, <2>3 DEF ResultType
  <2>5. /\ Receive(c, {"turn"}) /\ Goto(c, "stream")
        /\ result' = [result EXCEPT ![c] = r]
        /\ UNCHANGED <<server, joined, call, saved>>
    BY <1>1, <1>6 DEF TakeTurn
  <2> HIDE DEF r
  <2> QED
    BY <1>2, <2>4, <2>5, TakeTypes
<1>7. CASE TakeRefusal(c)
  <2>1. /\ Receive(c, {"refused"}) /\ Goto(c, "returned")
        /\ result' = [result EXCEPT ![c] = Failed(old, "broken")]
        /\ UNCHANGED <<server, joined, call, saved>>
    BY <1>7 DEF TakeRefusal
  <2>2. Failed(old, "broken") \in ResultType
    BY <1>1, FailedType
  <2> QED
    BY <1>2, <2>1, <2>2, TakeTypes
<1> QED
  BY <1>3, <1>4, <1>5, <1>6, <1>7

\* The ways out of a call.
LEMMA LeaveTypes ==
  ASSUME TypeInv, NEW c \in Executors, WaitFails(c) \/ Finish(c) \/ Record(c)
  PROVE  TypeInv'
<1> USE DEF TypeInv
<1>1. /\ c \in Clients /\ \A o \in Operators : o \in Clients /\ o # c
      /\ {"returned", "idle"} \subseteq Places
  BY ExecutorsAreClients DEF Places
<1>2. result[c] \in ResultType
  BY DEF ClientInv
<1>3. CASE WaitFails(c)
  <2>1. PICK status \in {"broken", "failed", "interrupted"} :
          result' = [result EXCEPT ![c] = Failed(@, status)]
    BY <1>3 DEF WaitFails
  <2> DEFINE r == Failed(result[c], status)
  <2>2. r \in ResultType
    BY <1>2, FailedType
  <2>3. result' = [result EXCEPT ![c] = r]
    BY <2>1
  <2> HIDE DEF r
  <2>4. Goto(c, "returned") /\ UNCHANGED <<server, joined, inbox, call, saved>>
    BY <1>3 DEF WaitFails
  <2>5. pc' \in [Clients -> Places] /\ \A o \in Operators : pc'[o] = pc[o]
    BY <1>1, <2>4, GotoType DEF ClientInv
  <2>6. result' \in [Executors -> ResultType]
    BY <2>2, <2>3 DEF ClientInv
  <2> QED
    BY <2>4, <2>5, <2>6, LocalStep DEF ClientInv
<1>4. CASE Finish(c)
  <2> DEFINE b == ~ApprovalRequired(result[c]) /\ result[c].status # "completed"
  <2> DEFINE r == [result[c] EXCEPT !.error = b]
  <2>1. b \in BOOLEAN
    OBVIOUS
  <2>2. result' = [result EXCEPT ![c] = r]
    BY <1>4 DEF Finish
  <2> HIDE DEF b
  <2>3. r \in ResultType
    BY <1>2, <2>1 DEF ResultType
  <2> HIDE DEF r
  <2>4. Goto(c, "returned") /\ UNCHANGED <<server, joined, inbox, call, saved>>
    BY <1>4 DEF Finish
  <2>5. pc' \in [Clients -> Places] /\ \A o \in Operators : pc'[o] = pc[o]
    BY <1>1, <2>4, GotoType DEF ClientInv
  <2>6. result' \in [Executors -> ResultType]
    BY <2>2, <2>3 DEF ClientInv
  <2> QED
    BY <2>4, <2>5, <2>6, LocalStep DEF ClientInv
<1>5. CASE Record(c)
  <2> DEFINE row == [turn |-> result[c].turn, status |-> result[c].status,
                     item |-> result[c].item,
                     approval |-> IF result[c].asked THEN "required" ELSE "none"]
  <2>1. row \in RowType
    BY <1>2 DEF RowType, ResultType
  <2>2. /\ saved' = row /\ Close(c) /\ Goto(c, "idle") /\ UNCHANGED server
        /\ call' = [call EXCEPT ![c] = NoCall] /\ result' = [result EXCEPT ![c] = NoResult]
    BY <1>5 DEF Record
  <2> HIDE DEF row
  <2>3. joined' \subseteq Clients /\ inbox' \in [Clients -> Seq(Message)]
    BY <1>1, <2>2, CloseType DEF ClientInv
  <2>4. /\ pc' \in [Clients -> Places] /\ call' \in [Clients -> CallType]
        /\ result' \in [Executors -> ResultType]
        /\ \A o \in Operators : pc'[o] = pc[o] /\ call'[o] = call[o]
    BY <1>1, <2>2, GotoType, EmptyValues DEF ClientInv
  <2> QED
    BY <2>1, <2>2, <2>3, <2>4, LocalStep
<1> QED
  BY <1>3, <1>4, <1>5

\* A command that reads the row.
LEMMA ReadEffect ==
  ASSUME TypeInv, NEW o \in Operators,
         NEW action \in {"approve", "deny", "interrupt", "kill", "steer"},
         NEW place \in Places, place # "answer", Read(o, action, place)
  PROVE  /\ pc' \in [Clients -> Places] /\ call' \in [Clients -> CallType]
         /\ \A p \in Operators : pc'[p] = "answer" => pc[p] = "answer" /\ call'[p] = call[p]
         /\ saved.turn \in 0..started
         /\ UNCHANGED <<server, result, saved>>
<1> USE DEF TypeInv
<1> DEFINE new == [NoCall EXCEPT !.action = action, !.copy = saved]
<1>1. saved \in RowType /\ o \in Clients /\ \A p \in Operators : p \in Clients
  BY ExecutorsAreClients DEF ClientInv
<1>2. new \in CallType
  BY <1>1, EmptyValues DEF CallType
<1>3. call' = [call EXCEPT ![o] = new] /\ Goto(o, place) /\ UNCHANGED <<server, result, saved>>
  BY DEF Read
<1> HIDE DEF new
<1>4. saved.turn \in 0..started
  BY <1>1 DEF RowType
<1> QED
  BY <1>1, <1>2, <1>3, <1>4, GotoType DEF ClientInv

LEMMA CommandTypes ==
  ASSUME TypeInv, NEW o \in Operators,
         Approve(o) \/ Deny(o) \/ AskToInterrupt(o) \/ Kill(o) \/ AskToSteer(o)
  PROVE  TypeInv'
<1>1. o \in Clients /\ {"match", "interrupt", "note", "steer"} \subseteq Places
  BY ExecutorsAreClients DEF Places
<1>2. CASE Approve(o) \/ Deny(o)
  <2>1. (Read(o, "approve", "match") \/ Read(o, "deny", "match")) /\ Join(o, saved.turn)
    BY <1>2 DEF Approve, Deny
  <2>2. /\ pc' \in [Clients -> Places] /\ call' \in [Clients -> CallType]
        /\ \A p \in Operators : pc'[p] = "answer" => pc[p] = "answer" /\ call'[p] = call[p]
        /\ saved.turn \in 0..started
        /\ UNCHANGED <<server, result, saved>>
    BY <1>1, <2>1, ReadEffect
  <2>3. joined' \subseteq Clients /\ inbox' \in [Clients -> Seq(Message)]
    BY <1>1, <2>1, <2>2, JoinType DEF TypeInv, ClientInv
  <2> QED
    BY <2>2, <2>3, LocalStep DEF TypeInv, ClientInv
<1>3. CASE AskToInterrupt(o) \/ Kill(o) \/ AskToSteer(o)
  <2>1. /\ \/ Read(o, "interrupt", "interrupt")
           \/ Read(o, "kill", "note")
           \/ Read(o, "steer", "steer")
        /\ UNCHANGED <<joined, inbox>>
    BY <1>3 DEF AskToInterrupt, Kill, AskToSteer
  <2>2. /\ pc' \in [Clients -> Places] /\ call' \in [Clients -> CallType]
        /\ \A p \in Operators : pc'[p] = "answer" => pc[p] = "answer" /\ call'[p] = call[p]
        /\ UNCHANGED <<server, result, saved>>
    BY <1>1, <2>1, ReadEffect
  <2> QED
    BY <2>1, <2>2, LocalStep DEF TypeInv, ClientInv
<1> QED
  BY <1>2, <1>3

\* The request that matches is about the item that the command was shown.
LEMMA MatchTypes ==
  ASSUME TypeInv, NEW o \in Operators, MatchApproval(o)
  PROVE  TypeInv'
<1> USE DEF TypeInv
<1> DEFINE m == Head(inbox[o])
<1>1. o \in Clients /\ "answer" \in Places /\ \A p \in Operators : p \in Clients
  BY ExecutorsAreClients DEF Places
<1>2. m \in Message /\ Tail(inbox[o]) \in Seq(Message)
  BY <1>1, TakeFirst DEF MatchApproval, ClientInv
<1>3. /\ inbox' = [inbox EXCEPT ![o] = Tail(inbox[o])]
      /\ UNCHANGED <<server, joined, result, saved>>
      /\ \/ /\ ApprovalMatches(call[o].copy, m)
            /\ Goto(o, "answer") /\ call' = [call EXCEPT ![o].subject = m.id]
         \/ UNCHANGED <<pc, call>>
  BY DEF MatchApproval
<1>4. m.type = "ask" => m.id \in 1..asks /\ (m.id = ask.id => m.item = ask.item)
  <2>1. asks \in Nat
    BY TurnNumbers
  <2> QED
    BY <1>2, <2>1 DEF Message
<1> HIDE DEF m
<1>5. inbox' \in [Clients -> Seq(Message)]
  BY <1>2, <1>3 DEF ClientInv
<1>6. CASE UNCHANGED <<pc, call>>
  BY <1>3, <1>5, <1>6, LocalStep DEF ClientInv
<1>7. CASE /\ ApprovalMatches(call[o].copy, m)
           /\ Goto(o, "answer") /\ call' = [call EXCEPT ![o].subject = m.id]
  <2> DEFINE new == [call[o] EXCEPT !.subject = m.id]
  <2>1. m.id \in 1..asks /\ m.item = call[o].copy.item /\ (m.id = ask.id => m.item = ask.item)
    BY <1>4, <1>7 DEF ApprovalMatches
  <2>2. call[o] \in CallType /\ m.id \in Nat
    BY <1>1, <2>1 DEF ClientInv
  <2>3. new \in CallType /\ new.subject = m.id /\ new.copy = call[o].copy
    BY <2>2 DEF CallType
  <2>4. call' = [call EXCEPT ![o] = new]
    BY <1>7
  <2> HIDE DEF new
  <2>5. /\ call' \in [Clients -> CallType] /\ call'[o] = new
        /\ \A p \in Operators : p # o => call'[p] = call[p]
    BY <1>1, <2>3, <2>4 DEF ClientInv
  <2>6. /\ pc' \in [Clients -> Places]
        /\ \A p \in Operators : p # o => pc'[p] = pc[p]
    BY <1>1, <1>7, GotoType DEF ClientInv
  <2>7. /\ ServerInv' /\ Message' = Message /\ RowType' = RowType
        /\ ResultType' = ResultType /\ CallType' = CallType
    BY <1>3, SameServer
  <2>8. ClientInv'
    BY <1>3, <1>5, <2>5, <2>6, <2>7 DEF ClientInv
  <2>9. AnswerInv'
    <3> SUFFICES ASSUME NEW p \in Operators, pc'[p] = "answer"
                 PROVE  /\ call'[p].subject \in 1..asks
                        /\ call'[p].subject = ask.id => ask.item = call'[p].copy.item
      BY <1>3 DEF AnswerInv, server
    <3>1. CASE p = o
      BY <2>1, <2>3, <2>5, <3>1
    <3>2. CASE p # o
      BY <2>5, <2>6, <3>2 DEF AnswerInv
    <3> QED
      BY <3>1, <3>2
  <2> QED
    BY <2>7, <2>8, <2>9
<1> QED
  BY <1>3, <1>6, <1>7

\* The ways out of a command, but for the interruption of a turn.
LEMMA EndCommandTypes ==
  ASSUME TypeInv, NEW o \in Operators, Steer(o) \/ SessionBreaks(o) \/ SaveControl(o)
  PROVE  TypeInv'
<1> USE DEF TypeInv
<1>1. /\ o \in Clients /\ \A p \in Operators : p \in Clients
      /\ {"note", "idle"} \subseteq Places
  BY ExecutorsAreClients DEF Places
<1>2. ASSUME Abort(o)
      PROVE  /\ pc' \in [Clients -> Places] /\ call' \in [Clients -> CallType]
             /\ \A p \in Operators : pc'[p] = "answer" => pc[p] = "answer" /\ call'[p] = call[p]
  <2>1. Goto(o, "idle") /\ call' = [call EXCEPT ![o] = NoCall]
    BY <1>2 DEF Abort
  <2> QED
    BY <1>1, <2>1, GotoType, EmptyValues DEF ClientInv
<1>3. CASE Steer(o)
  <2>1. /\ UNCHANGED <<server, joined, inbox, result, saved>>
        /\ (Goto(o, "note") /\ UNCHANGED call) \/ Abort(o)
    BY <1>3 DEF Steer
  <2>2. CASE Goto(o, "note") /\ UNCHANGED call
    <3>1. /\ pc' \in [Clients -> Places]
          /\ \A p \in Operators : pc'[p] = "answer" => pc[p] = "answer"
      BY <1>1, <2>2, GotoType DEF ClientInv
    <3> QED
      BY <2>1, <2>2, <3>1, LocalStep DEF ClientInv
  <2>3. CASE Abort(o)
    BY <1>2, <2>1, <2>3, LocalStep DEF ClientInv
  <2> QED
    BY <2>1, <2>2, <2>3
<1>4. CASE SessionBreaks(o)
  <2>1. Close(o) /\ Abort(o) /\ UNCHANGED <<server, result, saved>>
    BY <1>4 DEF SessionBreaks
  <2>2. joined' \subseteq Clients /\ inbox' \in [Clients -> Seq(Message)]
    BY <1>1, <2>1, CloseType DEF ClientInv
  <2> QED
    BY <1>2, <2>1, <2>2, LocalStep DEF ClientInv
<1>5. CASE SaveControl(o)
  <2>1. saved' = Written(call[o]) /\ Abort(o) /\ UNCHANGED <<server, joined, inbox, result>>
    BY <1>5 DEF SaveControl
  <2>2. call[o].copy \in RowType
    BY <1>1 DEF ClientInv, CallType
  <2> DEFINE row == call[o].copy
  <2>3. [row EXCEPT !.status = "in_progress", !.approval = "answered"] \in RowType
    BY <2>2 DEF RowType, ResultStatuses
  <2>4. Written(call[o]) \in RowType
    BY <2>2, <2>3 DEF Written
  <2> QED
    BY <1>2, <2>1, <2>4, LocalStep DEF ClientInv
<1> QED
  BY <1>3, <1>4, <1>5

\* A step that changes the server.
LEMMA ServerStep ==
  ASSUME TypeInv, ServerInv', Message \subseteq Message',
         asks' \in {asks, asks + 1}, ask' = ask \/ ask'.id = 0 \/ ask'.id = asks + 1,
         joined' \subseteq Clients, pc' \in [Clients -> Places],
         call' \in [Clients -> CallType], inbox' \in [Clients -> Seq(Message')],
         \A o \in Operators : pc'[o] = "answer" => pc[o] = "answer" /\ call'[o] = call[o],
         UNCHANGED <<started, result, saved>>
  PROVE  TypeInv'
<1>1. RowType' = RowType /\ ResultType' = ResultType /\ CallType' = CallType
  BY DEF RowType, ResultType, CallType
<1>2. ClientInv'
  BY <1>1 DEF ClientInv, TypeInv
<1>3. AnswerInv'
  BY AnswerKept DEF TypeInv
<1> QED
  BY <1>2, <1>3 DEF TypeInv

LEMMA TurnEndsTypes ==
  ASSUME TypeInv, NEW t \in 1..MaxTurns, TurnEnds(t)
  PROVE  TypeInv'
<1> USE DEF TypeInv
<1>1. PICK outcome \in Terminal : End(t, outcome)
  BY DEF TurnEnds, Terminal
<1>2. Active(t) /\ UNCHANGED <<started, asks, joined, pc, call, result, saved>>
  BY DEF TurnEnds
<1>3. /\ ServerInv' /\ Message \subseteq Message'
      /\ Notice("ended", t, outcome) \in Message'
      /\ ask'.id \in {0, ask.id} /\ (ask'.id # 0 => ask' = ask)
  BY <1>1, <1>2, EndEffect
<1>4. Tell(<<Notice("ended", t, outcome)>>) /\ <<Notice("ended", t, outcome)>> \in Seq(Message')
  BY <1>1, <1>3 DEF End
<1>5. inbox' \in [Clients -> Seq(Message')]
  BY <1>3, <1>4, TellEffect DEF ClientInv
<1> QED
  BY <1>2, <1>3, <1>5, ServerStep DEF ClientInv

LEMMA TurnAsksTypes ==
  ASSUME TypeInv, NEW t \in 1..MaxTurns, TurnAsks(t)
  PROVE  TypeInv'
<1> USE DEF TypeInv
<1>1. PICK i \in Items : ask' = [id |-> asks + 1, turn |-> t, item |-> i]
  BY DEF TurnAsks
<1>2. /\ turns[t] = "running" /\ asks < MaxAsks /\ asks' = asks + 1
      /\ turns' = [turns EXCEPT ![t] = "waiting"]
      /\ UNCHANGED <<started, joined, pc, call, result, saved>>
      /\ \/ Tell(<<Request(ask'), Notice("waiting", t, "none")>>)
         \/ Tell(<<Notice("waiting", t, "none"), Request(ask')>>)
  BY DEF TurnAsks
<1>3. /\ ServerInv' /\ Message \subseteq Message'
      /\ Request(ask') \in Message' /\ Notice("waiting", t, "none") \in Message'
  BY <1>1, <1>2, AskEffect
<1> DEFINE m == Request(ask')
<1> DEFINE n == Notice("waiting", t, "none")
<1>4. m \in Message' /\ n \in Message' /\ (Tell(<<m, n>>) \/ Tell(<<n, m>>))
  BY <1>2, <1>3
<1>5. ask'.id = asks + 1
  BY <1>1
<1> HIDE DEF m, n
<1>6. <<m, n>> \in Seq(Message') /\ <<n, m>> \in Seq(Message')
  BY <1>4
<1>7. inbox' \in [Clients -> Seq(Message')]
  <2>1. CASE Tell(<<m, n>>)
    BY <1>3, <1>6, <2>1, TellEffect DEF ClientInv
  <2>2. CASE Tell(<<n, m>>)
    BY <1>3, <1>6, <2>2, TellEffect DEF ClientInv
  <2> QED
    BY <1>4, <2>1, <2>2
<1> QED
  BY <1>2, <1>3, <1>5, <1>7, ServerStep DEF ClientInv

LEMMA AnswerTypes ==
  ASSUME TypeInv, NEW o \in Operators, Answer(o)
  PROVE  TypeInv'
<1> USE DEF TypeInv
<1>1. o \in Clients /\ "note" \in Places /\ \A p \in Operators : p \in Clients
  BY ExecutorsAreClients DEF Places
<1>2. Close(o) /\ Goto(o, "note") /\ UNCHANGED <<started, asks, call, result, saved>>
  BY DEF Answer
<1>3. /\ pc' \in [Clients -> Places]
      /\ \A p \in Operators : pc'[p] = "answer" => pc[p] = "answer"
      /\ joined' \subseteq Clients /\ inbox' \in [Clients -> Seq(Message)]
  BY <1>1, <1>2, GotoType, CloseType DEF ClientInv
<1>4. pc[o] = "answer"
  BY DEF Answer
<1>5. CASE UNCHANGED <<turns, ask>>
  BY <1>2, <1>3, <1>5, LocalStep DEF ClientInv, server
<1>6. CASE ask.id = call[o].subject /\ turns' = [turns EXCEPT ![ask.turn] = "running"] /\ ask' = NoAsk
  <2>1. ask # NoAsk
    BY <1>4, <1>6 DEF AnswerInv, NoAsk
  <2>2. ServerInv' /\ Message \subseteq Message'
    BY <1>2, <1>6, <2>1, ResolveEffect
  <2>3. inbox' \in [Clients -> Seq(Message')]
    BY <1>3, <2>2, MoreRoom
  <2> QED
    BY <1>2, <1>3, <1>6, <2>2, <2>3, ServerStep DEF ClientInv, NoAsk
<1> QED
  BY <1>5, <1>6 DEF Answer

LEMMA InterruptTypes ==
  ASSUME TypeInv, NEW o \in Operators, Interrupt(o)
  PROVE  TypeInv'
<1> USE DEF TypeInv
<1> DEFINE t == call[o].copy.turn
<1>1. /\ o \in Clients /\ \A p \in Operators : p \in Clients
      /\ {"note", "idle"} \subseteq Places
  BY ExecutorsAreClients DEF Places
<1>2. t \in 0..started
  BY <1>1 DEF ClientInv, CallType, RowType
<1>3. UNCHANGED <<started, asks, joined, result, saved>>
  BY DEF Interrupt
<1>4. CASE Active(t) /\ End(t, "interrupted") /\ Goto(o, "note") /\ UNCHANGED call
  <2>1. t \in 1..MaxTurns
    BY <1>2, <1>4, TurnNumbers DEF Active
  <2>2. "interrupted" \in Terminal
    BY DEF Terminal
  <2>3. /\ ServerInv' /\ Message \subseteq Message'
        /\ Notice("ended", t, "interrupted") \in Message'
        /\ ask'.id \in {0, ask.id} /\ (ask'.id # 0 => ask' = ask)
    BY <1>3, <1>4, <2>1, <2>2, EndEffect
  <2>4. /\ Tell(<<Notice("ended", t, "interrupted")>>)
        /\ <<Notice("ended", t, "interrupted")>> \in Seq(Message')
    BY <1>4, <2>3 DEF End
  <2>5. inbox' \in [Clients -> Seq(Message')]
    BY <2>3, <2>4, TellEffect DEF ClientInv
  <2>6. /\ pc' \in [Clients -> Places]
        /\ \A p \in Operators : pc'[p] = "answer" => pc[p] = "answer"
    BY <1>1, <1>4, GotoType DEF ClientInv
  <2> QED
    BY <1>3, <1>4, <2>3, <2>5, <2>6, ServerStep DEF ClientInv
<1>5. CASE Abort(o) /\ UNCHANGED <<turns, ask, inbox>>
  <2>1. Goto(o, "idle") /\ call' = [call EXCEPT ![o] = NoCall]
    BY <1>5 DEF Abort
  <2>2. /\ pc' \in [Clients -> Places] /\ call' \in [Clients -> CallType]
        /\ \A p \in Operators : pc'[p] = "answer" => pc[p] = "answer" /\ call'[p] = call[p]
    BY <1>1, <2>1, GotoType, EmptyValues DEF ClientInv
  <2> QED
    BY <1>3, <1>5, <2>2, LocalStep DEF ClientInv, server
<1> QED
  BY <1>4, <1>5 DEF Interrupt

LEMMA TypesBegin ==
  ASSUME Init
  PROVE  TypeInv
<1> USE DEF Init
<1>1. ServerInv
  BY AppServerAssumption DEF ServerInv, Statuses, Active
<1>2. ClientInv
  <2>1. /\ joined \subseteq Clients /\ pc \in [Clients -> Places]
        /\ inbox \in [Clients -> Seq(Message)]
    BY DEF Places
  <2>2. /\ call \in [Clients -> CallType] /\ result \in [Executors -> ResultType]
        /\ saved \in RowType
    BY <1>1, EmptyValues
  <2> QED
    BY <2>1, <2>2 DEF ClientInv
<1>3. AnswerInv
  BY ExecutorsAreClients DEF AnswerInv
<1> QED
  BY <1>1, <1>2, <1>3 DEF TypeInv

LEMMA TypesKept ==
  ASSUME TypeInv, [Next]_vars
  PROVE  TypeInv'
<1>1. ASSUME NEW c \in Executors, Begin(c) \/ Unavailable(c) \/ AcceptTurn(c)
      PROVE  TypeInv'
  BY <1>1, BeginTypes, UnavailableTypes, AcceptTypes
<1>2. ASSUME NEW c \in Executors, ExecuteStep(c) \/ WaitFails(c)
      PROVE  TypeInv'
  BY <1>2, ListenTypes, LeaveTypes DEF ExecuteStep
<1>3. ASSUME NEW o \in Operators, Command(o)
      PROVE  TypeInv'
  BY <1>3, CommandTypes, MatchTypes, EndCommandTypes, AnswerTypes, InterruptTypes DEF Command
<1>4. ASSUME NEW t \in 1..MaxTurns, TurnEnds(t) \/ TurnAsks(t)
      PROVE  TypeInv'
  BY <1>4, TurnEndsTypes, TurnAsksTypes
<1>5. CASE UNCHANGED vars
  <2>1. UNCHANGED <<server, joined, inbox, pc, call, result, saved>>
    BY <1>5 DEF vars, server
  <2> QED
    BY <2>1, LocalStep DEF TypeInv, ClientInv
<1> QED
  BY <1>1, <1>2, <1>3, <1>4, <1>5 DEF Next

LEMMA TypeInvariant == Spec => []TypeInv
<1>1. Init => TypeInv
  BY TypesBegin
<1>2. TypeInv /\ [Next]_vars => TypeInv'
  BY TypesKept
<1> QED
  BY <1>1, <1>2, PTL DEF Spec

-----------------------------------------------------------------------------
(* Theorems about the types and about approvals.                           *)

\* The state keeps its types, and nobody holds a turn that was never started.
THEOREM TypeCorrect == Spec => []TypeOK
<1>1. TypeInv => TypeOK
  <2> SUFFICES ASSUME TypeInv
               PROVE  TypeOK
    OBVIOUS
  <2>1. /\ turns \in [1..MaxTurns -> {"none", "running", "waiting"} \union Terminal]
        /\ started \in 0..MaxTurns /\ asks \in 0..MaxAsks
    BY DEF TypeInv, ServerInv, Statuses
  <2>2. ask.turn \in 0..started /\ ask.id \in 0..asks /\ ask.item \in Items \union {NoItem}
    <3>1. CASE ask = NoAsk
      BY <3>1, TurnNumbers DEF NoAsk, TypeInv
    <3>2. CASE ask # NoAsk
      BY <3>2, OpenRequest DEF TypeInv
    <3> QED
      BY <3>1, <3>2
  <2>3. joined \subseteq Clients /\ \A c \in Clients : pc[c] \in Places
    BY DEF TypeInv, ClientInv
  <2>4. \A c \in Executors :
          /\ result[c].turn \in 0..started
          /\ result[c].status \in Terminal \union
               {"none", "pending", "in_progress", "approval_required"}
    BY DEF TypeInv, ClientInv, ResultType, ResultStatuses
  <2>5. saved.turn \in 0..started
    BY DEF TypeInv, ClientInv, RowType
  <2> QED
    BY <2>1, <2>2, <2>3, <2>4, <2>5 DEF TypeOK
<1> QED
  BY <1>1, TypeInvariant, PTL

\* What DecisionFitsItem says of a step.
DecisionFits ==
  \A o \in Operators : Answer(o) /\ ask # ask' => ask.item = call[o].copy.item

\* An answer that the server takes is to a request about the item that was shown
\* to the operator (approvalMatches), when the turn went on and asked again in
\* between.
THEOREM DecisionReachesItsItem == Spec => DecisionFitsItem
<1>1. TypeInv /\ [Next]_vars => [DecisionFits]_vars
  <2> SUFFICES ASSUME TypeInv, NEW o \in Operators, Answer(o), ask # ask'
               PROVE  ask.item = call[o].copy.item
    BY DEF DecisionFits
  <2>1. pc[o] = "answer" /\ ask.id = call[o].subject
    BY DEF Answer
  <2> QED
    BY <2>1 DEF TypeInv, AnswerInv
<1> QED
  BY <1>1, TypeInvariant, PTL DEF Spec, DecisionFits, DecisionFitsItem

-----------------------------------------------------------------------------
(* The order of the messages in an inbox.                                  *)

Plain(s) == \A i \in 1..Len(s) : s[i].type \in Told

\* The only answer of the server among the messages is the k-th.
Only(s, k, types) ==
  /\ s[k].type \in types
  /\ \A i \in 1..Len(s) : i # k => s[i].type \in Told

EndOf(m, t) == m.type = "ended" /\ m.turn = t

\* Behind the k-th message, the end of t comes before the end of any other turn.
EndFirst(s, k, t) ==
  \A i \in (k + 1)..Len(s) : s[i].type = "ended" => \E j \in (k + 1)..i : EndOf(s[j], t)

EndComes(s, k, t) == \E j \in (k + 1)..Len(s) : EndOf(s[j], t)

\* The end of t is still to be sent, or it is there.
EndsFirst(s, k, t) == EndFirst(s, k, t) /\ (Active(t) \/ EndComes(s, k, t))

LEMMA PlainTail ==
  ASSUME NEW S, NEW s \in Seq(S), s # <<>>, Plain(s)
  PROVE  Plain(Tail(s)) /\ Head(s).type \in Told
<1>1. /\ Head(s) = s[1] /\ Len(s) \in Nat \ {0} /\ Len(Tail(s)) = Len(s) - 1
      /\ \A i \in 1..Len(Tail(s)) : Tail(s)[i] = s[i + 1]
  BY TakeFirst
<1> QED
  BY <1>1 DEF Plain

LEMMA OnlyTail ==
  ASSUME NEW S, NEW s \in Seq(S), s # <<>>, NEW k \in 1..Len(s), NEW types, Only(s, k, types)
  PROVE  /\ k = 1 => Head(s).type \in types /\ Plain(Tail(s))
         /\ k # 1 => /\ Head(s).type \in Told
                     /\ k - 1 \in 1..Len(Tail(s))
                     /\ Tail(s)[k - 1] = s[k]
                     /\ Only(Tail(s), k - 1, types)
<1> DEFINE u == Tail(s)
<1>1. /\ Head(s) = s[1] /\ Len(s) \in Nat \ {0} /\ Len(u) = Len(s) - 1
      /\ \A i \in 1..Len(u) : u[i] = s[i + 1]
  BY TakeFirst
<1> HIDE DEF u
<1>2. k = 1 => Head(s).type \in types /\ Plain(u)
  BY <1>1 DEF Only, Plain
<1>3. ASSUME k # 1
      PROVE  Head(s).type \in Told /\ k - 1 \in 1..Len(u) /\ u[k - 1] = s[k] /\ Only(u, k - 1, types)
  <2>1. k - 1 \in 1..Len(u) /\ u[k - 1] = s[k]
    BY <1>1, <1>3
  <2>2. \A i \in 1..Len(u) : i # k - 1 => u[i].type \in Told
    BY <1>1 DEF Only
  <2>3. Head(s).type \in Told
    BY <1>1, <1>3 DEF Only
  <2> QED
    BY <2>1, <2>2, <2>3 DEF Only
<1> QED
  BY <1>2, <1>3 DEF u

\* A message before the k-th is taken, or one that is no end.
LEMMA EndTail ==
  ASSUME NEW S, NEW s \in Seq(S), s # <<>>, NEW k \in 0..Len(s), NEW t,
         k = 0 => Head(s).type # "ended",
         NEW l \in Nat, l = IF k = 0 THEN 0 ELSE k - 1
  PROVE  /\ EndFirst(s, k, t) => EndFirst(Tail(s), l, t)
         /\ EndComes(s, k, t) => EndComes(Tail(s), l, t)
<1> DEFINE u == Tail(s)
<1>1. /\ Head(s) = s[1] /\ Len(s) \in Nat \ {0} /\ Len(u) = Len(s) - 1
      /\ \A i \in 1..Len(u) : u[i] = s[i + 1]
  BY TakeFirst
<1> HIDE DEF u
<1>2. \A j \in (k + 1)..Len(s) : EndOf(s[j], t) => j - 1 \in (l + 1)..Len(u) /\ EndOf(u[j - 1], t)
  <2> SUFFICES ASSUME NEW j \in (k + 1)..Len(s), EndOf(s[j], t)
               PROVE  j - 1 \in (l + 1)..Len(u) /\ EndOf(u[j - 1], t)
    OBVIOUS
  <2>1. j # 1
    BY <1>1 DEF EndOf
  <2>2. j - 1 \in (l + 1)..Len(u) /\ j - 1 \in 1..Len(u)
    BY <1>1, <2>1
  <2>3. u[j - 1] = s[j]
    BY <1>1, <2>2
  <2> QED
    BY <2>2, <2>3
<1>3. ASSUME EndFirst(s, k, t)
      PROVE  EndFirst(u, l, t)
  <2> SUFFICES ASSUME NEW i \in (l + 1)..Len(u), u[i].type = "ended"
               PROVE  \E j \in (l + 1)..i : EndOf(u[j], t)
    BY DEF EndFirst
  <2>1. u[i] = s[i + 1] /\ i + 1 \in (k + 1)..Len(s)
    BY <1>1
  <2>2. PICK j \in (k + 1)..(i + 1) : EndOf(s[j], t)
    BY <1>3, <2>1 DEF EndFirst
  <2>3. j \in (k + 1)..Len(s)
    BY <1>1, <2>2
  <2>4. j - 1 \in (l + 1)..Len(u) /\ EndOf(u[j - 1], t)
    BY <1>2, <2>2, <2>3
  <2>5. j - 1 \in (l + 1)..i
    BY <1>1, <2>2, <2>4
  <2> QED
    BY <2>4, <2>5
<1>4. ASSUME EndComes(s, k, t)
      PROVE  EndComes(u, l, t)
  BY <1>2, <1>4 DEF EndComes
<1> QED
  BY <1>3, <1>4 DEF u

\* The first end that is heard of is the turn's.
LEMMA EndHead ==
  ASSUME NEW S, NEW s \in Seq(S), s # <<>>, NEW t, EndFirst(s, 0, t), Head(s).type = "ended"
  PROVE  Head(s).turn = t
<1>1. Head(s) = s[1] /\ Len(s) \in Nat \ {0}
  BY TakeFirst
<1>2. 1 \in (0 + 1)..Len(s)
  BY <1>1
<1>3. \E j \in (0 + 1)..1 : EndOf(s[j], t)
  BY <1>1, <1>2 DEF EndFirst
<1> QED
  BY <1>1, <1>3 DEF EndOf

LEMMA PlainGrows ==
  ASSUME NEW S, NEW s \in Seq(S), NEW m \in Seq(S), Plain(s), Plain(m)
  PROVE  Plain(s \o m)
<1> DEFINE u == s \o m
<1>1. /\ Len(s) \in Nat /\ Len(m) \in Nat /\ Len(u) = Len(s) + Len(m)
      /\ \A i \in 1..Len(s) : u[i] = s[i]
      /\ \A i \in 1..Len(m) : u[Len(s) + i] = m[i]
  BY PutBehind
<1> HIDE DEF u
<1>2. ASSUME NEW i \in 1..Len(u)
      PROVE  u[i].type \in Told
  <2>1. CASE i \in 1..Len(s)
    BY <1>1, <2>1 DEF Plain
  <2>2. CASE i \notin 1..Len(s)
    <3>1. i - Len(s) \in 1..Len(m) /\ i = Len(s) + (i - Len(s))
      BY <1>1, <2>2
    <3>2. u[i] = m[i - Len(s)]
      BY <1>1, <3>1
    <3> QED
      BY <3>1, <3>2 DEF Plain
  <2> QED
    BY <2>1, <2>2
<1> QED
  BY <1>2 DEF Plain, u

LEMMA OnlyGrows ==
  ASSUME NEW S, NEW s \in Seq(S), NEW m \in Seq(S), NEW k \in 1..Len(s), NEW types,
         Only(s, k, types), Plain(m)
  PROVE  k \in 1..Len(s \o m) /\ (s \o m)[k] = s[k] /\ Only(s \o m, k, types)
<1> DEFINE u == s \o m
<1>1. /\ Len(s) \in Nat /\ Len(m) \in Nat /\ Len(u) = Len(s) + Len(m)
      /\ \A i \in 1..Len(s) : u[i] = s[i]
      /\ \A i \in 1..Len(m) : u[Len(s) + i] = m[i]
  BY PutBehind
<1> HIDE DEF u
<1>2. k \in 1..Len(u) /\ u[k] = s[k]
  BY <1>1
<1>3. ASSUME NEW i \in 1..Len(u), i # k
      PROVE  u[i].type \in Told
  <2>1. CASE i \in 1..Len(s)
    BY <1>1, <1>3, <2>1 DEF Only
  <2>2. CASE i \notin 1..Len(s)
    <3>1. i - Len(s) \in 1..Len(m) /\ i = Len(s) + (i - Len(s))
      BY <1>1, <2>2
    <3>2. u[i] = m[i - Len(s)]
      BY <1>1, <3>1
    <3> QED
      BY <3>1, <3>2 DEF Plain
  <2> QED
    BY <2>1, <2>2
<1> QED
  BY <1>2, <1>3 DEF Only, u

LEMMA BehindIsNew ==
  ASSUME NEW S, NEW s \in Seq(S), NEW m \in Seq(S),
         NEW i \in (Len(s) + 1)..Len(s \o m)
  PROVE  \E j \in 1..Len(m) : (s \o m)[i] = m[j]
<1> DEFINE u == s \o m
<1>1. /\ Len(s) \in Nat /\ Len(m) \in Nat /\ Len(u) = Len(s) + Len(m)
      /\ \A j \in 1..Len(m) : u[Len(s) + j] = m[j]
  BY PutBehind
<1> HIDE DEF u
<1>2. i \in (Len(s) + 1)..Len(u)
  BY DEF u
<1>3. i - Len(s) \in 1..Len(m) /\ i = Len(s) + (i - Len(s))
  BY <1>1, <1>2
<1> QED
  BY <1>1, <1>3 DEF u

\* Behind the k-th message of s there are messages of m.
Behind(s, k, m) == \A i \in (k + 1)..Len(s) : \E j \in 1..Len(m) : s[i] = m[j]

\* An answer comes behind the messages that wait, and notifications behind it.
LEMMA AnswerArrives ==
  ASSUME NEW S, NEW s \in Seq(S), NEW a \in S, NEW m \in Seq(S), NEW types,
         Plain(s), Plain(m), a.type \in types
  PROVE  /\ Len(s) + 1 \in 1..Len(s \o <<a>> \o m)
         /\ (s \o <<a>> \o m)[Len(s) + 1] = a
         /\ Only(s \o <<a>> \o m, Len(s) + 1, types)
         /\ Behind(s \o <<a>> \o m, Len(s) + 1, m)
<1> DEFINE h == s \o <<a>>
<1> DEFINE k == Len(s) + 1
<1>1. /\ h \in Seq(S) /\ Len(s) \in Nat /\ Len(h) = k
      /\ \A i \in 1..Len(s) : h[i] = s[i]
      /\ h[k] = a
  BY PutBehind
<1> DEFINE u == h \o m
<1> HIDE DEF h
<1>2. Only(h, k, types) /\ k \in 1..Len(h)
  BY <1>1 DEF Only, Plain
<1>3. k \in 1..Len(u) /\ u[k] = h[k] /\ Only(u, k, types)
  BY <1>1, <1>2, OnlyGrows
<1>4. \A i \in (Len(h) + 1)..Len(u) : \E j \in 1..Len(m) : u[i] = m[j]
  BY <1>1, BehindIsNew
<1> HIDE DEF u
<1>5. Behind(u, k, m)
  BY <1>1, <1>4 DEF Behind
<1> QED
  BY <1>1, <1>3, <1>5 DEF h, u

\* Messages come behind those that wait: until the end of t is there, no other
\* turn can end.
LEMMA EndGrows ==
  ASSUME NEW S, NEW s \in Seq(S), NEW m \in Seq(S), NEW k \in 0..Len(s), NEW t
  PROVE  /\ EndFirst(s, k, t) /\ EndComes(s, k, t) => EndFirst(s \o m, k, t)
         /\ EndFirst(s, k, t) /\ (\A i \in 1..Len(m) : m[i].type = "ended" => m[i].turn = t)
              => EndFirst(s \o m, k, t)
         /\ EndComes(s, k, t) => EndComes(s \o m, k, t)
         /\ (\E i \in 1..Len(m) : EndOf(m[i], t)) => EndComes(s \o m, k, t)
<1> DEFINE u == s \o m
<1>1. /\ Len(s) \in Nat /\ Len(m) \in Nat /\ Len(u) = Len(s) + Len(m)
      /\ \A i \in 1..Len(s) : u[i] = s[i]
      /\ \A i \in 1..Len(m) : u[Len(s) + i] = m[i]
  BY PutBehind
<1>2. \A i \in (Len(s) + 1)..Len(u) : \E j \in 1..Len(m) : u[i] = m[j]
  BY BehindIsNew
<1> HIDE DEF u
<1>3. \A i \in (k + 1)..Len(s) : i \in (k + 1)..Len(u) /\ u[i] = s[i]
  BY <1>1
<1>4. \A i \in (k + 1)..Len(u) : i \in (k + 1)..Len(s) \/ i \in (Len(s) + 1)..Len(u)
  BY <1>1
<1>5. ASSUME EndFirst(s, k, t), NEW i \in (k + 1)..Len(s), u[i].type = "ended"
      PROVE  \E j \in (k + 1)..i : EndOf(u[j], t)
  <2>1. PICK j \in (k + 1)..i : EndOf(s[j], t)
    BY <1>3, <1>5 DEF EndFirst
  <2>2. j \in (k + 1)..Len(s)
    BY <1>1, <2>1
  <2> QED
    BY <1>3, <2>1, <2>2
<1>6. ASSUME EndFirst(s, k, t), EndComes(s, k, t)
      PROVE  EndFirst(u, k, t)
  <2>1. PICK j \in (k + 1)..Len(s) : EndOf(s[j], t)
    BY <1>6 DEF EndComes
  <2>2. \A i \in (Len(s) + 1)..Len(u) : j \in (k + 1)..i
    BY <1>1
  <2> QED
    BY <1>3, <1>4, <1>5, <1>6, <2>1, <2>2 DEF EndFirst
<1>7. ASSUME EndFirst(s, k, t), \A i \in 1..Len(m) : m[i].type = "ended" => m[i].turn = t
      PROVE  EndFirst(u, k, t)
  <2>1. ASSUME NEW i \in (Len(s) + 1)..Len(u), u[i].type = "ended"
        PROVE  EndOf(u[i], t)
    BY <1>2, <1>7, <2>1 DEF EndOf
  <2>2. \A i \in (Len(s) + 1)..Len(u) : i \in (k + 1)..i
    BY <1>1
  <2> QED
    BY <1>4, <1>5, <1>7, <2>1, <2>2 DEF EndFirst
<1>8. EndComes(s, k, t) => EndComes(u, k, t)
  BY <1>3 DEF EndComes
<1>9. (\E i \in 1..Len(m) : EndOf(m[i], t)) => EndComes(u, k, t)
  <2> SUFFICES ASSUME NEW i \in 1..Len(m), EndOf(m[i], t)
               PROVE  EndComes(u, k, t)
    OBVIOUS
  <2>1. Len(s) + i \in (k + 1)..Len(u) /\ u[Len(s) + i] = m[i]
    BY <1>1
  <2> QED
    BY <2>1 DEF EndComes
<1> QED
  BY <1>6, <1>7, <1>8, <1>9 DEF u

-----------------------------------------------------------------------------
(* What a call knows of its turn.                                          *)

Earned(c) ==
  /\ result[c].turn \in 1..started
  /\ call[c].continue \/ result[c].turn = call[c].subject
  /\ result[c].status \in Terminal /\ turns[result[c].turn] = result[c].status

\* Of a turn that it joins, a call hears only the request before the answer.
ThreadInv(c) ==
  \E k \in 1..Len(inbox[c]) :
    /\ Only(inbox[c], k, {"thread"})
    /\ call[c].continue =>
         ~result[c].ended /\ \A i \in 1..(k - 1) : inbox[c][i].type = "ask"

\* The answer names the turn that was started, and the ends behind it begin with
\* that turn's.
TurnInv(c) ==
  \E k \in 1..Len(inbox[c]) :
    /\ Only(inbox[c], k, {"turn", "refused"})
    /\ inbox[c][k].type = "turn" =>
         /\ inbox[c][k].turn = call[c].subject
         /\ call[c].subject \in 1..started
         /\ EndsFirst(inbox[c], k, call[c].subject)

StreamInv(c) ==
  /\ Plain(inbox[c])
  /\ ~call[c].continue /\ ~TurnFinished(result[c]) =>
       call[c].subject \in 1..started /\ EndsFirst(inbox[c], 0, call[c].subject)
  /\ TurnFinished(result[c]) => Earned(c)

OrderInv(c) ==
  /\ pc[c] \in {"thread", "send", "turn", "stream"} => c \in joined
  /\ pc[c] = "thread" => ThreadInv(c)
  /\ pc[c] \in {"send", "turn"} => ~call[c].continue
  /\ pc[c] = "send" => Plain(inbox[c])
  /\ pc[c] = "turn" => TurnInv(c)
  /\ pc[c] = "stream" => StreamInv(c)
  /\ pc[c] = "returned" /\ ~result[c].error /\ ~ApprovalRequired(result[c]) =>
       Earned(c) /\ result[c].status = "completed"

\* A step of the server and what it sends to those that joined: an end that was
\* reached stays, and the end of the active turn is sent as it is reached.
Hears(m) ==
  /\ m \in Seq(Message')
  /\ Plain(m)
  /\ \A t \in 1..started : turns[t] \in Terminal => turns'[t] = turns[t]
  /\ \A t \in 1..started : Active(t) =>
       /\ turns'[t] \in {"running", "waiting"} \/ \E i \in 1..Len(m) : EndOf(m[i], t)
       /\ \A i \in 1..Len(m) : m[i].type = "ended" => m[i].turn = t

\* What others do leaves what a call knows.
LEMMA OthersStep ==
  ASSUME TypeInv, NEW c \in Executors, OrderInv(c), NEW m, Hears(m),
         pc'[c] = pc[c], call'[c] = call[c], result'[c] = result[c],
         started' \in {started, started + 1},
         c \in joined => c \in joined' /\ inbox'[c] = inbox[c] \o m
  PROVE  OrderInv(c)'
<1> DEFINE s == inbox[c]
<1> DEFINE t == call[c].subject
<1> DEFINE S == Message \union Message'
<1>1. s \in Seq(S) /\ m \in Seq(S)
  <2>1. s \in Seq(Message) /\ m \in Seq(Message')
    BY ExecutorsAreClients DEF TypeInv, ClientInv, Hears
  <2> QED
    BY <2>1, MoreRoom
<1>2. Plain(m)
  BY DEF Hears
<1>3. 1..started \subseteq 1..started'
  BY TurnNumbers DEF TypeInv
<1>4. ASSUME NEW k \in 0..Len(s), t \in 1..started, EndsFirst(s, k, t)
      PROVE  /\ EndFirst(s \o m, k, t)
             /\ turns'[t] \in {"running", "waiting"} \/ EndComes(s \o m, k, t)
  <2>1. CASE EndComes(s, k, t)
    BY <1>1, <1>4, <2>1, EndGrows DEF EndsFirst
  <2>2. CASE Active(t)
    <3>1. EndFirst(s \o m, k, t)
      BY <1>1, <1>4, <2>2, EndGrows DEF EndsFirst, Hears
    <3>2. turns'[t] \in {"running", "waiting"} \/ EndComes(s \o m, k, t)
      BY <1>1, <1>4, <2>2, EndGrows DEF Hears
    <3> QED
      BY <3>1, <3>2
  <2> QED
    BY <1>4, <2>1, <2>2 DEF EndsFirst
<1>5. Earned(c) => Earned(c)'
  BY <1>3 DEF Earned, Hears
<1>6. CASE pc[c] = "thread"
  <2>1. inbox'[c] = s \o m /\ c \in joined'
    BY <1>6 DEF OrderInv
  <2>2. PICK k \in 1..Len(s) :
          /\ Only(s, k, {"thread"})
          /\ call[c].continue => ~result[c].ended /\ \A i \in 1..(k - 1) : s[i].type = "ask"
    BY <1>6 DEF OrderInv, ThreadInv
  <2>3. k \in 1..Len(inbox'[c]) /\ Only(inbox'[c], k, {"thread"})
    BY <1>1, <1>2, <2>1, <2>2, OnlyGrows
  <2>4. \A i \in 1..(k - 1) : inbox'[c][i] = s[i]
    BY <1>1, <2>1, PutBehind
  <2>5. ThreadInv(c)'
    BY <2>2, <2>3, <2>4 DEF ThreadInv
  <2> QED
    BY <1>6, <2>1, <2>5 DEF OrderInv
<1>7. CASE pc[c] = "send"
  <2>1. inbox'[c] = s \o m /\ c \in joined' /\ Plain(s) /\ ~call[c].continue
    BY <1>7 DEF OrderInv
  <2>2. Plain(inbox'[c])
    BY <1>1, <1>2, <2>1, PlainGrows
  <2> QED
    BY <1>7, <2>1, <2>2 DEF OrderInv
<1>8. CASE pc[c] = "turn"
  <2>1. inbox'[c] = s \o m /\ c \in joined' /\ TurnInv(c) /\ ~call[c].continue
    BY <1>8 DEF OrderInv
  <2>2. PICK k \in 1..Len(s) :
          /\ Only(s, k, {"turn", "refused"})
          /\ s[k].type = "turn" => s[k].turn = t /\ t \in 1..started /\ EndsFirst(s, k, t)
    BY <2>1 DEF TurnInv
  <2>3. /\ k \in 1..Len(inbox'[c]) /\ Only(inbox'[c], k, {"turn", "refused"})
        /\ inbox'[c][k] = s[k]
    BY <1>1, <1>2, <2>1, <2>2, OnlyGrows
  <2>4. ASSUME s[k].type = "turn"
        PROVE  /\ s[k].turn = t /\ t \in 1..started'
               /\ EndFirst(inbox'[c], k, t)
               /\ turns'[t] \in {"running", "waiting"} \/ EndComes(inbox'[c], k, t)
    <3>1. k \in 0..Len(s)
      OBVIOUS
    <3> QED
      BY <1>3, <1>4, <2>1, <2>2, <2>4, <3>1
  <2>5. TurnInv(c)'
    BY <2>3, <2>4 DEF TurnInv, EndsFirst, Active
  <2> QED
    BY <1>8, <2>1, <2>5 DEF OrderInv
<1>9. CASE pc[c] = "stream"
  <2>1. inbox'[c] = s \o m /\ c \in joined' /\ StreamInv(c)
    BY <1>9 DEF OrderInv
  <2>2. Plain(inbox'[c])
    BY <1>1, <1>2, <2>1, PlainGrows DEF StreamInv
  <2>3. ASSUME ~call[c].continue, ~TurnFinished(result[c])
        PROVE  /\ t \in 1..started'
               /\ EndFirst(inbox'[c], 0, t)
               /\ turns'[t] \in {"running", "waiting"} \/ EndComes(inbox'[c], 0, t)
    <3>1. t \in 1..started /\ EndsFirst(s, 0, t) /\ 0 \in 0..Len(s)
      BY <1>1, <2>1, <2>3, PutBehind DEF StreamInv
    <3> QED
      BY <1>3, <1>4, <2>1, <3>1
  <2>4. TurnFinished(result[c]) => Earned(c)'
    BY <1>5, <2>1 DEF StreamInv
  <2>5. StreamInv(c)'
    BY <2>2, <2>3, <2>4 DEF StreamInv, EndsFirst, Active
  <2> QED
    BY <1>9, <2>1, <2>5 DEF OrderInv
<1>10. CASE pc[c] \notin {"thread", "send", "turn", "stream"}
  BY <1>5, <1>10 DEF OrderInv
<1> QED
  BY <1>6, <1>7, <1>8, <1>9, <1>10

LEMMA QuietStep ==
  ASSUME NEW c \in Executors, OrderInv(c),
         pc'[c] = pc[c], call'[c] = call[c], result'[c] = result[c], inbox'[c] = inbox[c],
         c \in joined => c \in joined', UNCHANGED <<turns, started>>
  PROVE  OrderInv(c)'
<1>1. Earned(c)' <=> Earned(c)
  BY DEF Earned
<1>2. ThreadInv(c)' <=> ThreadInv(c)
  BY DEF ThreadInv
<1>3. TurnInv(c)' <=> TurnInv(c)
  BY DEF TurnInv, EndsFirst, Active
<1>4. StreamInv(c)' <=> StreamInv(c)
  BY <1>1 DEF StreamInv, EndsFirst, Active
<1> QED
  BY <1>1, <1>2, <1>3, <1>4 DEF OrderInv

LEMMA ReceiveEffect ==
  ASSUME TypeInv, NEW c \in Executors, NEW types, Receive(c, types)
  PROVE  /\ Listens(c)
         /\ inbox[c] \in Seq(Message) /\ inbox[c] # <<>>
         /\ Head(inbox[c]) \in Message /\ Head(inbox[c]).type \in types
         /\ inbox'[c] = Tail(inbox[c])
         /\ \A d \in Clients : d # c => inbox'[d] = inbox[d]
<1>1. c \in Clients /\ inbox \in [Clients -> Seq(Message)]
  BY ExecutorsAreClients DEF TypeInv, ClientInv
<1>2. /\ Listens(c) /\ inbox[c] # <<>> /\ Head(inbox[c]).type \in types
      /\ inbox' = [inbox EXCEPT ![c] = Tail(inbox[c])]
  BY DEF Receive
<1> QED
  BY <1>1, <1>2, TakeFirst

\* A notification or a request is taken, wherever the call is.
LEMMA HeardStep ==
  ASSUME TypeInv, NEW c \in Executors, OrderInv(c), Receive(c, Told),
         UNCHANGED <<server, joined, pc, call>>,
         NEW r \in ResultType, result'[c] = r,
         Head(inbox[c]).type = "ask" => r.ended = result[c].ended,
         Head(inbox[c]).type = "ended" <=> TurnFinished(r),
         TurnFinished(r) => /\ r.turn = Head(inbox[c]).turn
                            /\ r.status = Head(inbox[c]).status
  PROVE  OrderInv(c)'
<1> DEFINE s == inbox[c]
<1> DEFINE m == Head(inbox[c])
<1> DEFINE t == call[c].subject
<1>1. /\ Listens(c) /\ s \in Seq(Message) /\ s # <<>> /\ inbox'[c] = Tail(s)
      /\ m \in Message /\ m.type \in Told
  BY ReceiveEffect
<1>2. Len(s) \in Nat \ {0} /\ m = s[1]
  BY <1>1, TakeFirst
<1>3. /\ pc[c] \in {"thread", "send", "turn", "stream"} /\ c \in joined'
      /\ pc' = pc /\ call' = call /\ started' = started /\ turns' = turns
  BY <1>1 DEF Listens, OrderInv, server
<1>4. CASE pc[c] = "thread"
  <2>1. PICK k \in 1..Len(s) :
          /\ Only(s, k, {"thread"})
          /\ call[c].continue => ~result[c].ended /\ \A i \in 1..(k - 1) : s[i].type = "ask"
    BY <1>4 DEF OrderInv, ThreadInv
  <2>2. k # 1
    BY <1>1, <1>2, <2>1 DEF Only, Told
  <2>3. k - 1 \in 1..Len(Tail(s)) /\ Only(Tail(s), k - 1, {"thread"})
    BY <1>1, <2>1, <2>2, OnlyTail
  <2>4. ASSUME call[c].continue
        PROVE  ~r.ended /\ \A i \in 1..(k - 2) : Tail(s)[i].type = "ask"
    <3>1. 1 \in 1..(k - 1)
      BY <1>2, <2>1, <2>2
    <3>2. m.type = "ask"
      BY <1>2, <2>1, <2>4, <3>1
    <3>3. \A i \in 1..(k - 2) : i + 1 \in 1..(k - 1) /\ Tail(s)[i] = s[i + 1]
      BY <1>1, <1>2, <2>1, <2>2, TakeFirst
    <3> QED
      BY <2>1, <2>4, <3>2, <3>3
  <2>5. \A i \in 1..((k - 1) - 1) : i \in 1..(k - 2)
    BY <1>2, <2>1
  <2>6. ThreadInv(c)'
    BY <1>1, <1>3, <2>3, <2>4, <2>5 DEF ThreadInv
  <2> QED
    BY <1>3, <1>4, <2>6 DEF OrderInv
<1>5. CASE pc[c] = "send"
  <2>1. Plain(s) /\ ~call[c].continue
    BY <1>5 DEF OrderInv
  <2>2. Plain(inbox'[c])
    BY <1>1, <2>1, PlainTail
  <2> QED
    BY <1>3, <1>5, <2>1, <2>2 DEF OrderInv
<1>6. CASE pc[c] = "turn"
  <2>1. ~call[c].continue /\ TurnInv(c)
    BY <1>6 DEF OrderInv
  <2>2. PICK k \in 1..Len(s) :
          /\ Only(s, k, {"turn", "refused"})
          /\ s[k].type = "turn" => s[k].turn = t /\ t \in 1..started /\ EndsFirst(s, k, t)
    BY <2>1 DEF TurnInv
  <2>3. k # 1
    BY <1>1, <1>2, <2>2 DEF Only, Told
  <2>4. /\ k - 1 \in 1..Len(Tail(s)) /\ Only(Tail(s), k - 1, {"turn", "refused"})
        /\ Tail(s)[k - 1] = s[k]
    BY <1>1, <2>2, <2>3, OnlyTail
  <2>5. ASSUME s[k].type = "turn"
        PROVE  EndsFirst(Tail(s), k - 1, t)
    <3>1. k \in 0..Len(s) /\ k - 1 \in Nat /\ k # 0
      BY <1>2, <2>2
    <3> QED
      BY <1>1, <2>2, <2>5, <3>1, EndTail DEF EndsFirst
  <2>6. TurnInv(c)'
    BY <1>1, <1>3, <2>2, <2>4, <2>5 DEF TurnInv, EndsFirst, Active
  <2> QED
    BY <1>3, <1>6, <2>1, <2>6 DEF OrderInv
<1>7. CASE pc[c] = "stream"
  <2>1. StreamInv(c) /\ ~TurnFinished(result[c])
    BY <1>1, <1>7 DEF OrderInv, Listens
  <2>2. Plain(inbox'[c])
    BY <1>1, <2>1, PlainTail DEF StreamInv
  <2>3. ASSUME ~call[c].continue, ~TurnFinished(r)
        PROVE  t \in 1..started /\ EndsFirst(Tail(s), 0, t)
    <3>1. t \in 1..started /\ EndsFirst(s, 0, t) /\ 0 \in 0..Len(s) /\ m.type # "ended"
      BY <1>2, <2>1, <2>3 DEF StreamInv
    <3>2. 0 \in Nat /\ 0 = IF 0 = 0 THEN 0 ELSE 0 - 1
      OBVIOUS
    <3>3. /\ EndFirst(s, 0, t) => EndFirst(Tail(s), 0, t)
          /\ EndComes(s, 0, t) => EndComes(Tail(s), 0, t)
      BY <1>1, <3>1, <3>2, EndTail
    <3> QED
      BY <3>1, <3>3 DEF EndsFirst
  <2>4. ASSUME TurnFinished(r)
        PROVE  Earned(c)'
    <3>1. m.type = "ended" /\ r.turn = m.turn /\ r.status = m.status
      BY <2>4
    <3>2. m.turn \in 1..started /\ turns[m.turn] = m.status /\ m.status \in Terminal
      BY <1>1, <3>1, EndIsTrue DEF TypeInv
    <3>3. call[c].continue \/ m.turn = t
      <4> SUFFICES ASSUME ~call[c].continue
                   PROVE  m.turn = t
        OBVIOUS
      <4>1. EndFirst(s, 0, t)
        BY <2>1 DEF StreamInv, EndsFirst
      <4> QED
        BY <1>1, <3>1, <4>1, EndHead
    <3> QED
      BY <1>3, <3>1, <3>2, <3>3 DEF Earned
  <2>5. StreamInv(c)'
    BY <1>1, <1>3, <2>2, <2>3, <2>4 DEF StreamInv, EndsFirst, Active
  <2> QED
    BY <1>3, <1>7, <2>5 DEF OrderInv
<1> QED
  BY <1>3, <1>4, <1>5, <1>6, <1>7

LEMMA NotificationOrder ==
  ASSUME TypeInv, NEW c \in Executors, OrderInv(c), TakeNotification(c)
  PROVE  OrderInv(c)'
<1> DEFINE m == Head(inbox[c])
<1> DEFINE old == result[c]
<1> DEFINE r == Observe(old, m)
<1>1. /\ Receive(c, {"started", "waiting", "ended"}) /\ result' = [result EXCEPT ![c] = r]
      /\ UNCHANGED <<server, joined, pc, call>>
  BY DEF TakeNotification
<1>2. m \in Message /\ m.type \in {"started", "waiting", "ended"}
  BY <1>1, ReceiveEffect
<1>3. old \in ResultType
  BY DEF TypeInv, ClientInv
<1>4. r \in ResultType
  BY <1>2, <1>3, ObserveType
<1>5. result'[c] = r
  BY <1>1 DEF TypeInv, ClientInv
<1>6. Receive(c, Told)
  BY <1>1, <1>2 DEF Receive, Told
<1>7. CASE m.type = "ended"
  <2>1. m.status \in Terminal
    BY <1>2, <1>7, EndIsTrue DEF TypeInv
  <2>2. r.status = m.status /\ r.turn = m.turn /\ r.ended
    BY <1>3, <1>7, <2>1 DEF Observe, ResultType, Normal
  <2>3. TurnFinished(r)
    BY <2>1, <2>2 DEF TurnFinished
  <2> HIDE DEF r
  <2> QED
    BY <1>1, <1>4, <1>5, <1>6, <1>7, <2>2, <2>3, HeardStep
<1>8. CASE m.type # "ended"
  <2>1. r.status \in {"in_progress", "approval_required"}
    BY <1>2, <1>3, <1>8 DEF Observe, ResultType
  <2>2. ~TurnFinished(r)
    BY <2>1 DEF TurnFinished, Terminal
  <2>3. m.type # "ask"
    BY <1>2
  <2> HIDE DEF r
  <2> QED
    BY <1>1, <1>4, <1>5, <1>6, <1>8, <2>2, <2>3, HeardStep
<1> QED
  BY <1>7, <1>8

LEMMA RequestOrder ==
  ASSUME TypeInv, NEW c \in Executors, OrderInv(c), TakeRequest(c)
  PROVE  OrderInv(c)'
<1> DEFINE m == Head(inbox[c])
<1> DEFINE old == result[c]
<1> DEFINE r == HandleServerRequest(old, m)
<1>1. /\ Receive(c, {"ask"}) /\ result' = [result EXCEPT ![c] = r]
      /\ UNCHANGED <<server, joined, pc, call>>
  BY DEF TakeRequest
<1>2. m \in Message /\ m.type = "ask"
  BY <1>1, ReceiveEffect
<1>3. old \in ResultType
  BY DEF TypeInv, ClientInv
<1>4. r \in ResultType
  BY <1>2, <1>3, RequestType
<1>5. result'[c] = r
  BY <1>1 DEF TypeInv, ClientInv
<1>6. Receive(c, Told)
  BY <1>1, <1>2 DEF Receive, Told
<1>7. r.status = "approval_required" /\ r.ended = old.ended
  BY <1>3 DEF HandleServerRequest, ResultType
<1>8. ~TurnFinished(r)
  BY <1>7 DEF TurnFinished, Terminal
<1>9. m.type # "ended"
  BY <1>2
<1> HIDE DEF r
<1> QED
  BY <1>1, <1>4, <1>5, <1>6, <1>7, <1>8, <1>9, HeardStep

\* The answer for the thread comes to a call that waits for it.
LEMMA ThreadOrder ==
  ASSUME TypeInv, NEW c \in Executors, OrderInv(c), TakeThread(c)
  PROVE  OrderInv(c)'
<1> DEFINE s == inbox[c]
<1> DEFINE m == Head(inbox[c])
<1> DEFINE old == result[c]
<1>1. Receive(c, {"thread"}) /\ UNCHANGED <<server, joined, call>>
  BY DEF TakeThread
<1>2. /\ Listens(c) /\ s \in Seq(Message) /\ s # <<>> /\ inbox'[c] = Tail(s)
      /\ m.type = "thread"
  BY <1>1, ReceiveEffect
<1>3. pc[c] = "thread"
  <2>1. m.type \notin Told
    BY <1>2 DEF Told
  <2>2. ~Plain(s)
    BY <1>2, <2>1, PlainTail
  <2>3. ~TurnInv(c)
    <3> SUFFICES ASSUME NEW k \in 1..Len(s), Only(s, k, {"turn", "refused"})
                 PROVE  FALSE
      BY DEF TurnInv
    <3> QED
      BY <1>2, <2>1, OnlyTail
  <2> QED
    BY <1>2, <2>2, <2>3 DEF Listens, OrderInv, StreamInv
<1>4. PICK k \in 1..Len(s) :
        /\ Only(s, k, {"thread"})
        /\ call[c].continue => ~result[c].ended /\ \A i \in 1..(k - 1) : s[i].type = "ask"
  BY <1>3 DEF OrderInv, ThreadInv
<1>5. Plain(Tail(s))
  <2>1. k = 1
    BY <1>2, <1>4, OnlyTail DEF Told
  <2> QED
    BY <1>2, <1>4, <2>1, OnlyTail
<1>6. c \in Clients /\ old \in ResultType /\ c \in joined'
  BY <1>1, <1>3, ExecutorsAreClients DEF TypeInv, ClientInv, OrderInv
<1>7. CASE call[c].continue
  <2>1. result' = [result EXCEPT ![c] = Resume(old, m)] /\ Goto(c, "stream")
    BY <1>7 DEF TakeThread
  <2>2. result'[c] = Resume(old, m) /\ pc'[c] = "stream"
    BY <1>6, <2>1 DEF TypeInv, ClientInv, Goto
  <2>3. Resume(old, m).ended = old.ended
    BY <1>6 DEF Resume, ResultType
  <2>4. ~TurnFinished(result'[c])
    BY <1>4, <1>7, <2>2, <2>3 DEF TurnFinished
  <2>5. StreamInv(c)'
    BY <1>1, <1>2, <1>5, <1>7, <2>4 DEF StreamInv
  <2> QED
    BY <1>6, <2>2, <2>5 DEF OrderInv
<1>8. CASE ~call[c].continue
  <2>1. pc'[c] = "send"
    BY <1>6, <1>8 DEF TakeThread, Goto, TypeInv, ClientInv
  <2> QED
    BY <1>1, <1>2, <1>5, <1>6, <1>8, <2>1 DEF OrderInv
<1> QED
  BY <1>7, <1>8

\* The answer to turn/start: the status that another turn's end left is forgotten.
LEMMA TurnOrder ==
  ASSUME TypeInv, NEW c \in Executors, OrderInv(c), TakeTurn(c)
  PROVE  OrderInv(c)'
<1> DEFINE s == inbox[c]
<1> DEFINE m == Head(inbox[c])
<1> DEFINE t == call[c].subject
<1>1. Receive(c, {"turn"}) /\ UNCHANGED <<server, joined, call>> /\ Goto(c, "stream")
  BY DEF TakeTurn
<1>2. /\ Listens(c) /\ s \in Seq(Message) /\ s # <<>> /\ inbox'[c] = Tail(s)
      /\ m \in Message /\ m.type = "turn"
  BY <1>1, ReceiveEffect
<1>3. pc[c] = "turn" /\ m.type \notin Told
  <2>1. m.type \notin Told
    BY <1>2 DEF Told
  <2>2. ~Plain(s)
    BY <1>2, <2>1, PlainTail
  <2>3. ~ThreadInv(c)
    <3> SUFFICES ASSUME NEW k \in 1..Len(s), Only(s, k, {"thread"})
                 PROVE  FALSE
      BY DEF ThreadInv
    <3> QED
      BY <1>2, <2>1, OnlyTail
  <2> QED
    BY <1>2, <2>1, <2>2, <2>3 DEF Listens, OrderInv, StreamInv
<1>4. PICK k \in 1..Len(s) :
        /\ Only(s, k, {"turn", "refused"})
        /\ s[k].type = "turn" => s[k].turn = t /\ t \in 1..started /\ EndsFirst(s, k, t)
  BY <1>3 DEF OrderInv, TurnInv
<1>5. k = 1 /\ Plain(Tail(s)) /\ s[1] = m /\ Len(s) \in Nat \ {0}
  <2>1. k = 1
    BY <1>2, <1>3, <1>4, OnlyTail
  <2> QED
    BY <1>2, <1>4, <2>1, OnlyTail, TakeFirst
<1>6. t \in 1..started /\ EndsFirst(Tail(s), 0, t)
  <2>1. t \in 1..started /\ EndsFirst(s, 1, t) /\ 1 \in 0..Len(s)
    BY <1>2, <1>4, <1>5
  <2>2. 0 \in Nat /\ 0 = IF 1 = 0 THEN 0 ELSE 1 - 1
    OBVIOUS
  <2>3. /\ EndFirst(s, 1, t) => EndFirst(Tail(s), 0, t)
        /\ EndComes(s, 1, t) => EndComes(Tail(s), 0, t)
    BY <1>2, <2>1, <2>2, EndTail
  <2> QED
    BY <2>1, <2>3 DEF EndsFirst
<1>7. ~TurnFinished(result'[c])
  <2>1. m.status = "running" /\ result[c] \in ResultType
    BY <1>2 DEF Message, TypeInv, ClientInv
  <2>2. result' = [result EXCEPT ![c].turn = m.turn, ![c].status = Normal(m.status)]
    BY DEF TakeTurn
  <2>3. result'[c].status = "in_progress"
    BY <2>1, <2>2 DEF TypeInv, ClientInv, ResultType, Normal, Terminal
  <2> QED
    BY <2>3 DEF TurnFinished, Terminal
<1>8. pc'[c] = "stream" /\ c \in joined'
  BY <1>1, <1>3, ExecutorsAreClients DEF TypeInv, ClientInv, Goto, OrderInv
<1>9. StreamInv(c)'
  BY <1>1, <1>2, <1>5, <1>6, <1>7 DEF StreamInv, EndsFirst, Active, server
<1> QED
  BY <1>8, <1>9 DEF OrderInv

\* A call that fails returns an error.
LEMMA FailureOrder ==
  ASSUME TypeInv, NEW c \in Executors, Unavailable(c) \/ TakeRefusal(c) \/ WaitFails(c)
  PROVE  OrderInv(c)'
<1>1. pc'[c] = "returned"
  BY ExecutorsAreClients DEF Unavailable, TakeRefusal, WaitFails, Goto, TypeInv, ClientInv
<1>2. result[c] \in ResultType /\ c \in Clients
  BY ExecutorsAreClients DEF TypeInv, ClientInv
<1>3. CASE Unavailable(c)
  <2>1. result'[c] = [NoResult EXCEPT !.error = TRUE]
    BY <1>3 DEF Unavailable, TypeInv, ClientInv
  <2>2. result'[c].error
    BY <2>1 DEF NoResult
  <2> QED
    BY <1>1, <2>2 DEF OrderInv
<1>4. CASE TakeRefusal(c) \/ WaitFails(c)
  <2>1. PICK status \in {"broken", "failed", "interrupted"} :
          result' = [result EXCEPT ![c] = Failed(result[c], status)]
    BY <1>4 DEF TakeRefusal, WaitFails
  <2>2. Failed(result[c], status).error
    BY <1>2, FailedType
  <2>3. result'[c].error
    BY <2>1, <2>2 DEF TypeInv, ClientInv
  <2> QED
    BY <1>1, <2>3 DEF OrderInv
<1> QED
  BY <1>3, <1>4

\* A call that leaves the stream without an error, and not for an approval, has
\* heard of the end of its turn.
LEMMA FinishOrder ==
  ASSUME TypeInv, NEW c \in Executors, OrderInv(c), Finish(c)
  PROVE  OrderInv(c)'
<1> DEFINE b == ~ApprovalRequired(result[c]) /\ result[c].status # "completed"
<1> DEFINE r == [result[c] EXCEPT !.error = b]
<1>1. result[c] \in ResultType /\ c \in Clients
  BY ExecutorsAreClients DEF TypeInv, ClientInv
<1>2. /\ pc[c] = "stream" /\ ~Listens(c) /\ Goto(c, "returned")
      /\ result' = [result EXCEPT ![c] = r] /\ UNCHANGED <<server, call>>
  BY DEF Finish
<1>3. b \in BOOLEAN
  OBVIOUS
<1>4. b <=> ~ApprovalRequired(result[c]) /\ result[c].status # "completed"
  OBVIOUS
<1> HIDE DEF b
<1>5. /\ r.turn = result[c].turn /\ r.status = result[c].status /\ r.asked = result[c].asked
      /\ r.error = b
  BY <1>1, <1>3 DEF ResultType
<1> HIDE DEF r
<1>6. result'[c] = r /\ pc'[c] = "returned"
  BY <1>1, <1>2 DEF TypeInv, ClientInv, Goto
<1>7. StreamInv(c)
  BY <1>2 DEF OrderInv
<1>8. TurnFinished(result[c]) \/ ApprovalRequired(result[c])
  BY <1>2 DEF Listens
<1>9. ASSUME ~r.error, ~ApprovalRequired(r)
      PROVE  Earned(c)' /\ r.status = "completed"
  <2>1. ~ApprovalRequired(result[c])
    BY <1>5, <1>9 DEF ApprovalRequired
  <2>2. r.status = "completed"
    BY <1>4, <1>5, <1>9, <2>1
  <2>3. Earned(c)
    BY <1>7, <1>8, <2>1 DEF StreamInv
  <2>4. Earned(c)'
    BY <1>2, <1>5, <1>6, <2>3 DEF Earned, server
  <2> QED
    BY <2>2, <2>4
<1> QED
  BY <1>6, <1>9 DEF OrderInv

LEMMA RecordOrder ==
  ASSUME TypeInv, NEW c \in Executors, Record(c)
  PROVE  OrderInv(c)'
<1>1. pc'[c] = "idle"
  BY ExecutorsAreClients DEF Record, Goto, TypeInv, ClientInv
<1> QED
  BY <1>1 DEF OrderInv

\* A call begins with the answer for the thread and perhaps an open request.
LEMMA BeginOrder ==
  ASSUME TypeInv, NEW c \in Executors, Begin(c)
  PROVE  OrderInv(c)'
<1> DEFINE t == IF Unfinished(saved) THEN saved.turn ELSE 0
<1>1. t \in 0..started /\ c \in Clients
  BY TurnNumbers, ExecutorsAreClients DEF TypeInv, ClientInv, RowType
<1>2. Join(c, t) /\ Goto(c, "thread") /\ result' = [result EXCEPT ![c] = [NoResult EXCEPT !.turn = t]]
  BY DEF Begin
<1> HIDE DEF t
<1>3. PICK m \in Message, open \in Seq(Message) :
        /\ m.type = "thread"
        /\ \A i \in 1..Len(open) : open[i].type = "ask"
        /\ \/ inbox' = [inbox EXCEPT ![c] = <<m>> \o open]
           \/ inbox' = [inbox EXCEPT ![c] = open \o <<m>>]
  BY <1>1, <1>2, JoinType DEF TypeInv
<1>4. c \in joined'
  BY <1>2 DEF Join
<1>5. pc'[c] = "thread"
  BY <1>1, <1>2 DEF Goto, TypeInv, ClientInv
<1>6. ~result'[c].ended
  <2>1. result'[c] = [NoResult EXCEPT !.turn = t]
    BY <1>2 DEF TypeInv, ClientInv
  <2> QED
    BY <2>1 DEF NoResult
<1>7. <<m>> \in Seq(Message) /\ Len(<<m>>) = 1 /\ <<m>>[1] = m
  OBVIOUS
<1>8. ThreadInv(c)'
  <2>1. CASE inbox' = [inbox EXCEPT ![c] = <<m>> \o open]
    <3> DEFINE u == <<m>> \o open
    <3>1. inbox'[c] = u
      BY <1>1, <2>1 DEF TypeInv, ClientInv
    <3>2. Only(<<m>>, 1, {"thread"}) /\ 1 \in 1..Len(<<m>>)
      BY <1>3, <1>7 DEF Only
    <3>3. Plain(open)
      BY <1>3 DEF Plain, Told
    <3>4. 1 \in 1..Len(u) /\ Only(u, 1, {"thread"})
      BY <1>7, <3>2, <3>3, OnlyGrows
    <3> QED
      BY <1>6, <3>1, <3>4 DEF ThreadInv
  <2>2. CASE inbox' = [inbox EXCEPT ![c] = open \o <<m>>]
    <3> DEFINE u == open \o <<m>>
    <3> DEFINE k == Len(open) + 1
    <3>1. inbox'[c] = u
      BY <1>1, <2>2 DEF TypeInv, ClientInv
    <3>2. /\ Len(open) \in Nat /\ Len(u) = k /\ u[k] = m
          /\ \A i \in 1..Len(open) : u[i] = open[i]
      BY <1>7, PutBehind
    <3> HIDE DEF u
    <3>3. k \in 1..Len(u)
      BY <3>2
    <3>4. \A i \in 1..(k - 1) : u[i].type = "ask"
      BY <1>3, <3>2
    <3>5. Only(u, k, {"thread"})
      BY <1>3, <3>2, <3>4 DEF Only, Told
    <3> QED
      BY <1>6, <3>1, <3>3, <3>4, <3>5 DEF ThreadInv
  <2> QED
    BY <1>3, <2>1, <2>2
<1> QED
  BY <1>4, <1>5, <1>8 DEF OrderInv

\* The answer to turn/start comes behind what was heard, the notice of the turn
\* behind the answer.
LEMMA AcceptOrder ==
  ASSUME TypeInv, NEW c \in Executors, OrderInv(c), AcceptTurn(c)
  PROVE  OrderInv(c)'
<1> DEFINE s == inbox[c]
<1> DEFINE k == Len(s) + 1
<1> DEFINE t == started + 1
<1>1. pc[c] = "send" /\ Goto(c, "turn") /\ joined' = joined
  BY DEF AcceptTurn
<1>2. /\ c \in joined /\ ~call[c].continue /\ Plain(s)
      /\ c \in Clients /\ s \in Seq(Message) /\ call[c] \in CallType
  BY <1>1, ExecutorsAreClients DEF OrderInv, TypeInv, ClientInv
<1>3. pc'[c] = "turn"
  BY <1>1, <1>2 DEF Goto, TypeInv, ClientInv
<1>4. CASE /\ Idle /\ started < MaxTurns /\ started' = started + 1
           /\ turns' = [turns EXCEPT ![started + 1] = "running"]
           /\ inbox' = [d \in Clients |->
                inbox[d] \o (IF d = c THEN <<Notice("turn", started + 1, "running")>> ELSE <<>>)
                         \o (IF d \in joined THEN <<Notice("started", started + 1, "none")>>
                                             ELSE <<>>)]
           /\ call' = [call EXCEPT ![c].subject = started + 1]
           /\ UNCHANGED <<ask, asks>>
  <2> DEFINE a == Notice("turn", t, "running")
  <2> DEFINE n == Notice("started", t, "none")
  <2> DEFINE ns == <<n>>
  <2> DEFINE types == {"turn", "refused"}
  <2> DEFINE u == s \o <<a>> \o ns
  <2>1. /\ Message \subseteq Message' /\ a \in Message' /\ n \in Message'
        /\ turns'[t] = "running"
    BY <1>4, StartEffect DEF TypeInv
  <2>2. inbox'[c] = u
    BY <1>2, <1>4
  <2>3. /\ a.type = "turn" /\ a.turn = t /\ n.type = "started"
    BY DEF Notice
  <2>4. started \in Nat /\ started' = t
    BY <1>4, TurnNumbers DEF TypeInv
  <2>5. call'[c].subject = t /\ call'[c].continue = call[c].continue
    BY <1>2, <1>4 DEF TypeInv, ClientInv, CallType
  <2> HIDE DEF a, n, t
  <2>6. /\ s \in Seq(Message') /\ ns \in Seq(Message') /\ Plain(ns)
        /\ a.type \in types /\ \A j \in 1..Len(ns) : ns[j] = n
    BY <1>2, <2>1, <2>3, MoreRoom DEF Plain, Told
  <2> HIDE DEF ns, types
  <2>7. /\ k \in 1..Len(u) /\ u[k] = a /\ Only(u, k, types)
        /\ Behind(u, k, ns)
    BY <1>2, <2>1, <2>6, AnswerArrives
  <2> HIDE DEF u
  <2>8. \A i \in (k + 1)..Len(u) : u[i].type # "ended"
    <3>1. \A i \in (k + 1)..Len(u) : u[i] = n
      BY <2>6, <2>7 DEF Behind
    <3> QED
      BY <2>3, <3>1
  <2>9. EndFirst(u, k, t)
    BY <2>8 DEF EndFirst
  <2>10. t \in 1..started' /\ t # 0
    BY <2>4 DEF t
  <2>11. TurnInv(c)'
    <3>1. EndFirst(inbox'[c], k, call'[c].subject)
      BY <2>2, <2>5, <2>9
    <3>2. Active(call[c].subject)'
      BY <2>1, <2>5, <2>10 DEF Active
    <3>3. /\ k \in 1..Len(inbox'[c]) /\ Only(inbox'[c], k, {"turn", "refused"})
          /\ inbox'[c][k].turn = call'[c].subject /\ call'[c].subject \in 1..started'
      BY <2>2, <2>3, <2>5, <2>7, <2>10 DEF types
    <3> HIDE DEF k
    <3> QED
      BY <3>1, <3>2, <3>3 DEF TurnInv, EndsFirst
  <2> QED
    BY <1>1, <1>2, <1>3, <2>5, <2>11 DEF OrderInv
<1>5. CASE /\ inbox' = [inbox EXCEPT ![c] = Append(@, Notice("refused", 0, "none"))]
           /\ UNCHANGED <<started, turns, call>>
  <2> DEFINE a == Notice("refused", 0, "none")
  <2> DEFINE u == Append(s, a)
  <2>1. a.type = "refused"
    BY DEF Notice
  <2>2. inbox'[c] = u
    BY <1>2, <1>5 DEF TypeInv, ClientInv
  <2> HIDE DEF a
  <2>3. /\ Len(s) \in Nat /\ Len(u) = k /\ u[k] = a
        /\ \A i \in 1..Len(s) : u[i] = s[i]
    BY <1>2
  <2> HIDE DEF u
  <2>4. k \in 1..Len(u) /\ Only(u, k, {"turn", "refused"}) /\ u[k].type # "turn"
    BY <1>2, <2>1, <2>3 DEF Only, Plain
  <2> HIDE DEF k
  <2>5. TurnInv(c)'
    BY <2>2, <2>4 DEF TurnInv
  <2> QED
    BY <1>1, <1>2, <1>3, <1>5, <2>5 DEF OrderInv
<1> QED
  BY <1>4, <1>5 DEF AcceptTurn

-----------------------------------------------------------------------------
(* What the others do.                                                     *)

LEMMA EndIsHeard ==
  ASSUME TypeInv, NEW t \in 1..MaxTurns, Active(t), NEW outcome \in Terminal, End(t, outcome),
         UNCHANGED <<started, asks>>
  PROVE  Hears(<<Notice("ended", t, outcome)>>)
<1> DEFINE n == Notice("ended", t, outcome)
<1> DEFINE m == <<n>>
<1>1. n \in Message' /\ turns' = [turns EXCEPT ![t] = outcome]
  BY EndEffect DEF TypeInv, End
<1>2. EndOf(n, t) /\ n.type \in Told /\ n.turn = t
  BY DEF Notice, EndOf, Told
<1> HIDE DEF n
<1>3. m \in Seq(Message') /\ Len(m) = 1 /\ m[1] = n
  BY <1>1
<1> HIDE DEF m
<1>4. \A i \in 1..Len(m) : m[i] = n
  BY <1>3
<1>5. Plain(m)
  BY <1>2, <1>4 DEF Plain
<1>6. \A u \in 1..started : turns[u] \in Terminal => turns'[u] = turns[u]
  <2>1. turns[t] \notin Terminal
    BY DEF Active, Terminal
  <2>2. \A u \in 1..started : u \in 1..MaxTurns
    BY TurnNumbers DEF TypeInv
  <2> QED
    BY <1>1, <2>1, <2>2 DEF TypeInv, ServerInv
<1>7. \A u \in 1..started : Active(u) => u = t
  BY TurnNumbers DEF TypeInv, ServerInv
<1>8. \E i \in 1..Len(m) : EndOf(m[i], t)
  BY <1>2, <1>3
<1> QED
  BY <1>2, <1>3, <1>4, <1>5, <1>6, <1>7, <1>8 DEF Hears, m, n

\* Whatever is sent while no turn ends.
LEMMA GoesOn ==
  ASSUME NEW m \in Seq(Message'), \A i \in 1..Len(m) : m[i].type \in {"started", "waiting", "ask"},
         \A t \in 1..started : turns[t] \in Terminal => turns'[t] = turns[t],
         \A t \in 1..started : turns[t] \in {"running", "waiting"} =>
                                 turns'[t] \in {"running", "waiting"}
  PROVE  Hears(m)
<1>1. Plain(m) /\ \A i \in 1..Len(m) : m[i].type # "ended"
  BY DEF Plain, Told
<1> QED
  BY <1>1 DEF Hears, Active

LEMMA OtherCallOrder ==
  ASSUME TypeInv, NEW c \in Executors, OrderInv(c), NEW d \in Executors, d # c,
         Begin(d) \/ Unavailable(d) \/ ExecuteStep(d) \/ WaitFails(d)
  PROVE  OrderInv(c)'
<1>1. /\ c \in Clients /\ d \in Clients
      /\ pc \in [Clients -> Places] /\ call \in [Clients -> CallType]
      /\ result \in [Executors -> ResultType] /\ inbox \in [Clients -> Seq(Message)]
  BY ExecutorsAreClients DEF TypeInv, ClientInv
<1>2. /\ turns' = turns /\ started' = started
      /\ result'[c] = result[c] /\ pc'[c] = pc[c] /\ call'[c] = call[c] /\ inbox'[c] = inbox[c]
      /\ c \in joined => c \in joined'
  <2>1. CASE Begin(d)
    BY <1>1, <2>1 DEF Begin, Join, Goto, server
  <2>2. CASE Unavailable(d)
    BY <1>1, <2>2 DEF Unavailable, Goto, server
  <2>3. CASE WaitFails(d)
    BY <1>1, <2>3 DEF WaitFails, Goto, server
  <2>4. CASE TakeNotification(d) \/ TakeRequest(d)
    BY <1>1, <2>4 DEF TakeNotification, TakeRequest, Receive, server
  <2>5. CASE TakeThread(d) \/ TakeTurn(d) \/ TakeRefusal(d)
    BY <1>1, <2>5 DEF TakeThread, TakeTurn, TakeRefusal, Receive, Goto, server
  <2>6. CASE Finish(d) \/ Record(d)
    BY <1>1, <2>6 DEF Finish, Record, Close, Goto, server
  <2> QED
    BY <2>1, <2>2, <2>3, <2>4, <2>5, <2>6 DEF ExecuteStep
<1> QED
  BY <1>2, QuietStep

LEMMA OtherAcceptOrder ==
  ASSUME TypeInv, NEW c \in Executors, OrderInv(c), NEW d \in Executors, d # c, AcceptTurn(d)
  PROVE  OrderInv(c)'
<1>1. /\ c \in Clients /\ d \in Clients /\ inbox[c] \in Seq(Message)
  BY ExecutorsAreClients DEF TypeInv, ClientInv
<1>2. pc'[c] = pc[c] /\ result' = result /\ joined' = joined /\ call'[c] = call[c]
  BY <1>1 DEF AcceptTurn, Goto, TypeInv, ClientInv
<1>3. CASE /\ Idle /\ started < MaxTurns /\ started' = started + 1
           /\ turns' = [turns EXCEPT ![started + 1] = "running"]
           /\ inbox' = [x \in Clients |->
                inbox[x] \o (IF x = d THEN <<Notice("turn", started + 1, "running")>> ELSE <<>>)
                         \o (IF x \in joined THEN <<Notice("started", started + 1, "none")>>
                                             ELSE <<>>)]
           /\ UNCHANGED <<ask, asks>>
  <2> DEFINE n == Notice("started", started + 1, "none")
  <2> DEFINE m == <<n>>
  <2>1. n \in Message' /\ \A t \in 1..started : turns'[t] = turns[t]
    BY <1>3, StartEffect DEF TypeInv
  <2>2. n.type = "started"
    BY DEF Notice
  <2>3. c \in joined => inbox'[c] = inbox[c] \o m
    <3>1. c \in joined => inbox'[c] = inbox[c] \o <<>> \o m
      BY <1>1, <1>3
    <3>2. inbox[c] \o <<>> = inbox[c]
      BY <1>1, ConcatEmptySeq
    <3> QED
      BY <3>1, <3>2
  <2> HIDE DEF n
  <2>4. m \in Seq(Message') /\ \A i \in 1..Len(m) : m[i].type \in {"started", "waiting", "ask"}
    BY <2>1, <2>2
  <2> HIDE DEF m
  <2>5. Hears(m)
    BY <2>1, <2>4, GoesOn
  <2> QED
    BY <1>2, <1>3, <2>3, <2>5, OthersStep
<1>4. CASE /\ inbox' = [inbox EXCEPT ![d] = Append(@, Notice("refused", 0, "none"))]
           /\ UNCHANGED <<started, turns, call>>
  <2>1. inbox'[c] = inbox[c]
    BY <1>1, <1>4 DEF TypeInv, ClientInv
  <2> QED
    BY <1>2, <1>4, <2>1, QuietStep
<1> QED
  BY <1>3, <1>4 DEF AcceptTurn

LEMMA CommandOrder ==
  ASSUME TypeInv, NEW c \in Executors, OrderInv(c), NEW o \in Operators, Command(o)
  PROVE  OrderInv(c)'
<1>1. /\ c \in Clients /\ o \in Clients /\ o # c
      /\ pc \in [Clients -> Places] /\ call \in [Clients -> CallType]
      /\ inbox \in [Clients -> Seq(Message)]
  BY ExecutorsAreClients DEF TypeInv, ClientInv
<1>2. CASE \/ Approve(o) \/ Deny(o) \/ MatchApproval(o) \/ AskToInterrupt(o) \/ Kill(o)
           \/ AskToSteer(o) \/ Steer(o) \/ SaveControl(o) \/ SessionBreaks(o)
  <2>1. /\ turns' = turns /\ started' = started /\ result' = result
        /\ pc'[c] = pc[c] /\ call'[c] = call[c] /\ inbox'[c] = inbox[c]
        /\ c \in joined => c \in joined'
    <3>1. CASE Approve(o) \/ Deny(o)
      BY <1>1, <3>1 DEF Approve, Deny, Read, Join, Goto, server
    <3>2. CASE AskToInterrupt(o) \/ Kill(o) \/ AskToSteer(o)
      BY <1>1, <3>2 DEF AskToInterrupt, Kill, AskToSteer, Read, Goto, server
    <3>3. CASE MatchApproval(o)
      BY <1>1, <3>3 DEF MatchApproval, Goto, server
    <3>4. CASE Steer(o) \/ SaveControl(o) \/ SessionBreaks(o)
      BY <1>1, <3>4 DEF Steer, SaveControl, SessionBreaks, Abort, Close, Goto, server
    <3> QED
      BY <1>2, <3>1, <3>2, <3>3, <3>4
  <2> QED
    BY <2>1, QuietStep
<1>3. CASE Answer(o)
  <2>1. /\ result' = result /\ call' = call /\ started' = started
        /\ pc'[c] = pc[c] /\ inbox'[c] = inbox[c] /\ (c \in joined => c \in joined')
    BY <1>1, <1>3 DEF Answer, Close, Goto
  <2>2. CASE UNCHANGED <<turns, ask>>
    BY <2>1, <2>2, QuietStep
  <2>3. CASE ask.id = call[o].subject /\ turns' = [turns EXCEPT ![ask.turn] = "running"] /\ ask' = NoAsk
    <3>1. ask # NoAsk
      BY <1>3, <2>3 DEF Answer, TypeInv, AnswerInv, NoAsk
    <3>2. turns[ask.turn] = "waiting" /\ \A t \in 1..started : t \in 1..MaxTurns
      BY <3>1, OpenRequest, TurnNumbers DEF TypeInv
    <3>3. \A t \in 1..started :
            /\ turns[t] \in Terminal => turns'[t] = turns[t]
            /\ turns[t] \in {"running", "waiting"} => turns'[t] \in {"running", "waiting"}
      BY <2>3, <3>2 DEF TypeInv, ServerInv, Terminal
    <3>4. Hears(<<>>)
      <4> DEFINE m == <<>>
      <4>1. m \in Seq(Message') /\ Len(m) = 0
        OBVIOUS
      <4> HIDE DEF m
      <4>2. \A i \in 1..Len(m) : m[i].type \in {"started", "waiting", "ask"}
        BY <4>1
      <4> QED
        BY <3>3, <4>1, <4>2, GoesOn DEF m
    <3>5. inbox'[c] = inbox[c] \o <<>>
      BY <1>1, <2>1, ConcatEmptySeq
    <3> QED
      BY <2>1, <3>4, <3>5, OthersStep
  <2> QED
    BY <1>3, <2>2, <2>3 DEF Answer
<1>4. CASE Interrupt(o)
  <2> DEFINE t == call[o].copy.turn
  <2>1. /\ result' = result /\ started' = started /\ asks' = asks /\ joined' = joined
        /\ pc'[c] = pc[c] /\ call'[c] = call[c]
    BY <1>1, <1>4 DEF Interrupt, Abort, Goto
  <2>2. CASE Active(t) /\ End(t, "interrupted")
    <3>1. t \in 1..MaxTurns
      <4>1. t \in 0..started /\ t # 0
        BY <1>1, <2>2 DEF CallType, RowType, Active
      <4> QED
        BY <4>1, TurnNumbers DEF TypeInv
    <3> DEFINE m == <<Notice("ended", t, "interrupted")>>
    <3>2. Hears(m)
      BY <2>1, <2>2, <3>1, EndIsHeard DEF Terminal
    <3>3. c \in joined => inbox'[c] = inbox[c] \o m
      BY <1>1, <2>2 DEF End, Tell
    <3> QED
      BY <2>1, <3>2, <3>3, OthersStep
  <2>3. CASE UNCHANGED <<turns, ask, inbox>>
    BY <2>1, <2>3, QuietStep
  <2> QED
    BY <1>4, <2>2, <2>3 DEF Interrupt
<1> QED
  BY <1>2, <1>3, <1>4 DEF Command

LEMMA ServerOrder ==
  ASSUME TypeInv, NEW c \in Executors, OrderInv(c), NEW t \in 1..MaxTurns,
         TurnEnds(t) \/ TurnAsks(t)
  PROVE  OrderInv(c)'
<1>1. c \in Clients /\ UNCHANGED <<started, joined, pc, call, result>>
  BY ExecutorsAreClients DEF TurnEnds, TurnAsks
<1>2. CASE TurnEnds(t)
  <2>1. PICK outcome \in Terminal : Active(t) /\ End(t, outcome) /\ asks' = asks
    BY <1>2 DEF TurnEnds, Terminal
  <2> DEFINE m == <<Notice("ended", t, outcome)>>
  <2>2. Hears(m)
    BY <1>1, <2>1, EndIsHeard
  <2>3. c \in joined => inbox'[c] = inbox[c] \o m
    BY <1>1, <2>1 DEF End, Tell
  <2> QED
    BY <1>1, <2>2, <2>3, OthersStep
<1>3. CASE TurnAsks(t)
  <2> DEFINE a == Request(ask')
  <2> DEFINE n == Notice("waiting", t, "none")
  <2>1. PICK item \in Items : ask' = [id |-> asks + 1, turn |-> t, item |-> item]
    BY <1>3 DEF TurnAsks
  <2>2. /\ turns[t] = "running" /\ asks < MaxAsks /\ asks' = asks + 1
        /\ turns' = [turns EXCEPT ![t] = "waiting"]
        /\ Tell(<<a, n>>) \/ Tell(<<n, a>>)
    BY <1>3 DEF TurnAsks
  <2>3. a \in Message' /\ n \in Message'
    BY <1>1, <2>1, <2>2, AskEffect DEF TypeInv
  <2>4. \A u \in 1..started :
          /\ turns[u] \in Terminal => turns'[u] = turns[u]
          /\ turns[u] \in {"running", "waiting"} => turns'[u] \in {"running", "waiting"}
    <3>1. \A u \in 1..started : u \in 1..MaxTurns
      BY TurnNumbers DEF TypeInv
    <3> QED
      BY <2>2, <3>1 DEF TypeInv, ServerInv, Terminal
  <2>5. a.type = "ask" /\ n.type = "waiting"
    BY DEF Request, Notice
  <2> HIDE DEF a, n
  <2>6. PICK m \in {<<a, n>>, <<n, a>>} : Tell(m)
    BY <2>2
  <2>7. m \in Seq(Message') /\ \A i \in 1..Len(m) : m[i].type \in {"started", "waiting", "ask"}
    <3>1. m \in Seq(Message') /\ Len(m) = 2 /\ m[1] \in {a, n} /\ m[2] \in {a, n}
      <4>1. <<a, n>> \in Seq(Message') /\ <<n, a>> \in Seq(Message')
        BY <2>3
      <4>2. m = <<a, n>> \/ m = <<n, a>>
        BY <2>6
      <4>3. CASE m = <<a, n>>
        BY <4>1, <4>3
      <4>4. CASE m = <<n, a>>
        BY <4>1, <4>4
      <4> QED
        BY <4>2, <4>3, <4>4
    <3>2. \A i \in 1..Len(m) : i = 1 \/ i = 2
      BY <3>1
    <3> QED
      BY <2>5, <3>1, <3>2
  <2>8. Hears(m)
    BY <2>4, <2>7, GoesOn
  <2>9. c \in joined => inbox'[c] = inbox[c] \o m
    BY <1>1, <2>6 DEF Tell
  <2> QED
    BY <1>1, <2>8, <2>9, OthersStep
<1> QED
  BY <1>2, <1>3

-----------------------------------------------------------------------------
(* The theorem about results.                                              *)

ResultsInv == TypeInv /\ \A c \in Executors : OrderInv(c)

LEMMA OrderKept ==
  ASSUME ResultsInv, [Next]_vars, NEW c \in Executors
  PROVE  OrderInv(c)'
<1>1. TypeInv /\ OrderInv(c)
  BY DEF ResultsInv
<1>2. ASSUME NEW d \in Executors,
             Begin(d) \/ Unavailable(d) \/ AcceptTurn(d) \/ ExecuteStep(d) \/ WaitFails(d)
      PROVE  OrderInv(c)'
  <2>1. CASE d = c
    BY <1>1, <1>2, <2>1, BeginOrder, FailureOrder, AcceptOrder, NotificationOrder, RequestOrder,
       ThreadOrder, TurnOrder, FinishOrder, RecordOrder DEF ExecuteStep
  <2>2. CASE d # c
    BY <1>1, <1>2, <2>2, OtherCallOrder, OtherAcceptOrder
  <2> QED
    BY <2>1, <2>2
<1>3. ASSUME NEW o \in Operators, Command(o)
      PROVE  OrderInv(c)'
  BY <1>1, <1>3, CommandOrder
<1>4. ASSUME NEW t \in 1..MaxTurns, TurnEnds(t) \/ TurnAsks(t)
      PROVE  OrderInv(c)'
  BY <1>1, <1>4, ServerOrder
<1>5. CASE UNCHANGED vars
  BY <1>1, <1>5, QuietStep DEF vars
<1> QED
  BY <1>2, <1>3, <1>4, <1>5 DEF Next

\* A call that returns a completed turn and no error names a turn that did
\* complete, and the one it started when it was to start one (runTurn, observe):
\* the ends of other turns that it hears of do not count.
THEOREM ResultIsEarned == Spec => []ResultEarned
<1>1. Init => ResultsInv
  <2>1. ASSUME Init, NEW c \in Executors
        PROVE  OrderInv(c)
    <3>1. pc[c] = "idle"
      BY <2>1, ExecutorsAreClients DEF Init
    <3> QED
      BY <3>1 DEF OrderInv
  <2> QED
    BY <2>1, TypesBegin DEF ResultsInv
<1>2. ResultsInv /\ [Next]_vars => ResultsInv'
  BY TypesKept, OrderKept DEF ResultsInv
<1>3. ResultsInv => ResultEarned
  <2> SUFFICES ASSUME ResultsInv, NEW c \in Executors,
                      pc[c] = "returned", ~result[c].error, ~ApprovalRequired(result[c])
               PROVE  /\ result[c].turn # 0
                      /\ call[c].continue \/ result[c].turn = call[c].subject
                      /\ result[c].status = "completed"
                      /\ turns[result[c].turn] = "completed"
    BY DEF ResultEarned
  <2> QED
    BY DEF ResultsInv, OrderInv, Earned
<1> QED
  BY <1>1, <1>2, <1>3, PTL DEF Spec

=============================================================================

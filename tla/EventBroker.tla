----------------------------- MODULE EventBroker -----------------------------
(***************************************************************************)
(* The event stream between a control server and the console shell         *)
(* (internal/activity/broker.go, handleEvents of internal/control/         *)
(* server.go, startEventStream of console/v2-shell/electron/main.js).      *)
(* The broker numbers events, keeps the latest in a history and sends them *)
(* to the channels of its subscribers under one mutex; a subscription is   *)
(* replayed the history first.  The shell reconnects from the highest      *)
(* number it has seen, while the handler of its previous stream may still  *)
(* be there.  An event is its number.                                      *)
(***************************************************************************)
EXTENDS Naturals, Sequences, Functions

CONSTANTS Streams,       \* handlers of GET /v2/events of the one shell
          HistoryLimit,  \* events the broker keeps (256)
          Capacity,      \* events a subscriber's channel holds (64)
          MaxEvents,     \* bound: events published by one server
          MaxRestarts    \* bound: restarts of the server

ASSUME BrokerAssumption ==
  /\ HistoryLimit \in Nat \ {0} /\ Capacity \in Nat \ {0}
  /\ MaxEvents \in Nat /\ MaxRestarts \in Nat
  /\ "none" \notin Streams

VARIABLES
  nextSequence,  \* number of the last event
  history,       \* the latest events
  subscribers,   \* the streams in the broker's map
  lock,          \* the stream that holds the broker's mutex, or "none"
  stream,        \* per stream: place, from, replayed, at, channel, open
  shell,         \* the window: its current stream, and lastEventSequence
  seen,          \* events of this server that the shell was given
  lost,          \* events of this server that found the shell's channel full
  restarts

vars == <<nextSequence, history, subscribers, lock, stream, shell, seen, lost,
          restarts>>

NoStream == [place |-> "idle", from |-> 0, replayed |-> 0, at |-> 0,
             channel |-> <<>>, open |-> FALSE]

Places == {"idle", "subscribe", "replay", "stream", "close"}

Init ==
  /\ nextSequence = 0 /\ history = <<>> /\ subscribers = {} /\ lock = "none"
  /\ stream = [s \in Streams |-> NoStream]
  /\ shell = [stream |-> "none", last |-> 0]
  /\ seen = {} /\ lost = {} /\ restarts = 0

\* Mutant: the history is cut one event late.
LatestOffByOne(events) ==
  IF Len(events) > HistoryLimit + 1 THEN Tail(events) ELSE events

\* What the history keeps of the events published so far.
Latest(events) ==
  IF Len(events) > HistoryLimit THEN Tail(events) ELSE events

Full(s) == Len(stream[s].channel) = Capacity

-----------------------------------------------------------------------------
(* The broker.                                                             *)

\* Mutant: a publisher that does not wait for a subscription under way.
PublishUnlocked ==
  /\ nextSequence < MaxEvents
  /\ nextSequence' = nextSequence + 1
  /\ history' = Latest(Append(history, nextSequence'))
  /\ stream' = [s \in Streams |->
       IF s \in subscribers /\ ~Full(s)
       THEN [stream[s] EXCEPT !.channel = Append(@, nextSequence')] ELSE stream[s]]
  /\ lost' = IF shell.stream \in subscribers /\ Full(shell.stream)
             THEN lost \union {nextSequence'} ELSE lost
  /\ UNCHANGED <<subscribers, lock, shell, seen, restarts>>

\* Publish: a subscriber whose channel is full is skipped.
Publish ==
  /\ lock = "none"
  /\ nextSequence < MaxEvents
  /\ nextSequence' = nextSequence + 1
  /\ history' = Latest(Append(history, nextSequence'))
  /\ stream' = [s \in Streams |->
       IF s \in subscribers /\ ~Full(s)
       THEN [stream[s] EXCEPT !.channel = Append(@, nextSequence')] ELSE stream[s]]
  /\ lost' = IF shell.stream \in subscribers /\ Full(shell.stream)
             THEN lost \union {nextSequence'} ELSE lost
  /\ UNCHANGED <<subscribers, lock, shell, seen, restarts>>

\* Subscribe takes the mutex.
Subscribe(s) ==
  /\ stream[s].place = "subscribe"
  /\ lock = "none"
  /\ lock' = s
  /\ stream' = [stream EXCEPT ![s].place = "replay", ![s].open = TRUE]
  /\ UNCHANGED <<nextSequence, history, subscribers, shell, seen, lost, restarts>>

\* One event of the history: it is sent, blocking, if the client lacks it.
Replay(s) ==
  /\ stream[s].place = "replay"
  /\ stream[s].replayed < Len(history)
  /\ LET event == history[stream[s].replayed + 1] IN
       /\ event > stream[s].from => ~Full(s)
       /\ stream' = [stream EXCEPT
            ![s].replayed = @ + 1,
            ![s].channel = IF event > stream[s].from THEN Append(@, event) ELSE @]
  /\ UNCHANGED <<nextSequence, history, subscribers, lock, shell, seen, lost, restarts>>

\* The channel enters the map and the mutex is released.
Register(s) ==
  /\ stream[s].place = "replay"
  /\ stream[s].replayed = Len(history)
  /\ subscribers' = subscribers \union {s}
  /\ lock' = "none"
  /\ stream' = [stream EXCEPT ![s].place = "stream", ![s].at = nextSequence]
  /\ UNCHANGED <<nextSequence, history, shell, seen, lost, restarts>>

-----------------------------------------------------------------------------
(* The handler and the shell.                                              *)

\* Mutant: the place in the stream is forgotten between connections.
ConnectFromStart(s) ==
  /\ stream[s].place = "idle"
  /\ stream' = [stream EXCEPT ![s] = [NoStream EXCEPT !.place = "subscribe"]]
  /\ shell' = [shell EXCEPT !.stream = s]
  /\ UNCHANGED <<nextSequence, history, subscribers, lock, seen, lost, restarts>>

\* startEventStream: the stream before is aborted, a new one asked for.
Connect(s) ==
  /\ stream[s].place = "idle"
  /\ stream' = [stream EXCEPT ![s] = [NoStream EXCEPT !.place = "subscribe",
                                                      !.from = shell.last]]
  /\ shell' = [shell EXCEPT !.stream = s]
  /\ UNCHANGED <<nextSequence, history, subscribers, lock, seen, lost, restarts>>

\* The stream breaks, or the window aborts it.
Disconnect ==
  /\ shell.stream # "none"
  /\ shell' = [shell EXCEPT !.stream = "none"]
  /\ UNCHANGED <<nextSequence, history, subscribers, lock, stream, seen, lost, restarts>>

\* The handler writes an event of the channel and the shell reads it.
Deliver(s) ==
  /\ stream[s].place = "stream"
  /\ shell.stream = s
  /\ stream[s].channel # <<>>
  /\ LET event == Head(stream[s].channel) IN
       /\ seen' = seen \union {event}
       /\ shell' = [shell EXCEPT !.last = IF event > @ THEN event ELSE @]
  /\ stream' = [stream EXCEPT ![s].channel = Tail(@)]
  /\ UNCHANGED <<nextSequence, history, subscribers, lock, lost, restarts>>

\* Mutant: the channel is closed before it leaves the map.
CancelClosing(s) ==
  /\ stream[s].place = "stream"
  /\ shell.stream # s
  /\ stream' = [stream EXCEPT ![s].place = "close", ![s].open = FALSE]
  /\ UNCHANGED <<nextSequence, history, subscribers, lock, shell, seen, lost, restarts>>

\* The context of the handler is done: its channel leaves the map.
Cancel(s) ==
  /\ stream[s].place = "stream"
  /\ shell.stream # s
  /\ lock = "none"
  /\ subscribers' = subscribers \ {s}
  /\ stream' = [stream EXCEPT ![s].place = "close"]
  /\ UNCHANGED <<nextSequence, history, lock, shell, seen, lost, restarts>>

\* The channel is closed, outside the mutex.
CloseChannel(s) ==
  /\ stream[s].place = "close"
  /\ stream' = [stream EXCEPT ![s] = NoStream]
  /\ UNCHANGED <<nextSequence, history, subscribers, lock, shell, seen, lost, restarts>>

\* A new server numbers its events from 1; the shell keeps its number.
RestartServer ==
  /\ restarts < MaxRestarts
  /\ restarts' = restarts + 1
  /\ nextSequence' = 0 /\ history' = <<>> /\ subscribers' = {} /\ lock' = "none"
  /\ stream' = [s \in Streams |-> NoStream]
  /\ shell' = [shell EXCEPT !.stream = "none"]
  /\ seen' = {} /\ lost' = {}

Handle(s) == \/ Subscribe(s) \/ Replay(s) \/ Register(s)
             \/ Deliver(s) \/ Cancel(s) \/ CloseChannel(s)

Next == \/ Publish \/ Disconnect \/ RestartServer
        \/ \E s \in Streams : Connect(s) \/ Handle(s)

Spec == Init /\ [][Next]_vars

\* The handlers wait for the mutex and for nothing else.
FairSpec == Spec /\ \A s \in Streams : SF_vars(Handle(s))

-----------------------------------------------------------------------------
(* Properties.                                                             *)

StreamType == [place : Places, from : Nat, replayed : Nat, at : Nat,
               channel : Seq(Nat), open : BOOLEAN]

\* Types; a channel never holds more than it has room for, the history no more
\* than its limit, and the mutex is held exactly while history is replayed.
TypeOK ==
  /\ nextSequence \in Nat /\ restarts \in Nat
  /\ history \in Seq(Nat) /\ Len(history) <= HistoryLimit
  /\ subscribers \subseteq Streams
  /\ lock \in Streams \union {"none"}
  /\ stream \in [Streams -> StreamType]
  /\ shell \in [stream : Streams \union {"none"}, last : Nat]
  /\ seen \subseteq Nat /\ lost \subseteq Nat
  /\ \A s \in Streams : /\ Len(stream[s].channel) <= Capacity
                        /\ stream[s].place = "replay" <=> lock = s

\* The handover from replay to live events skips none: once the shell's stream
\* is registered, every event of the history that it asked for, or that came
\* later, was seen, is in the channel, or found the channel full.
NothingSkipped ==
  shell.stream \in subscribers =>
    LET s == stream[shell.stream] IN
      \A event \in Range(history) :
        event > s.from \/ event > s.at => event \in seen \union lost \union Range(s.channel)

\* Over reconnections, with the previous stream perhaps still subscribed, the
\* shell is given the events of one server in their order, and none twice.
InOrderOnce ==
  [][\A s \in Streams : Deliver(s) =>
       \A event \in seen : event < Head(stream[s].channel)]_vars

\* Publish never sends on a closed channel, which would end the server.
NoSendOnClosed == \A s \in subscribers : stream[s].open

-----------------------------------------------------------------------------
(* What the documentation says and the code does not keep.                 *)

\* README: after a reconnect, the backlog is replayed as far as the in-memory
\* history goes; so a subscription comes to stream, or the shell goes away.
SubscriptionReplays ==
  \A s \in Streams : stream[s].place = "subscribe" ~> stream[s].place \in {"stream", "idle"}
=============================================================================

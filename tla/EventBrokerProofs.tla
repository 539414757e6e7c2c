-------------------------- MODULE EventBrokerProofs --------------------------
(***************************************************************************)
(* Theorems about the event stream, for every set of streams, every size   *)
(* of the history and of the channels, and every number of events and of   *)
(* restarts.                                                               *)
(*                                                                         *)
(* The invariant says what the mutex protects: the history is a run of     *)
(* consecutive numbers that ends with the last event, a channel holds its  *)
(* events in order, and while a stream is replayed nothing is published,   *)
(* so that what it was sent is an initial part of the history.             *)
(***************************************************************************)
EXTENDS EventBroker, SequenceTheorems, TLAPS

Ascending(q) == \A i, j \in 1..Len(q) : i < j => q[i] < q[j]

\* The history: the numbers that end with the last one.
HistoryInv ==
  /\ Len(history) <= nextSequence
  /\ \A i \in 1..Len(history) : history[i] = nextSequence - Len(history) + i

\* The channel of one stream, by the place of its handler.
ChannelInv(t) ==
  /\ Ascending(t.channel)
  /\ \A x \in Range(t.channel) : x <= nextSequence
  /\ t.place \in {"idle", "subscribe"} => t.channel = <<>> /\ t.replayed = 0
  /\ t.place \in {"replay", "stream", "close"} => t.open
  /\ t.place = "replay" =>
       /\ t.replayed <= Len(history)
       /\ \A x \in Range(t.channel) : x <= nextSequence - Len(history) + t.replayed
       /\ \A i \in 1..t.replayed : history[i] > t.from => history[i] \in Range(t.channel)

StreamsInv ==
  \A s \in Streams : /\ ChannelInv(stream[s])
                     /\ stream[s].place = "stream" <=> s \in subscribers

\* What the shell has seen is behind its channel, and behind what it asks for.
ShellInv ==
  /\ \A x \in seen : x <= nextSequence /\ x <= shell.last
  /\ \A s \in Streams : shell.stream = s =>
       \A x \in seen :
         /\ stream[s].place \in {"subscribe", "replay"} => x <= stream[s].from
         /\ \A y \in Range(stream[s].channel) : x < y

IInv == TypeOK /\ HistoryInv /\ StreamsInv /\ ShellInv /\ NothingSkipped

-----------------------------------------------------------------------------
(* Sequences of events.                                                    *)

\* What one more event does to an ascending sequence that it exceeds.
LEMMA AppendEvent ==
  ASSUME NEW q \in Seq(Nat), NEW e \in Nat, Ascending(q), \A x \in Range(q) : x < e
  PROVE  /\ Append(q, e) \in Seq(Nat)
         /\ Len(Append(q, e)) = Len(q) + 1
         /\ Range(Append(q, e)) = Range(q) \union {e}
         /\ Ascending(Append(q, e))
<1> DEFINE a == Append(q, e)
<1>1. /\ a \in Seq(Nat) /\ Len(a) = Len(q) + 1 /\ Len(q) \in Nat
      /\ \A i \in 1..Len(q) : a[i] = q[i] /\ q[i] \in Nat /\ q[i] < e
      /\ a[Len(q) + 1] = e
  <2>1. Len(q) \in Nat /\ Range(q) = {q[i] : i \in 1..Len(q)}
    BY LenProperties, RangeEquality
  <2>2. \A i \in 1..Len(q) : q[i] \in Nat
    BY ElementOfSeq
  <2>3. \A i \in 1..Len(q) : q[i] < e
    BY <2>1
  <2> QED
    BY <2>1, <2>2, <2>3, AppendProperties
<1>2. Range(a) = {a[i] : i \in 1..Len(a)} /\ Range(q) = {q[i] : i \in 1..Len(q)}
  BY <1>1, RangeEquality
<1> HIDE DEF a
<1>3. 1..Len(a) = 1..Len(q) \union {Len(q) + 1}
  BY <1>1
<1>4. Range(a) = Range(q) \union {e}
  <2>1. \A x \in Range(a) : x \in Range(q) \/ x = e
    BY <1>1, <1>2, <1>3
  <2>2. \A x \in Range(q) : x \in Range(a)
    BY <1>1, <1>2, <1>3
  <2>3. e \in Range(a)
    BY <1>1, <1>2, <1>3
  <2> QED
    BY <2>1, <2>2, <2>3
<1>5. Ascending(a)
  <2> SUFFICES ASSUME NEW i \in 1..Len(a), NEW j \in 1..Len(a), i < j
               PROVE  a[i] < a[j]
    BY DEF Ascending
  <2>1. i \in 1..Len(q)
    BY <1>1
  <2>2. CASE j \in 1..Len(q)
    BY <1>1, <2>1, <2>2 DEF Ascending
  <2>3. CASE j = Len(q) + 1
    BY <1>1, <2>1, <2>3
  <2> QED
    BY <1>3, <2>2, <2>3
<1> QED
  BY <1>1, <1>4, <1>5 DEF a

\* What taking the first event does to an ascending sequence.
LEMMA TakeEvent ==
  ASSUME NEW q \in Seq(Nat), q # <<>>, Ascending(q)
  PROVE  /\ Tail(q) \in Seq(Nat)
         /\ Len(Tail(q)) = Len(q) - 1
         /\ Head(q) \in Nat
         /\ Head(q) \in Range(q)
         /\ Range(q) = Range(Tail(q)) \union {Head(q)}
         /\ \A x \in Range(Tail(q)) : Head(q) < x
         /\ Ascending(Tail(q))
<1> DEFINE t == Tail(q)
<1>1. /\ t \in Seq(Nat) /\ Len(t) = Len(q) - 1 /\ Len(q) \in Nat \ {0} /\ Head(q) \in Nat
      /\ \A i \in 1..Len(t) : t[i] = q[i + 1]
      /\ Head(q) = q[1]
  <2>1. Len(q) \in Nat \ {0}
    BY EmptySeq
  <2>2. Head(q) = q[1]
    BY DEF Head
  <2> QED
    BY <2>1, <2>2, HeadTailProperties
<1> HIDE DEF t
<1>2. Range(t) = {t[i] : i \in 1..Len(t)} /\ Range(q) = {q[i] : i \in 1..Len(q)}
  <2>1. Range(t) = {t[i] : i \in 1..Len(t)}
    BY <1>1, RangeEquality
  <2> QED
    BY <2>1, RangeEquality
<1>3. \A i \in 1..Len(t) : i + 1 \in 1..Len(q) /\ 1 < i + 1
  BY <1>1
<1>4. ASSUME NEW i \in 1..Len(q), i # 1
      PROVE  i - 1 \in 1..Len(t) /\ t[i - 1] = q[i]
  <2>1. i - 1 \in 1..Len(t) /\ (i - 1) + 1 = i
    BY <1>1, <1>4
  <2> QED
    BY <1>1, <2>1
<1>5. 1 \in 1..Len(q)
  BY <1>1
<1>6. Range(q) = Range(t) \union {Head(q)} /\ Head(q) \in Range(q)
  <2>1. ASSUME NEW x \in Range(q), x # Head(q)
        PROVE  x \in Range(t)
    <3>1. PICK i \in 1..Len(q) : x = q[i]
      BY <1>2
    <3>2. i # 1
      BY <1>1, <2>1, <3>1
    <3> QED
      BY <1>2, <1>4, <3>1, <3>2
  <2>2. \A x \in Range(t) : x \in Range(q)
    BY <1>1, <1>2, <1>3
  <2>3. Head(q) \in Range(q)
    BY <1>1, <1>2, <1>5
  <2> QED
    BY <2>1, <2>2, <2>3
<1>7. \A x \in Range(t) : Head(q) < x
  BY <1>1, <1>2, <1>3, <1>5 DEF Ascending
<1>8. Ascending(t)
  <2> SUFFICES ASSUME NEW i \in 1..Len(t), NEW j \in 1..Len(t), i < j
               PROVE  t[i] < t[j]
    BY DEF Ascending
  <2>1. i + 1 \in 1..Len(q) /\ j + 1 \in 1..Len(q) /\ i + 1 < j + 1
    BY <1>1
  <2>2. q[i + 1] < q[j + 1]
    BY <2>1 DEF Ascending
  <2> QED
    BY <1>1, <2>2
<1> QED
  BY <1>1, <1>6, <1>7, <1>8 DEF t

\* The empty channel.
LEMMA NothingHeld == <<>> \in Seq(Nat) /\ Len(<<>>) = 0 /\ Range(<<>>) = {} /\ Ascending(<<>>)
<1>1. <<>> \in Seq(Nat) /\ Len(<<>>) = 0
  BY EmptySeq
<1>2. Range(<<>>) = {}
  <2>1. Range(<<>>) = {<<>>[i] : i \in 1..Len(<<>>)}
    BY <1>1, RangeEquality
  <2> QED
    BY <1>1, <2>1
<1> QED
  BY <1>1, <1>2 DEF Ascending

-----------------------------------------------------------------------------
(* What one step does.                                                     *)

LEMMA Constants ==
  /\ HistoryLimit \in Nat \ {0} /\ Capacity \in Nat \ {0}
  /\ "none" \notin Streams
BY BrokerAssumption DEF BrokerAssumption

\* The fields of a stream, one by one.
LEMMA StreamFields ==
  ASSUME TypeOK, NEW s \in Streams
  PROVE  /\ stream[s] \in StreamType
         /\ stream[s].place \in Places /\ stream[s].from \in Nat
         /\ stream[s].replayed \in Nat /\ stream[s].at \in Nat
         /\ stream[s].channel \in Seq(Nat) /\ Len(stream[s].channel) \in Nat
         /\ Len(stream[s].channel) <= Capacity
         /\ stream[s].open \in BOOLEAN
<1>1. stream[s] \in StreamType /\ Len(stream[s].channel) <= Capacity
  BY DEF TypeOK
<1>2. stream[s].channel \in Seq(Nat)
  BY <1>1 DEF StreamType
<1>3. Len(stream[s].channel) \in Nat
  BY <1>2, LenProperties
<1> QED
  BY <1>1, <1>2, <1>3 DEF StreamType

\* The events of the history are the latest ones.
LEMMA HistoryEvents ==
  ASSUME TypeOK, HistoryInv
  PROVE  /\ Len(history) \in Nat /\ nextSequence \in Nat
         /\ Range(history) = {history[i] : i \in 1..Len(history)}
         /\ \A i \in 1..Len(history) : history[i] \in Nat /\ history[i] <= nextSequence
<1>1. history \in Seq(Nat) /\ nextSequence \in Nat
  BY DEF TypeOK
<1>2. Len(history) \in Nat /\ Range(history) = {history[i] : i \in 1..Len(history)}
  BY <1>1, LenProperties, RangeEquality
<1>3. \A i \in 1..Len(history) : history[i] \in Nat
  BY <1>1, ElementOfSeq
<1> QED
  BY <1>1, <1>2, <1>3 DEF HistoryInv

\* A history within its limit of consecutive numbers that end with n.
EndsWith(h, n) ==
  /\ h \in Seq(Nat)
  /\ Len(h) <= HistoryLimit /\ Len(h) <= n
  /\ \A i \in 1..Len(h) : h[i] = n - Len(h) + i

\* Publishing leaves such a history, and forgets but never invents an event.
LEMMA LatestEvents ==
  ASSUME TypeOK, HistoryInv, NEW n \in Nat, n = nextSequence + 1,
         history' = Latest(Append(history, n))
  PROVE  /\ EndsWith(history', n)
         /\ Range(history') \subseteq Range(history) \union {n}
<1> DEFINE a == Append(history, n)
<1>1. /\ history \in Seq(Nat) /\ nextSequence \in Nat /\ Len(history) <= HistoryLimit
      /\ Len(history) \in Nat /\ HistoryLimit \in Nat \ {0}
      /\ Len(history) <= nextSequence
      /\ \A i \in 1..Len(history) : history[i] = nextSequence - Len(history) + i
  BY Constants, HistoryEvents DEF TypeOK, HistoryInv
<1>2. /\ a \in Seq(Nat) /\ a # <<>> /\ Len(a) = Len(history) + 1
      /\ \A i \in 1..Len(history) : a[i] = history[i]
      /\ a[Len(history) + 1] = n
  BY <1>1, AppendProperties
<1>3. history' = IF Len(a) > HistoryLimit THEN Tail(a) ELSE a
  BY DEF Latest
<1>4. /\ Tail(a) \in Seq(Nat) /\ Len(Tail(a)) = Len(a) - 1
      /\ \A i \in 1..Len(Tail(a)) : Tail(a)[i] = a[i + 1]
  BY <1>2, HeadTailProperties
<1>5. history' \in Seq(Nat)
  BY <1>2, <1>3, <1>4
<1>6. /\ Range(history') = {history'[i] : i \in 1..Len(history')}
      /\ \A i \in 1..Len(history) : history[i] \in Range(history)
  <2>1. Range(history') = {history'[i] : i \in 1..Len(history')}
    BY <1>5, RangeEquality
  <2>2. \A i \in 1..Len(history) : history[i] \in Range(history)
    BY HistoryEvents
  <2> QED
    BY <2>1, <2>2
<1>7. CASE Len(a) > HistoryLimit
  <2>1. Len(history') = Len(history) /\ \A i \in 1..Len(history') : history'[i] = a[i + 1]
    <3>1. history' = Tail(a)
      BY <1>3, <1>7
    <3>2. Len(a) - 1 = Len(history)
      BY <1>1, <1>2
    <3> HIDE DEF a
    <3> QED
      BY <1>4, <3>1, <3>2
  <2> HIDE DEF a
  <2>2. ASSUME NEW i \in 1..Len(history')
        PROVE  /\ history'[i] = n - Len(history') + i
               /\ history'[i] \in Range(history) \/ history'[i] = n
    <3>1. history'[i] = a[i + 1] /\ i \in Nat
      BY <1>1, <2>1
    <3>2. CASE i = Len(history)
      <4>1. history'[i] = n /\ Len(history') = i
        BY <1>2, <2>1, <3>1, <3>2
      <4>2. nextSequence \in Nat
        BY <1>1
      <4> QED
        BY <3>1, <4>1, <4>2
    <3>3. CASE i + 1 \in 1..Len(history)
      <4>1. history'[i] = history[i + 1] /\ history'[i] \in Range(history)
        BY <1>2, <1>6, <3>1, <3>3
      <4>2. history[i + 1] = nextSequence - Len(history) + (i + 1)
        BY <1>1, <3>3
      <4>3. Len(history) \in Nat /\ nextSequence \in Nat
        BY <1>1
      <4>4. i \in Nat /\ Len(history') = Len(history)
        BY <2>1, <3>1
      <4>5. history'[i] = nextSequence - Len(history) + (i + 1)
        BY <4>1, <4>2
      <4>6. history'[i] = n - Len(history') + i
        BY <4>3, <4>4, <4>5
      <4> QED
        BY <4>1, <4>6
    <3> QED
      BY <1>1, <2>1, <3>2, <3>3
  <2>3. Len(history') <= HistoryLimit /\ Len(history') <= n
    BY <1>1, <2>1
  <2>4. \A x \in Range(history') : x \in Range(history) \/ x = n
    BY <1>6, <2>2
  <2> QED
    BY <1>5, <2>2, <2>3, <2>4 DEF EndsWith
<1>8. CASE ~(Len(a) > HistoryLimit)
  <2>1. Len(history') = Len(history) + 1 /\ \A i \in 1..Len(history') : history'[i] = a[i]
    BY <1>2, <1>3, <1>8
  <2>2. Len(history') <= HistoryLimit /\ Len(history') <= n
    BY <1>1, <1>2, <1>8, <2>1
  <2> HIDE DEF a
  <2>3. ASSUME NEW i \in 1..Len(history')
        PROVE  /\ history'[i] = n - Len(history') + i
               /\ history'[i] \in Range(history) \/ history'[i] = n
    <3>1. history'[i] = a[i] /\ i \in Nat
      BY <1>1, <2>1
    <3>2. CASE i = Len(history) + 1
      <4>1. history'[i] = n /\ Len(history') = i
        BY <1>2, <2>1, <3>1, <3>2
      <4>2. nextSequence \in Nat
        BY <1>1
      <4> QED
        BY <3>1, <4>1, <4>2
    <3>3. CASE i \in 1..Len(history)
      <4>1. history'[i] = history[i] /\ history'[i] \in Range(history)
        BY <1>2, <1>6, <3>1, <3>3
      <4>2. history[i] = nextSequence - Len(history) + i
        BY <1>1, <3>3
      <4>3. Len(history) \in Nat /\ nextSequence \in Nat
        BY <1>1
      <4>4. history'[i] = n - Len(history') + i
        BY <2>1, <3>1, <4>1, <4>2, <4>3
      <4> QED
        BY <4>1, <4>4
    <3> QED
      BY <1>1, <2>1, <3>2, <3>3
  <2>4. \A x \in Range(history') : x \in Range(history) \/ x = n
    BY <1>6, <2>3
  <2> QED
    BY <1>5, <2>2, <2>3, <2>4 DEF EndsWith
<1> QED
  BY <1>7, <1>8

\* A step of one stream keeps what the others are.
LEMMA OneStream ==
  ASSUME IInv, NEW s \in Streams, NEW t \in StreamType,
         stream' = [stream EXCEPT ![s] = t],
         UNCHANGED <<nextSequence, history, lost, restarts>>,
         Len(t.channel) <= Capacity, ChannelInv(t),
         subscribers' = IF t.place = "stream" THEN subscribers \union {s}
                                              ELSE subscribers \ {s},
         lock' \in Streams \union {"none"}, t.place = "replay" <=> lock' = s,
         \A r \in Streams \ {s} : lock' = r <=> lock = r,
         shell' \in [stream : Streams \union {"none"}, last : Nat],
         seen' \subseteq Nat, ShellInv', NothingSkipped'
  PROVE  IInv'
<1>1. TypeOK /\ HistoryInv /\ StreamsInv
  BY DEF IInv
<1>2. /\ stream' \in [Streams -> StreamType] /\ stream'[s] = t
      /\ \A r \in Streams \ {s} : stream'[r] = stream[r]
  BY <1>1 DEF TypeOK
<1>3. TypeOK'
  <2>1. \A r \in Streams : /\ Len(stream'[r].channel) <= Capacity
                           /\ stream'[r].place = "replay" <=> lock' = r
    BY <1>1, <1>2 DEF TypeOK
  <2>2. subscribers' \subseteq Streams
    BY <1>1 DEF TypeOK
  <2> QED
    BY <1>1, <1>2, <2>1, <2>2 DEF TypeOK
<1>4. HistoryInv'
  BY <1>1 DEF HistoryInv
<1>5. StreamsInv'
  <2> SUFFICES ASSUME NEW r \in Streams
               PROVE  /\ ChannelInv(stream[r])'
                      /\ (stream[r].place = "stream" <=> r \in subscribers)'
    BY DEF StreamsInv
  <2>1. CASE r = s
    BY <1>2, <2>1 DEF ChannelInv
  <2>2. CASE r # s
    <3>1. /\ stream'[r] = stream[r] /\ ChannelInv(stream[r])
          /\ stream[r].place = "stream" <=> r \in subscribers
          /\ r \in subscribers' <=> r \in subscribers
      BY <1>1, <1>2, <2>2 DEF StreamsInv
    <3> QED
      BY <3>1 DEF ChannelInv
  <2> QED
    BY <2>1, <2>2
<1> QED
  BY <1>3, <1>4, <1>5 DEF IInv

-----------------------------------------------------------------------------
(* Each action keeps the invariant.                                        *)

LEMMA InitHolds == Init => IInv
<1> SUFFICES ASSUME Init PROVE IInv
  OBVIOUS
<1>1. NoStream \in StreamType
  BY NothingHeld DEF NoStream, StreamType, Places
<1>2. \A s \in Streams : /\ stream[s] = NoStream /\ stream[s].channel = <<>>
                         /\ stream[s].place = "idle" /\ stream[s].replayed = 0
  BY DEF Init, NoStream
<1>3. TypeOK
  BY <1>1, <1>2, NothingHeld, Constants DEF Init, TypeOK
<1>4. HistoryInv
  BY NothingHeld DEF Init, HistoryInv
<1>5. StreamsInv
  BY <1>2, NothingHeld DEF Init, StreamsInv, ChannelInv
<1>6. ShellInv /\ NothingSkipped
  BY DEF Init, ShellInv, NothingSkipped
<1> QED
  BY <1>3, <1>4, <1>5, <1>6 DEF IInv

LEMMA SubscribeKeeps ==
  ASSUME IInv, NEW s \in Streams, Subscribe(s)
  PROVE  IInv'
<1> DEFINE t == [stream[s] EXCEPT !.place = "replay", !.open = TRUE]
<1>1. TypeOK /\ HistoryInv /\ StreamsInv /\ ShellInv /\ NothingSkipped
  BY DEF IInv
<1>2. /\ t \in StreamType
      /\ t.place = "replay" /\ t.open /\ t.channel = stream[s].channel
      /\ t.replayed = stream[s].replayed /\ t.from = stream[s].from
  BY <1>1, StreamFields DEF StreamType, Places
<1>3. stream' = [stream EXCEPT ![s] = t]
  BY <1>1 DEF Subscribe, TypeOK
<1>4. /\ stream[s].place = "subscribe" /\ lock = "none" /\ lock' = s
      /\ UNCHANGED <<nextSequence, history, subscribers, shell, seen, lost, restarts>>
  BY DEF Subscribe
<1> HIDE DEF t
<1>5. /\ stream'[s] = t /\ \A r \in Streams \ {s} : stream'[r] = stream[r]
  BY <1>1, <1>2, <1>3 DEF TypeOK
<1>6. stream[s].channel = <<>> /\ stream[s].replayed = 0 /\ s \notin subscribers
  BY <1>1, <1>4 DEF StreamsInv, ChannelInv
<1>7. ChannelInv(t) /\ Len(t.channel) <= Capacity
  BY <1>1, <1>2, <1>6, NothingHeld, HistoryEvents, Constants DEF ChannelInv
<1>8. ShellInv'
  <2>1. /\ stream'[s].place = "replay" /\ stream'[s].from = stream[s].from
        /\ stream'[s].channel = stream[s].channel
    BY <1>2, <1>5
  <2> QED
    BY <1>1, <1>4, <1>5, <2>1 DEF ShellInv
<1>9. NothingSkipped'
  <2>1. shell.stream # s \/ shell.stream \notin subscribers
    BY <1>6
  <2> QED
    BY <1>1, <1>4, <1>5, <2>1 DEF NothingSkipped, TypeOK
<1>10. lock' \in Streams \union {"none"} /\ \A r \in Streams \ {s} : lock' = r <=> lock = r
  BY <1>4, Constants
<1> QED
  BY <1>1, <1>2, <1>3, <1>4, <1>6, <1>7, <1>8, <1>9, <1>10, OneStream DEF TypeOK

LEMMA ReplayKeeps ==
  ASSUME IInv, NEW s \in Streams, Replay(s)
  PROVE  IInv'
<1> DEFINE n == stream[s].replayed
           event == history[n + 1]
           sent == event > stream[s].from
           q == stream[s].channel
           c == IF sent THEN Append(q, event) ELSE q
           t == [stream[s] EXCEPT !.replayed = n + 1, !.channel = c]
<1>1. TypeOK /\ HistoryInv /\ StreamsInv /\ ShellInv /\ NothingSkipped
  BY DEF IInv
<1>2. /\ stream[s].place = "replay" /\ n < Len(history)
      /\ sent => Len(q) # Capacity
      /\ stream' = [stream EXCEPT ![s].replayed = @ + 1,
                                  ![s].channel = IF sent THEN Append(@, event) ELSE @]
      /\ UNCHANGED <<nextSequence, history, subscribers, lock, shell, seen, lost, restarts>>
  BY DEF Replay, Full
<1>3. /\ q \in Seq(Nat) /\ Len(q) \in Nat /\ Len(q) <= Capacity
      /\ n \in Nat /\ stream[s].from \in Nat /\ Capacity \in Nat
  BY <1>1, StreamFields, Constants
<1>4. /\ event \in Nat /\ event = nextSequence - Len(history) + (n + 1)
      /\ event <= nextSequence
      /\ nextSequence \in Nat /\ Len(history) \in Nat
  <2>1. n + 1 \in 1..Len(history)
    BY <1>1, <1>2, <1>3, HistoryEvents
  <2> QED
    BY <1>1, <2>1, HistoryEvents DEF HistoryInv
<1>5. /\ Ascending(q) /\ \A x \in Range(q) : x <= nextSequence - Len(history) + n
      /\ \A i \in 1..n : history[i] > stream[s].from => history[i] \in Range(q)
      /\ stream[s].open /\ s \notin subscribers
  BY <1>1, <1>2 DEF StreamsInv, ChannelInv
<1>6. \A x \in Range(q) : x \in Nat /\ x < event
  <2>1. \A x \in Range(q) : x \in Nat
    BY <1>3, RangeOfSeq
  <2> QED
    BY <1>3, <1>4, <1>5, <2>1
<1> HIDE DEF n, event, q
<1>7. /\ c \in Seq(Nat) /\ Len(c) <= Capacity /\ Ascending(c)
      /\ \A x \in Range(q) : x \in Range(c)
      /\ sent => event \in Range(c)
      /\ \A x \in Range(c) : x \in Range(q) \/ (sent /\ x = event)
  <2>1. CASE sent
    <3>1. /\ Append(q, event) \in Seq(Nat) /\ Len(Append(q, event)) = Len(q) + 1
          /\ Range(Append(q, event)) = Range(q) \union {event}
          /\ Ascending(Append(q, event))
      BY <1>3, <1>4, <1>5, <1>6, AppendEvent
    <3>2. Len(q) + 1 <= Capacity
      BY <1>2, <1>3, <2>1
    <3> QED
      BY <2>1, <3>1, <3>2
  <2>2. CASE ~sent
    BY <1>3, <1>5, <2>2
  <2> QED
    BY <2>1, <2>2
<1> HIDE DEF c
<1>8. /\ t \in StreamType /\ t.place = "replay" /\ t.open
      /\ t.channel = c /\ t.replayed = n + 1 /\ t.from = stream[s].from
  <2>1. /\ stream[s] \in StreamType /\ n + 1 \in Nat /\ c \in Seq(Nat)
        /\ stream[s].place = "replay" /\ stream[s].open
    BY <1>1, <1>2, <1>3, <1>5, <1>7, StreamFields
  <2> QED
    BY <2>1 DEF StreamType
<1>9. stream' = [stream EXCEPT ![s] = t]
  BY <1>1, <1>2 DEF TypeOK, n, q, c
<1> HIDE DEF t
<1>10. /\ stream'[s] = t /\ \A r \in Streams \ {s} : stream'[r] = stream[r]
  BY <1>1, <1>8, <1>9 DEF TypeOK
<1>11. ChannelInv(t)
  <2>1. \A x \in Range(c) : x <= nextSequence - Len(history) + (n + 1) /\ x <= nextSequence
    BY <1>3, <1>4, <1>6, <1>7
  <2>2. n + 1 <= Len(history)
    BY <1>2, <1>3, <1>4
  <2>3. ASSUME NEW i \in 1..(n + 1), history[i] > stream[s].from
        PROVE  history[i] \in Range(c)
    <3>1. CASE i = n + 1
      BY <1>7, <2>3, <3>1 DEF event
    <3>2. CASE i \in 1..n
      BY <1>5, <1>7, <2>3, <3>2
    <3> QED
      BY <1>3, <3>1, <3>2
  <2> QED
    BY <1>7, <1>8, <2>1, <2>2, <2>3 DEF ChannelInv
<1>12. ShellInv'
  <2> SUFFICES ASSUME NEW r \in Streams, shell.stream = r, NEW x \in seen
               PROVE  /\ stream'[r].place \in {"subscribe", "replay"} => x <= stream'[r].from
                      /\ \A y \in Range(stream'[r].channel) : x < y
    BY <1>1, <1>2 DEF ShellInv
  <2>1. CASE r # s
    BY <1>1, <1>10, <2>1 DEF ShellInv
  <2>2. CASE r = s
    <3>1. x <= stream[s].from /\ x \in Nat /\ \A y \in Range(q) : x < y
      BY <1>1, <1>2, <2>2 DEF ShellInv, TypeOK, q
    <3> QED
      BY <1>3, <1>4, <1>7, <1>8, <1>10, <2>2, <3>1
  <2> QED
    BY <2>1, <2>2
<1>13. NothingSkipped'
  <2>1. shell.stream # s \/ shell.stream \notin subscribers
    BY <1>5
  <2> QED
    BY <1>1, <1>2, <1>10, <2>1 DEF NothingSkipped, TypeOK
<1>14. /\ lock = s /\ lock' = s /\ lock' \in Streams \union {"none"}
       /\ \A r \in Streams \ {s} : lock' = r <=> lock = r
  BY <1>1, <1>2 DEF TypeOK
<1>15. /\ subscribers' = subscribers \ {s}
       /\ shell' \in [stream : Streams \union {"none"}, last : Nat] /\ seen' \subseteq Nat
       /\ UNCHANGED <<nextSequence, history, lost, restarts>>
  BY <1>1, <1>2, <1>5 DEF TypeOK
<1> QED
  BY <1>7, <1>8, <1>9, <1>11, <1>12, <1>13, <1>14, <1>15, OneStream

LEMMA RegisterKeeps ==
  ASSUME IInv, NEW s \in Streams, Register(s)
  PROVE  IInv'
<1> DEFINE t == [stream[s] EXCEPT !.place = "stream", !.at = nextSequence]
<1>1. TypeOK /\ HistoryInv /\ StreamsInv /\ ShellInv /\ NothingSkipped
  BY DEF IInv
<1>2. /\ t \in StreamType
      /\ t.place = "stream" /\ t.open = stream[s].open /\ t.channel = stream[s].channel
      /\ t.at = nextSequence /\ t.from = stream[s].from
      /\ stream[s].channel \in Seq(Nat) /\ Len(stream[s].channel) <= Capacity
  <2>1. stream[s] \in StreamType /\ nextSequence \in Nat
    BY <1>1, StreamFields DEF TypeOK
  <2> QED
    BY <1>1, <2>1, StreamFields DEF StreamType, Places
<1>3. stream' = [stream EXCEPT ![s] = t]
  BY <1>1 DEF Register, TypeOK
<1>4. /\ stream[s].place = "replay" /\ stream[s].replayed = Len(history)
      /\ lock = s /\ lock' = "none" /\ subscribers' = subscribers \union {s}
      /\ UNCHANGED <<nextSequence, history, shell, seen, lost, restarts>>
  BY <1>1 DEF Register, TypeOK
<1> HIDE DEF t
<1>5. /\ stream'[s] = t /\ \A r \in Streams \ {s} : stream'[r] = stream[r]
  BY <1>1, <1>2, <1>3 DEF TypeOK
<1>6. /\ stream[s].open /\ Ascending(t.channel) /\ \A x \in Range(t.channel) : x <= nextSequence
      /\ \A i \in 1..Len(history) : history[i] > t.from => history[i] \in Range(t.channel)
  BY <1>1, <1>2, <1>4 DEF StreamsInv, ChannelInv
<1>7. ChannelInv(t) /\ Len(t.channel) <= Capacity
  BY <1>2, <1>6 DEF ChannelInv
<1>8. ShellInv'
  <2> SUFFICES ASSUME NEW r \in Streams, shell.stream = r, NEW x \in seen
               PROVE  /\ stream'[r].place \in {"subscribe", "replay"} => x <= stream'[r].from
                      /\ \A y \in Range(stream'[r].channel) : x < y
    BY <1>1, <1>4 DEF ShellInv
  <2> QED
    BY <1>1, <1>2, <1>5 DEF ShellInv
<1>9. NothingSkipped'
  <2> SUFFICES ASSUME shell.stream \in subscribers', NEW e \in Range(history),
                      e > stream'[shell.stream].from \/ e > stream'[shell.stream].at
               PROVE  e \in seen \union lost \union Range(stream'[shell.stream].channel)
    BY <1>4 DEF NothingSkipped
  <2>1. CASE shell.stream = s
    <3>1. PICK i \in 1..Len(history) : e = history[i]
      BY <1>1, HistoryEvents
    <3>2. e > t.from
      BY <1>1, <1>2, <1>5, <2>1, <3>1, HistoryEvents
    <3> QED
      BY <1>5, <1>6, <2>1, <3>1, <3>2
  <2>2. CASE shell.stream # s
    BY <1>1, <1>4, <1>5, <2>2 DEF NothingSkipped, TypeOK
  <2> QED
    BY <2>1, <2>2
<1>10. /\ lock' \in Streams \union {"none"} /\ lock' # s
       /\ \A r \in Streams \ {s} : lock' = r <=> lock = r
       /\ shell' \in [stream : Streams \union {"none"}, last : Nat] /\ seen' \subseteq Nat
       /\ UNCHANGED <<nextSequence, history, lost, restarts>>
  BY <1>1, <1>4, Constants DEF TypeOK
<1> QED
  BY <1>2, <1>3, <1>4, <1>7, <1>8, <1>9, <1>10, OneStream

LEMMA ConnectKeeps ==
  ASSUME IInv, NEW s \in Streams, Connect(s)
  PROVE  IInv'
<1> DEFINE t == [NoStream EXCEPT !.place = "subscribe", !.from = shell.last]
<1>1. TypeOK /\ HistoryInv /\ StreamsInv /\ ShellInv /\ NothingSkipped
  BY DEF IInv
<1>2. /\ t \in StreamType /\ t.place = "subscribe" /\ t.channel = <<>>
      /\ t.replayed = 0 /\ t.from = shell.last
  BY <1>1, NothingHeld DEF TypeOK, NoStream, StreamType, Places
<1>3. /\ stream[s].place = "idle" /\ stream' = [stream EXCEPT ![s] = t]
      /\ shell' = [shell EXCEPT !.stream = s]
      /\ UNCHANGED <<nextSequence, history, subscribers, lock, seen, lost, restarts>>
  BY DEF Connect
<1> HIDE DEF t
<1>4. /\ shell' \in [stream : Streams \union {"none"}, last : Nat]
      /\ shell'.stream = s /\ shell'.last = shell.last
  BY <1>1, <1>3 DEF TypeOK
<1>5. /\ stream'[s] = t /\ \A r \in Streams \ {s} : stream'[r] = stream[r]
  BY <1>1, <1>2, <1>3 DEF TypeOK
<1>6. s \notin subscribers /\ lock # s
  BY <1>1, <1>3 DEF StreamsInv, TypeOK
<1>7. ChannelInv(t) /\ Len(t.channel) <= Capacity
  BY <1>2, NothingHeld, Constants DEF ChannelInv
<1>8. ShellInv'
  BY <1>1, <1>2, <1>3, <1>4, <1>5, NothingHeld DEF ShellInv
<1>9. NothingSkipped'
  BY <1>3, <1>4, <1>6 DEF NothingSkipped
<1>10. /\ lock' \in Streams \union {"none"} /\ seen' \subseteq Nat
       /\ UNCHANGED <<nextSequence, history, lost, restarts>>
       /\ subscribers' = subscribers \ {s}
  BY <1>1, <1>3, <1>6 DEF TypeOK
<1> QED
  BY <1>2, <1>3, <1>4, <1>6, <1>7, <1>8, <1>9, <1>10, OneStream

LEMMA DisconnectKeeps == IInv /\ Disconnect => IInv'
<1> SUFFICES ASSUME IInv, Disconnect PROVE IInv'
  OBVIOUS
<1>1. TypeOK /\ HistoryInv /\ StreamsInv /\ ShellInv
  BY DEF IInv
<1>2. UNCHANGED <<nextSequence, history, subscribers, lock, stream, seen, lost, restarts>>
  BY DEF Disconnect
<1>3. /\ shell' \in [stream : Streams \union {"none"}, last : Nat]
      /\ shell'.stream = "none" /\ shell'.last = shell.last
  BY <1>1 DEF Disconnect, TypeOK
<1>4. TypeOK'
  BY <1>1, <1>2, <1>3 DEF TypeOK
<1>5. HistoryInv' /\ StreamsInv'
  BY <1>1, <1>2 DEF HistoryInv, StreamsInv, ChannelInv
<1>6. ShellInv'
  BY <1>1, <1>2, <1>3, Constants DEF ShellInv
<1>7. NothingSkipped'
  BY <1>1, <1>2, <1>3, Constants DEF NothingSkipped, TypeOK
<1> QED
  BY <1>4, <1>5, <1>6, <1>7 DEF IInv

LEMMA DeliverKeeps ==
  ASSUME IInv, NEW s \in Streams, Deliver(s)
  PROVE  IInv'
<1> DEFINE q == stream[s].channel
           event == Head(q)
           t == [stream[s] EXCEPT !.channel = Tail(q)]
<1>1. TypeOK /\ HistoryInv /\ StreamsInv /\ ShellInv /\ NothingSkipped
  BY DEF IInv
<1>2. /\ stream[s].place = "stream" /\ shell.stream = s /\ q # <<>>
      /\ seen' = seen \union {event}
      /\ shell' = [shell EXCEPT !.last = IF event > @ THEN event ELSE @]
      /\ UNCHANGED <<nextSequence, history, subscribers, lock, lost, restarts>>
  BY DEF Deliver
<1>3. /\ q \in Seq(Nat) /\ Len(q) \in Nat /\ Len(q) <= Capacity /\ Capacity \in Nat
      /\ Ascending(q) /\ stream[s].open /\ s \in subscribers
      /\ \A x \in Range(q) : x <= nextSequence
  BY <1>1, <1>2, StreamFields, Constants DEF StreamsInv, ChannelInv
<1>4. stream' = [stream EXCEPT ![s] = t]
  BY <1>1 DEF Deliver, TypeOK
<1> HIDE DEF q
<1>5. /\ Tail(q) \in Seq(Nat) /\ Len(Tail(q)) = Len(q) - 1
      /\ event \in Nat /\ event \in Range(q) /\ Range(q) = Range(Tail(q)) \union {event}
      /\ \A x \in Range(Tail(q)) : event < x
      /\ Ascending(Tail(q))
  BY <1>2, <1>3, TakeEvent
<1>6. \A x \in Range(Tail(q)) : x \in Nat
  BY <1>5, RangeOfSeq
<1>7. /\ t \in StreamType /\ t.place = "stream" /\ t.open /\ t.channel = Tail(q)
      /\ t.from = stream[s].from /\ t.at = stream[s].at
  <2>1. stream[s] \in StreamType
    BY <1>1, StreamFields
  <2> QED
    BY <1>2, <1>3, <1>5, <2>1 DEF StreamType
<1> HIDE DEF t, event
<1>8. /\ stream'[s] = t /\ \A r \in Streams \ {s} : stream'[r] = stream[r]
  BY <1>1, <1>4, <1>7 DEF TypeOK
<1>9. /\ shell' \in [stream : Streams \union {"none"}, last : Nat]
      /\ shell'.stream = s /\ shell'.last >= shell.last /\ shell'.last >= event
      /\ shell.last \in Nat
  <2> DEFINE n == IF event > shell.last THEN event ELSE shell.last
  <2>1. shell \in [stream : Streams \union {"none"}, last : Nat] /\ shell.last \in Nat
    BY <1>1 DEF TypeOK
  <2>2. n \in Nat /\ n >= shell.last /\ n >= event
    BY <1>5, <2>1
  <2>3. shell' = [shell EXCEPT !.last = n]
    BY <1>2
  <2> HIDE DEF n
  <2> QED
    BY <1>2, <2>1, <2>2, <2>3
<1>10. ChannelInv(t) /\ Len(t.channel) <= Capacity
  <2>1. Len(t.channel) <= Capacity
    BY <1>3, <1>5, <1>7
  <2>2. \A x \in Range(t.channel) : x <= nextSequence
    BY <1>3, <1>5, <1>7
  <2> QED
    BY <1>5, <1>7, <2>1, <2>2 DEF ChannelInv
<1>11. ShellInv'
  <2>1. ASSUME NEW x \in seen'
        PROVE  /\ x <= nextSequence' /\ x <= shell'.last
               /\ \A y \in Range(Tail(q)) : x < y
    <3>1. CASE x = event
      BY <1>2, <1>3, <1>5, <1>9, <3>1
    <3>2. CASE x \in seen
      <4>1. /\ x \in Nat /\ x <= nextSequence /\ x <= shell.last
            /\ \A y \in Range(q) : x < y
        BY <1>1, <1>2, <3>2 DEF ShellInv, TypeOK, q
      <4> QED
        BY <1>2, <1>5, <1>9, <4>1
    <3> QED
      BY <1>2, <2>1, <3>1, <3>2
  <2> QED
    BY <1>7, <1>8, <1>9, <2>1 DEF ShellInv
<1>12. NothingSkipped'
  <2> SUFFICES ASSUME NEW e \in Range(history), e > t.from \/ e > t.at
               PROVE  e \in seen' \union lost \union Range(t.channel)
    BY <1>2, <1>8, <1>9 DEF NothingSkipped
  <2>1. e \in seen \union lost \union Range(q)
    BY <1>1, <1>2, <1>3, <1>7 DEF NothingSkipped, q
  <2> QED
    BY <1>2, <1>5, <1>7, <2>1
<1>13. /\ lock' \in Streams \union {"none"} /\ lock' # s /\ lock' = lock
       /\ subscribers' = subscribers \union {s}
       /\ UNCHANGED <<nextSequence, history, lost, restarts>> /\ seen' \subseteq Nat
  BY <1>1, <1>2, <1>3, <1>5 DEF TypeOK
<1> QED
  BY <1>4, <1>7, <1>9, <1>10, <1>11, <1>12, <1>13, OneStream

LEMMA CancelKeeps ==
  ASSUME IInv, NEW s \in Streams, Cancel(s)
  PROVE  IInv'
<1> DEFINE t == [stream[s] EXCEPT !.place = "close"]
<1>1. TypeOK /\ HistoryInv /\ StreamsInv /\ ShellInv /\ NothingSkipped
  BY DEF IInv
<1>2. /\ t \in StreamType /\ t.place = "close" /\ t.open = stream[s].open
      /\ t.channel = stream[s].channel /\ Len(stream[s].channel) <= Capacity
  BY <1>1, StreamFields DEF StreamType, Places
<1>3. /\ stream[s].place = "stream" /\ shell.stream # s /\ stream' = [stream EXCEPT ![s] = t]
      /\ subscribers' = subscribers \ {s}
      /\ UNCHANGED <<nextSequence, history, lock, shell, seen, lost, restarts>>
  BY <1>1 DEF Cancel, TypeOK
<1> HIDE DEF t
<1>4. /\ stream'[s] = t /\ \A r \in Streams \ {s} : stream'[r] = stream[r]
  BY <1>1, <1>2, <1>3 DEF TypeOK
<1>5. ChannelInv(t) /\ Len(t.channel) <= Capacity
  BY <1>1, <1>2, <1>3 DEF StreamsInv, ChannelInv
<1>6. ShellInv'
  BY <1>1, <1>3, <1>4 DEF ShellInv
<1>7. NothingSkipped'
  BY <1>1, <1>3, <1>4 DEF NothingSkipped, TypeOK
<1>8. /\ lock' \in Streams \union {"none"} /\ lock' # s
      /\ shell' \in [stream : Streams \union {"none"}, last : Nat] /\ seen' \subseteq Nat
  BY <1>1, <1>3 DEF TypeOK
<1> QED
  BY <1>2, <1>3, <1>5, <1>6, <1>7, <1>8, OneStream

LEMMA CloseKeeps ==
  ASSUME IInv, NEW s \in Streams, CloseChannel(s)
  PROVE  IInv'
<1>1. TypeOK /\ HistoryInv /\ StreamsInv /\ ShellInv /\ NothingSkipped
  BY DEF IInv
<1>2. /\ NoStream \in StreamType /\ NoStream.place = "idle" /\ NoStream.channel = <<>>
      /\ NoStream.replayed = 0
  BY NothingHeld DEF NoStream, StreamType, Places
<1>3. /\ stream[s].place = "close" /\ stream' = [stream EXCEPT ![s] = NoStream]
      /\ UNCHANGED <<nextSequence, history, subscribers, lock, shell, seen, lost, restarts>>
  BY DEF CloseChannel
<1>4. /\ stream'[s] = NoStream /\ \A r \in Streams \ {s} : stream'[r] = stream[r]
  BY <1>1, <1>2, <1>3 DEF TypeOK
<1>5. s \notin subscribers /\ lock # s
  BY <1>1, <1>3 DEF StreamsInv, TypeOK
<1>6. ChannelInv(NoStream) /\ Len(NoStream.channel) <= Capacity
  BY <1>2, NothingHeld, Constants DEF ChannelInv
<1>7. ShellInv'
  BY <1>1, <1>2, <1>3, <1>4, NothingHeld DEF ShellInv
<1>8. NothingSkipped'
  BY <1>1, <1>3, <1>4, <1>5 DEF NothingSkipped, TypeOK
<1>9. /\ lock' \in Streams \union {"none"} /\ lock' # s /\ subscribers' = subscribers \ {s}
      /\ shell' \in [stream : Streams \union {"none"}, last : Nat] /\ seen' \subseteq Nat
  BY <1>1, <1>3, <1>5 DEF TypeOK
<1> QED
  BY <1>2, <1>3, <1>5, <1>6, <1>7, <1>8, <1>9, OneStream

LEMMA RestartKeeps == IInv /\ RestartServer => IInv'
<1> SUFFICES ASSUME IInv, RestartServer PROVE IInv'
  OBVIOUS
<1>1. /\ nextSequence' = 0 /\ history' = <<>> /\ subscribers' = {} /\ lock' = "none"
      /\ stream' = [s \in Streams |-> NoStream] /\ seen' = {} /\ lost' = {}
      /\ restarts' = restarts + 1 /\ shell' = [shell EXCEPT !.stream = "none"]
  BY DEF RestartServer
<1>2. /\ restarts' \in Nat
      /\ shell' \in [stream : Streams \union {"none"}, last : Nat]
      /\ shell'.stream = "none"
  BY <1>1 DEF IInv, TypeOK
<1>3. NoStream \in StreamType
  BY NothingHeld DEF NoStream, StreamType, Places
<1>4. \A s \in Streams : /\ stream'[s] = NoStream /\ NoStream.channel = <<>>
                         /\ NoStream.place = "idle" /\ NoStream.replayed = 0
  BY <1>1 DEF NoStream
<1>5. TypeOK'
  BY <1>1, <1>2, <1>3, <1>4, NothingHeld, Constants DEF TypeOK
<1>6. HistoryInv'
  BY <1>1, NothingHeld DEF HistoryInv
<1>7. StreamsInv'
  BY <1>1, <1>4, NothingHeld DEF StreamsInv, ChannelInv
<1>8. ShellInv' /\ NothingSkipped'
  BY <1>1 DEF ShellInv, NothingSkipped
<1> QED
  BY <1>5, <1>6, <1>7, <1>8 DEF IInv

LEMMA PublishKeeps == IInv /\ Publish => IInv'
<1> SUFFICES ASSUME IInv, Publish PROVE IInv'
  OBVIOUS
<1> DEFINE e == nextSequence + 1
           Put(s) == [stream[s] EXCEPT !.channel = Append(@, e)]
<1>1. TypeOK /\ HistoryInv /\ StreamsInv /\ ShellInv /\ NothingSkipped
  BY DEF IInv
<1>2. /\ lock = "none" /\ nextSequence' = e /\ history' = Latest(Append(history, e))
      /\ stream' = [s \in Streams |-> IF s \in subscribers /\ ~Full(s) THEN Put(s) ELSE stream[s]]
      /\ lost' = IF shell.stream \in subscribers /\ Full(shell.stream)
                 THEN lost \union {e} ELSE lost
      /\ UNCHANGED <<subscribers, lock, shell, seen, restarts>>
  BY DEF Publish
<1>3. nextSequence \in Nat /\ e \in Nat /\ nextSequence < e
  BY <1>1 DEF TypeOK
<1>4. /\ history' \in Seq(Nat)
      /\ Len(history') <= HistoryLimit /\ Len(history') <= e
      /\ \A i \in 1..Len(history') : history'[i] = e - Len(history') + i
      /\ \A x \in Range(history') : x \in Range(history) \/ x = e
  <2>1. EndsWith(history', e) /\ Range(history') \subseteq Range(history) \union {e}
    BY <1>1, <1>2, <1>3, LatestEvents
  <2> HIDE DEF e
  <2> QED
    BY <2>1 DEF EndsWith
<1>5. ASSUME NEW s \in Streams
      PROVE  /\ stream[s].place # "replay"
             /\ Ascending(stream[s].channel)
             /\ \A x \in Range(stream[s].channel) : x \in Nat /\ x < e
  <2>1. stream[s].channel \in Seq(Nat) /\ lock # s
    BY <1>1, <1>2, StreamFields, Constants
  <2>2. \A x \in Range(stream[s].channel) : x \in Nat /\ x <= nextSequence
    BY <1>1, <2>1, RangeOfSeq DEF StreamsInv, ChannelInv
  <2> QED
    BY <1>1, <1>3, <2>1, <2>2 DEF StreamsInv, ChannelInv, TypeOK
<1> HIDE DEF e
<1>6. ASSUME NEW s \in Streams
      PROVE  /\ stream'[s] \in StreamType /\ Len(stream'[s].channel) <= Capacity
             /\ stream'[s].place = stream[s].place /\ stream'[s].from = stream[s].from
             /\ stream'[s].at = stream[s].at /\ stream'[s].open = stream[s].open
             /\ stream'[s].replayed = stream[s].replayed
             /\ Ascending(stream'[s].channel)
             /\ s \in subscribers /\ ~Full(s) =>
                  Range(stream'[s].channel) = Range(stream[s].channel) \union {e}
             /\ ~(s \in subscribers /\ ~Full(s)) => stream'[s].channel = stream[s].channel
  <2> DEFINE q == stream[s].channel
  <2>1. /\ stream[s] \in StreamType /\ q \in Seq(Nat) /\ Len(q) \in Nat /\ Len(q) <= Capacity
        /\ Capacity \in Nat
    BY <1>1, StreamFields, Constants
  <2>2. CASE s \in subscribers /\ ~Full(s)
    <3>1. /\ Append(q, e) \in Seq(Nat) /\ Len(Append(q, e)) = Len(q) + 1
          /\ Range(Append(q, e)) = Range(q) \union {e} /\ Ascending(Append(q, e))
      BY <1>3, <1>5, <2>1, AppendEvent
    <3>2. Len(q) + 1 <= Capacity
      BY <2>1, <2>2 DEF Full
    <3>3. stream'[s] = [stream[s] EXCEPT !.channel = Append(q, e)]
      BY <1>2, <2>2
    <3> HIDE DEF q
    <3>4. /\ stream'[s] \in StreamType /\ stream'[s].channel = Append(q, e)
          /\ stream'[s].place = stream[s].place /\ stream'[s].from = stream[s].from
          /\ stream'[s].at = stream[s].at /\ stream'[s].open = stream[s].open
          /\ stream'[s].replayed = stream[s].replayed
      BY <2>1, <3>1, <3>3 DEF StreamType
    <3> QED
      BY <2>1, <2>2, <3>1, <3>2, <3>4 DEF q
  <2>3. CASE ~(s \in subscribers /\ ~Full(s))
    <3>1. stream'[s] = stream[s]
      BY <1>2, <2>3
    <3> QED
      BY <1>5, <2>1, <2>3, <3>1
  <2> QED
    BY <2>2, <2>3
<1>7. TypeOK'
  <2>1. stream' \in [Streams -> StreamType]
    BY <1>2, <1>6
  <2>2. lost' \subseteq Nat
    BY <1>1, <1>2, <1>3 DEF TypeOK
  <2>3. \A s \in Streams : /\ Len(stream'[s].channel) <= Capacity
                           /\ stream'[s].place = "replay" <=> lock' = s
    <3>1. \A s \in Streams : stream[s].place = "replay" <=> lock = s
      BY <1>1 DEF TypeOK
    <3>2. \A s \in Streams : /\ Len(stream'[s].channel) <= Capacity
                             /\ stream'[s].place = stream[s].place
      BY <1>6
    <3> QED
      BY <1>2, <3>1, <3>2
  <2> QED
    BY <1>1, <1>2, <1>3, <1>4, <2>1, <2>2, <2>3 DEF TypeOK
<1>8. HistoryInv'
  BY <1>2, <1>4 DEF HistoryInv
<1>9. StreamsInv'
  <2> SUFFICES ASSUME NEW s \in Streams
               PROVE  /\ ChannelInv(stream[s])'
                      /\ (stream[s].place = "stream" <=> s \in subscribers)'
    BY DEF StreamsInv
  <2>1. /\ ChannelInv(stream[s]) /\ (stream[s].place = "stream" <=> s \in subscribers)
    BY <1>1 DEF StreamsInv
  <2>2. \A x \in Range(stream'[s].channel) : x <= e
    <3>1. \A x \in Range(stream[s].channel) : x <= e
      BY <1>3, <1>5
    <3>2. e <= e
      BY <1>3
    <3> QED
      BY <1>6, <3>1, <3>2
  <2>3. stream[s].place \in {"idle", "subscribe"} => stream'[s].channel = <<>>
    BY <1>6, <2>1 DEF ChannelInv
  <2>4. ChannelInv(stream[s])'
    BY <1>2, <1>5, <1>6, <2>1, <2>2, <2>3 DEF ChannelInv
  <2> QED
    BY <1>2, <1>6, <2>1, <2>4
<1>10. ShellInv'
  <2>1. \A x \in seen : x \in Nat /\ x <= nextSequence /\ x <= shell.last /\ x < e
    BY <1>1, <1>3 DEF ShellInv, TypeOK
  <2>2. \A x \in seen : x <= nextSequence' /\ x <= shell.last
    BY <1>2, <1>3, <2>1
  <2>3. ASSUME NEW s \in Streams, shell.stream = s, NEW x \in seen
        PROVE  /\ stream'[s].place \in {"subscribe", "replay"} => x <= stream'[s].from
               /\ \A y \in Range(stream'[s].channel) : x < y
    <3>1. /\ stream[s].place \in {"subscribe", "replay"} => x <= stream[s].from
          /\ \A y \in Range(stream[s].channel) : x < y
      BY <1>1, <2>3 DEF ShellInv
    <3> QED
      BY <1>6, <2>1, <3>1
  <2> QED
    BY <1>2, <2>2, <2>3 DEF ShellInv
<1>11. NothingSkipped'
  <2> DEFINE s == shell.stream
  <2> SUFFICES ASSUME s \in subscribers, NEW x \in Range(history'),
                      x > stream'[s].from \/ x > stream'[s].at
               PROVE  x \in seen \union lost' \union Range(stream'[s].channel)
    BY <1>2 DEF NothingSkipped
  <2>1. s \in Streams
    BY <1>1 DEF TypeOK
  <2>2. CASE x = e
    BY <1>2, <1>6, <2>1, <2>2
  <2>3. CASE x \in Range(history)
    <3>1. x \in seen \union lost \union Range(stream[s].channel)
      BY <1>1, <1>6, <2>1, <2>3 DEF NothingSkipped
    <3> QED
      BY <1>2, <1>6, <2>1, <3>1
  <2> QED
    BY <1>4, <2>2, <2>3
<1> QED
  BY <1>7, <1>8, <1>9, <1>10, <1>11 DEF IInv

-----------------------------------------------------------------------------
(* The theorems.                                                           *)

LEMMA NextKeeps == IInv /\ [Next]_vars => IInv'
<1> SUFFICES ASSUME IInv, [Next]_vars PROVE IInv'
  OBVIOUS
<1>1. CASE UNCHANGED vars
  BY <1>1 DEF vars, IInv, TypeOK, HistoryInv, StreamsInv, ChannelInv, ShellInv,
              NothingSkipped
<1>2. CASE Publish
  BY <1>2, PublishKeeps
<1>3. CASE Disconnect
  BY <1>3, DisconnectKeeps
<1>4. CASE RestartServer
  BY <1>4, RestartKeeps
<1>5. ASSUME NEW s \in Streams, Connect(s) \/ Handle(s)
      PROVE  IInv'
  BY <1>5, SubscribeKeeps, ReplayKeeps, RegisterKeeps, ConnectKeeps, DeliverKeeps,
     CancelKeeps, CloseKeeps DEF Handle
<1> QED
  BY <1>1, <1>2, <1>3, <1>4, <1>5 DEF Next

LEMMA InvHolds == Spec => []IInv
BY InitHolds, NextKeeps, PTL DEF Spec

\* The values of the variables; the channels and the history keep within their
\* room, and the mutex is held exactly while a subscription is replayed.
THEOREM TypeCorrect == Spec => []TypeOK
<1>1. IInv => TypeOK
  BY DEF IInv
<1> QED
  BY <1>1, InvHolds, PTL

\* Publish never sends on a closed channel: every channel in the map of the
\* broker is open, though it is closed outside the mutex.
THEOREM NeverSendsOnClosed == Spec => []NoSendOnClosed
<1>1. IInv => NoSendOnClosed
  BY DEF IInv, TypeOK, StreamsInv, ChannelInv, NoSendOnClosed
<1> QED
  BY <1>1, InvHolds, PTL

\* The handover from replay to live events skips no event of the history.
THEOREM HandoverSkipsNothing == Spec => []NothingSkipped
<1>1. IInv => NothingSkipped
  BY DEF IInv
<1> QED
  BY <1>1, InvHolds, PTL

\* The shell is given the events of a server in their order and none twice,
\* over any number of reconnections.
THEOREM EventsComeInOrder == Spec => InOrderOnce
<1> DEFINE Ordered == \A s \in Streams : Deliver(s) =>
                        \A event \in seen : event < Head(stream[s].channel)
<1>1. IInv => Ordered
  <2> SUFFICES ASSUME IInv, NEW s \in Streams, Deliver(s), NEW event \in seen
               PROVE  event < Head(stream[s].channel)
    OBVIOUS
  <2>1. /\ stream[s].channel \in Seq(Nat) /\ stream[s].channel # <<>>
        /\ Ascending(stream[s].channel) /\ shell.stream = s
    BY StreamFields DEF IInv, StreamsInv, ChannelInv, Deliver
  <2>2. Head(stream[s].channel) \in Range(stream[s].channel)
    BY <2>1, TakeEvent
  <2> QED
    BY <2>1, <2>2 DEF IInv, ShellInv
<1>2. IInv /\ [Next]_vars => [Ordered]_vars
  BY <1>1
<1> QED
  BY <1>2, InvHolds, PTL DEF Spec, InOrderOnce

=============================================================================

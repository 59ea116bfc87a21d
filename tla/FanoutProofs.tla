---------------------------- MODULE FanoutProofs ----------------------------
(***************************************************************************)
(* Proofs about module PointerFanout, for any number of workers, clients,  *)
(* song changes and faults and any bound of the queues: a stream that has  *)
(* had a push goes back to an earlier song for a late publication only.    *)
(***************************************************************************)
EXTENDS PointerFanout, TLAPS

(***************************************************************************)
(* What the proof needs of the types: pointers are numbers.                *)
(***************************************************************************)
ReaderRecord == [pc : {"idle", "redis", "from_redis", "postgres", "from_postgres",
                       "write_back", "written", "answered"}, version : Nat]

PointersAreNat ==
  /\ pg \in Nat /\ redis \in Nat
  /\ writing \in [Writers -> [step : {"idle", "set", "publish"}, version : Nat]]
  /\ newest \in Nat /\ late \subseteq Nat
  /\ cache \in [version : Nat, fresh : BOOLEAN]
  /\ reader \in [Readers -> ReaderRecord]
  /\ feed \in Seq(Nat) /\ queue \in [Clients -> Seq(Nat)]
  /\ connected \in [Clients -> BOOLEAN] /\ pushed \in [Clients -> BOOLEAN]
  /\ current \in [Clients -> Nat]

(***************************************************************************)
(* Order.  A pointer goes from its publication through the subscription    *)
(* and a client's queue to its stream, and none overtakes another: what is *)
(* further on is never newer than what follows it, unless what follows was *)
(* published late.  Only a push starts this: before it, current is what    *)
(* some cache held.                                                        *)
(***************************************************************************)
MayFollow(u, v) == u <= v \/ v \in late

InOrder(s) == \A i, j \in 1..Len(s) : i < j => MayFollow(s[i], s[j])
AllFollow(s, u) == \A i \in 1..Len(s) : MayFollow(u, s[i])
NoneAbove(s, v) == \A i \in 1..Len(s) : s[i] <= v

FeedInOrder == InOrder(feed) /\ NoneAbove(feed, newest)

QueueInOrder(c) ==
  /\ InOrder(queue[c]) /\ NoneAbove(queue[c], newest)
  /\ \A i \in 1..Len(queue[c]) : AllFollow(feed, queue[c][i])

PushedIsBehind(c) ==
  pushed[c] => /\ connected[c] /\ current[c] <= newest
               /\ AllFollow(queue[c], current[c])
               /\ AllFollow(feed, current[c])

\* A client that is being connected has no stream yet.
ConnectsOnce(c) == reader[<<c, "events">>].pc # "idle" => ~connected[c]

ClientOK(c) == QueueInOrder(c) /\ PushedIsBehind(c) /\ ConnectsOnce(c)

StreamInv == PointersAreNat /\ FeedInOrder /\ \A c \in Clients : ClientOK(c)

MovesForward(c) ==
  pushed[c] /\ pushed'[c] /\ current'[c] < current[c] => current'[c] \in late

LEMMA StreamStarts == FanoutInit => StreamInv
<1> SUFFICES ASSUME FanoutInit PROVE StreamInv
  OBVIOUS
<1>1. PointersAreNat
  BY DEF FanoutInit, PointersAreNat, NoPointer, NotWriting, Idle, ReaderRecord
<1>2. \A c \in Clients : <<c, "events">> \in Readers
  BY DEF Readers, Routes
<1>3. FeedInOrder /\ \A c \in Clients : ClientOK(c)
  BY <1>2 DEF FanoutInit, FeedInOrder, ClientOK, QueueInOrder, PushedIsBehind, ConnectsOnce,
     InOrder, NoneAbove, AllFollow, Idle
<1> QED  BY <1>1, <1>3 DEF StreamInv

(***************************************************************************)
(* The coordinator and Redis.                                              *)
(***************************************************************************)
\* Nothing new is published, and no stream is touched.
LEMMA StreamsAlone ==
  ASSUME StreamInv, PointersAreNat', NEW c \in Clients,
         UNCHANGED <<published, connected, queue, current, pushed, reader>>,
         feed' = feed \/ feed' = <<>>
  PROVE  ClientOK(c)' /\ MovesForward(c)
<1>1. /\ UNCHANGED <<newest, late>> /\ queue[c] \in Seq(Nat) /\ current[c] \in Nat
      /\ feed \in Seq(Nat) /\ ClientOK(c)
  BY DEF StreamInv, PointersAreNat, published
<1>2. QueueInOrder(c)'
  BY <1>1 DEF ClientOK, QueueInOrder, InOrder, NoneAbove, AllFollow, MayFollow
<1>3. PushedIsBehind(c)'
  BY <1>1 DEF ClientOK, PushedIsBehind, AllFollow, MayFollow
<1>4. ConnectsOnce(c)' /\ MovesForward(c)
  BY <1>1 DEF ClientOK, ConnectsOnce, MovesForward
<1> QED  BY <1>2, <1>3, <1>4 DEF ClientOK

LEMMA CoordinatorKeeps ==
  ASSUME StreamInv,
         LoseRedis \/ \E w \in Writers : Advance(w) \/ SetPointer(w) \/ FailToWrite(w)
  PROVE  StreamInv' /\ \A c \in Clients : MovesForward(c)
<1>0. /\ pg \in Nat /\ writing \in [Writers -> [step : {"idle", "set", "publish"}, version : Nat]]
      /\ NotWriting \in [step : {"idle", "set", "publish"}, version : Nat]
  BY DEF StreamInv, PointersAreNat, NotWriting, NoPointer
<1>1. PointersAreNat'
  <2>1. ASSUME NEW w \in Writers, Advance(w) PROVE PointersAreNat'
    <3>1. [step |-> "set", version |-> pg + 1] \in [step : {"idle", "set", "publish"}, version : Nat]
      BY <1>0
    <3> QED  BY <1>0, <2>1, <3>1 DEF Advance, StreamInv, PointersAreNat, streams, published
  <2>2. ASSUME NEW w \in Writers, SetPointer(w) PROVE PointersAreNat'
    BY <1>0, <2>2 DEF SetPointer, StreamInv, PointersAreNat, streams, published
  <2>3. ASSUME NEW w \in Writers, FailToWrite(w) PROVE PointersAreNat'
    BY <1>0, <2>3 DEF FailToWrite, StreamInv, PointersAreNat, published
  <2>4. CASE LoseRedis
    BY <2>4 DEF LoseRedis, NoPointer, StreamInv, PointersAreNat, published
  <2> QED  BY <2>1, <2>2, <2>3, <2>4
<1>2. /\ feed' = feed \/ feed' = <<>>
      /\ UNCHANGED <<published, connected, queue, current, pushed, reader>>
  BY DEF Advance, SetPointer, FailToWrite, LoseRedis, streams
<1>3. FeedInOrder'
  BY <1>2 DEF StreamInv, PointersAreNat, FeedInOrder, InOrder, NoneAbove, MayFollow, published
<1> QED  BY <1>1, <1>2, <1>3, StreamsAlone DEF StreamInv

\* The pointer that is published goes behind all the others: it is the newest, or late.
LEMMA PublishKeeps ==
  ASSUME StreamInv, NEW w \in Writers, PublishPointer(w)
  PROVE  StreamInv' /\ \A c \in Clients : MovesForward(c)
<1> DEFINE v == writing[w].version
<1>1. v \in Nat /\ newest \in Nat /\ late \subseteq Nat /\ feed \in Seq(Nat)
  BY DEF PublishPointer, StreamInv, PointersAreNat
<1>2. /\ feed' = Append(feed, v) /\ UNCHANGED <<pg, redis, cache, reader, streams>>
      /\ writing' = [writing EXCEPT ![w] = NotWriting]
      /\ \/ v < newest /\ late' = late \cup {v} /\ newest' = newest
         \/ ~(v < newest) /\ newest' = v /\ late' = late
  BY DEF PublishPointer
<1>3. NotWriting \in [step : {"idle", "set", "publish"}, version : Nat]
  BY DEF NotWriting, NoPointer
<1>4. PointersAreNat'
  <2>1. late' \subseteq Nat /\ newest' \in Nat /\ feed' \in Seq(Nat)
    <3> HIDE DEF v
    <3>1. late' \subseteq Nat /\ newest' \in Nat
      BY <1>1, <1>2
    <3>2. feed' \in Seq(Nat)
      BY <1>1, <1>2
    <3> QED  BY <3>1, <3>2
  <2>2. writing' \in [Writers -> [step : {"idle", "set", "publish"}, version : Nat]]
    BY <1>2, <1>3 DEF StreamInv, PointersAreNat
  <2> QED  BY <1>2, <2>1, <2>2 DEF StreamInv, PointersAreNat, streams
<1> HIDE DEF v
<1>5. /\ late \subseteq late' /\ newest' \in Nat /\ newest <= newest' /\ v <= newest'
      /\ \A u \in Nat : u <= newest => u <= v \/ v \in late'
      /\ \A u \in Nat : u <= newest => u <= newest'
  BY <1>1, <1>2
<1>6. ASSUME NEW u \in Nat, u <= newest, AllFollow(feed, u)
      PROVE  \A i \in 1..Len(feed') : u <= feed'[i] \/ feed'[i] \in late'
  BY <1>1, <1>2, <1>5, <1>6 DEF AllFollow, MayFollow
<1>7. FeedInOrder'
  <2>1. \A i \in 1..Len(feed) : feed[i] \in Nat /\ feed[i] <= newest
    BY <1>1 DEF StreamInv, FeedInOrder, NoneAbove
  <2>2. /\ Len(feed') = Len(feed) + 1 /\ feed'[Len(feed) + 1] = v
        /\ \A i \in 1..Len(feed) : feed'[i] = feed[i]
        /\ \A i \in 1..(Len(feed) + 1) : i = Len(feed) + 1 \/ i \in 1..Len(feed)
    BY <1>1, <1>2
  <2>3. NoneAbove(feed, newest)'
    BY <2>1, <2>2, <1>5 DEF NoneAbove
  <2>4. ASSUME NEW i \in 1..(Len(feed) + 1), NEW j \in 1..(Len(feed) + 1), i < j
        PROVE  feed'[i] <= feed'[j] \/ feed'[j] \in late'
    <3>1. CASE j = Len(feed) + 1
      BY <1>5, <2>1, <2>2, <2>4, <3>1
    <3>2. CASE j \in 1..Len(feed)
      <4>1. i \in 1..Len(feed)
        BY <2>4, <3>2
      <4>2. MayFollow(feed[i], feed[j])
        BY <2>4, <3>2, <4>1 DEF StreamInv, FeedInOrder, InOrder
      <4> QED  BY <1>5, <2>2, <3>2, <4>1, <4>2 DEF MayFollow
    <3> QED  BY <2>2, <3>1, <3>2
  <2> QED  BY <2>2, <2>3, <2>4 DEF FeedInOrder, InOrder, MayFollow
<1>8. ASSUME NEW c \in Clients PROVE ClientOK(c)' /\ MovesForward(c)
  <2>1. queue[c] \in Seq(Nat) /\ current[c] \in Nat /\ ClientOK(c)
    BY DEF StreamInv, PointersAreNat
  <2>2. \A i \in 1..Len(queue[c]) : queue[c][i] \in Nat /\ queue[c][i] <= newest
    BY <2>1 DEF ClientOK, QueueInOrder, NoneAbove
  <2>3. UNCHANGED <<connected, queue, current, pushed, reader>>
    BY <1>2 DEF streams
  <2>4. QueueInOrder(c)'
    <3>1. \A i \in 1..Len(queue[c]) :
            \A k \in 1..Len(feed') : queue[c][i] <= feed'[k] \/ feed'[k] \in late'
      BY <1>6, <2>1, <2>2 DEF ClientOK, QueueInOrder
    <3>2. \A i, j \in 1..Len(queue[c]) :
            i < j => queue[c][i] <= queue[c][j] \/ queue[c][j] \in late'
      BY <1>5, <2>1 DEF ClientOK, QueueInOrder, InOrder, MayFollow
    <3>3. \A i \in 1..Len(queue[c]) : queue[c][i] <= newest'
      BY <1>5, <2>2
    <3> QED  BY <2>3, <3>1, <3>2, <3>3 DEF QueueInOrder, InOrder, NoneAbove, AllFollow, MayFollow
  <2>5. PushedIsBehind(c)'
    <3> SUFFICES ASSUME pushed[c] PROVE PushedIsBehind(c)'
      BY <2>3 DEF PushedIsBehind
    <3>1. connected[c] /\ current[c] <= newest /\ AllFollow(queue[c], current[c])
          /\ AllFollow(feed, current[c])
      BY <2>1 DEF ClientOK, PushedIsBehind
    <3>2. \A k \in 1..Len(feed') : current[c] <= feed'[k] \/ feed'[k] \in late'
      BY <1>6, <2>1, <3>1
    <3>3. \A i \in 1..Len(queue[c]) : current[c] <= queue[c][i] \/ queue[c][i] \in late'
      BY <1>5, <3>1 DEF AllFollow, MayFollow
    <3>4. current[c] <= newest'
      BY <1>5, <2>1, <3>1
    <3> QED  BY <2>3, <3>1, <3>2, <3>3, <3>4 DEF PushedIsBehind, AllFollow, MayFollow
  <2>6. ConnectsOnce(c)' /\ MovesForward(c)
    BY <2>1, <2>3 DEF ClientOK, ConnectsOnce, MovesForward
  <2> QED  BY <2>4, <2>5, <2>6 DEF ClientOK
<1> QED  BY <1>4, <1>7, <1>8 DEF StreamInv

(***************************************************************************)
(* The relay.                                                              *)
(***************************************************************************)
LEMMA HeadAndTail ==
  ASSUME NEW s \in Seq(Nat), InOrder(s), s # <<>>
  PROVE  /\ Head(s) \in Nat /\ Tail(s) \in Seq(Nat) /\ InOrder(Tail(s))
         /\ AllFollow(Tail(s), Head(s))
         /\ 1 \in 1..Len(s) /\ Head(s) = s[1]
         /\ \A i \in 1..Len(Tail(s)) : i + 1 \in 1..Len(s) /\ Tail(s)[i] = s[i + 1]
  BY DEF InOrder, AllFollow

\* Appending a pointer that may follow all the others.
LEMMA AppendedAtEnd ==
  ASSUME NEW s \in Seq(Nat), NEW v \in Nat
  PROVE  /\ InOrder(s) /\ (\A i \in 1..Len(s) : MayFollow(s[i], v)) => InOrder(Append(s, v))
         /\ \A u \in Nat : v <= u /\ NoneAbove(s, u) => NoneAbove(Append(s, v), u)
         /\ \A u \in Nat : MayFollow(u, v) /\ AllFollow(s, u) => AllFollow(Append(s, v), u)
<1>1. /\ Len(Append(s, v)) = Len(s) + 1 /\ Append(s, v)[Len(s) + 1] = v
      /\ \A i \in 1..Len(s) : Append(s, v)[i] = s[i] /\ s[i] \in Nat
      /\ \A i \in 1..(Len(s) + 1) : i = Len(s) + 1 \/ i \in 1..Len(s)
  OBVIOUS
<1>2. InOrder(s) /\ (\A i \in 1..Len(s) : MayFollow(s[i], v)) => InOrder(Append(s, v))
  <2> SUFFICES ASSUME InOrder(s), \A i \in 1..Len(s) : MayFollow(s[i], v),
                      NEW i \in 1..(Len(s) + 1), NEW j \in 1..(Len(s) + 1), i < j
               PROVE  MayFollow(Append(s, v)[i], Append(s, v)[j])
    BY <1>1 DEF InOrder
  <2>1. i \in 1..Len(s)
    OBVIOUS
  <2>2. CASE j = Len(s) + 1
    BY <1>1, <2>1, <2>2
  <2>3. CASE j \in 1..Len(s)
    BY <1>1, <2>1, <2>3 DEF InOrder
  <2> QED  BY <1>1, <2>2, <2>3
<1>3. \A u \in Nat : v <= u /\ NoneAbove(s, u) => NoneAbove(Append(s, v), u)
  BY <1>1 DEF NoneAbove
<1>4. \A u \in Nat : MayFollow(u, v) /\ AllFollow(s, u) => AllFollow(Append(s, v), u)
  BY <1>1 DEF AllFollow
<1> QED  BY <1>2, <1>3, <1>4

\* The oldest published pointer may follow what a queue holds and be followed by what
\* is still to come.
LEMMA RelayKeeps ==
  ASSUME StreamInv, Relay
  PROVE  StreamInv' /\ \A c \in Clients : MovesForward(c)
<1> DEFINE v == Head(feed)
<1>1. /\ feed \in Seq(Nat) /\ feed # <<>> /\ feed' = Tail(feed) /\ newest \in Nat
      /\ UNCHANGED <<newest, late>>
  BY DEF Relay, StreamInv, PointersAreNat, pointers, published
<1>2. InOrder(feed) /\ NoneAbove(feed, newest)
  BY DEF StreamInv, FeedInOrder
<1>3. /\ v \in Nat /\ v <= newest /\ AllFollow(feed', v)
      /\ \A u \in Nat : AllFollow(feed, u) => MayFollow(u, v) /\ AllFollow(feed', u)
  BY <1>1, <1>2, HeadAndTail DEF NoneAbove, AllFollow
<1>4. FeedInOrder'
  BY <1>1, <1>2, HeadAndTail DEF FeedInOrder, InOrder, MayFollow, NoneAbove
<1>5. ASSUME NEW c \in Clients
      PROVE  queue'[c] \in Seq(Nat) /\ queue'[c] \in {queue[c], Append(queue[c], v)}
  BY <1>3 DEF Relay, Enqueued, StreamInv, PointersAreNat
<1>6. queue' \in [Clients -> Seq(Nat)]
  BY <1>5 DEF Relay
<1>7. PointersAreNat'
  BY <1>1, <1>3, <1>6, HeadAndTail, <1>2
     DEF Relay, Cached, StreamInv, PointersAreNat, pointers, published
<1>8. ASSUME NEW c \in Clients PROVE ClientOK(c)' /\ MovesForward(c)
  <2>1. queue[c] \in Seq(Nat) /\ current[c] \in Nat /\ ClientOK(c)
    BY DEF StreamInv, PointersAreNat
  <2>2. UNCHANGED <<connected, current, pushed, reader>>
    BY DEF Relay
  <2>3. \A i \in 1..Len(queue[c]) : /\ queue[c][i] \in Nat /\ MayFollow(queue[c][i], v)
                                    /\ AllFollow(feed', queue[c][i])
    BY <1>3, <2>1 DEF ClientOK, QueueInOrder
  <2>4. QueueInOrder(c)'
    <3>1. CASE queue'[c] = queue[c]
      BY <1>1, <2>1, <2>3, <3>1 DEF ClientOK, QueueInOrder, InOrder, NoneAbove, AllFollow, MayFollow
    <3>2. CASE queue'[c] = Append(queue[c], v)
      <4>1. InOrder(queue'[c]) /\ NoneAbove(queue'[c], newest)
        <5>1. InOrder(queue[c]) /\ NoneAbove(queue[c], newest)
          BY <2>1 DEF ClientOK, QueueInOrder
        <5>2. \A i \in 1..Len(queue[c]) : MayFollow(queue[c][i], v)
          BY <2>3
        <5>3. v \in Nat /\ newest \in Nat /\ v <= newest /\ queue[c] \in Seq(Nat)
          BY <1>1, <1>3, <2>1
        <5> HIDE DEF v
        <5>4. InOrder(Append(queue[c], v))
          BY <5>1, <5>2, <5>3, AppendedAtEnd
        <5>5. NoneAbove(Append(queue[c], v), newest)
          BY <5>1, <5>3, AppendedAtEnd
        <5> QED  BY <3>2, <5>4, <5>5
      <4>2. \A i \in 1..Len(queue'[c]) : AllFollow(feed', queue'[c][i])
        BY <1>3, <2>1, <2>3, <3>2
      <4> QED  BY <1>1, <4>1, <4>2 DEF QueueInOrder, InOrder, NoneAbove, AllFollow, MayFollow
    <3> QED  BY <1>5, <3>1, <3>2
  <2>5. PushedIsBehind(c)'
    <3> SUFFICES ASSUME pushed[c]
                 PROVE  /\ connected[c] /\ current[c] <= newest
                        /\ AllFollow(queue'[c], current[c]) /\ AllFollow(feed', current[c])
      BY <1>1, <2>2 DEF PushedIsBehind, AllFollow, MayFollow
    <3>1. /\ connected[c] /\ current[c] <= newest
          /\ AllFollow(queue[c], current[c]) /\ AllFollow(feed, current[c])
      BY <2>1 DEF ClientOK, PushedIsBehind
    <3>2. MayFollow(current[c], v) /\ AllFollow(feed', current[c])
      BY <1>3, <2>1, <3>1
    <3>3. AllFollow(queue'[c], current[c])
      <4>1. AllFollow(Append(queue[c], v), current[c])
        BY <1>3, <2>1, <3>1, <3>2, AppendedAtEnd
      <4>2. CASE queue'[c] = queue[c]
        BY <3>1, <4>2
      <4>3. CASE queue'[c] = Append(queue[c], v)
        BY <4>1, <4>3
      <4> QED  BY <1>5, <4>2, <4>3
    <3> QED  BY <3>1, <3>2, <3>3
  <2>6. ConnectsOnce(c)' /\ MovesForward(c)
    BY <2>1, <2>2 DEF ClientOK, ConnectsOnce, MovesForward
  <2> QED  BY <2>4, <2>5, <2>6 DEF ClientOK
<1> QED  BY <1>4, <1>7, <1>8 DEF StreamInv

(***************************************************************************)
(* The streams.                                                            *)
(***************************************************************************)
\* The client's oldest queued pointer becomes its current one.
LEMMA StreamKeeps ==
  ASSUME StreamInv, NEW d \in Clients, Stream(d)
  PROVE  StreamInv' /\ \A c \in Clients : MovesForward(c)
<1>1. /\ queue[d] \in Seq(Nat) /\ queue[d] # <<>> /\ InOrder(queue[d])
      /\ queue \in [Clients -> Seq(Nat)] /\ current \in [Clients -> Nat]
      /\ pushed \in [Clients -> BOOLEAN] /\ newest \in Nat
  BY DEF Stream, StreamInv, PointersAreNat, ClientOK, QueueInOrder
<1>2. /\ UNCHANGED <<pg, redis, writing, newest, late, feed, cache, reader, connected>>
      /\ connected[d]
      /\ queue' = [queue EXCEPT ![d] = Tail(queue[d])]
      /\ current' = [current EXCEPT ![d] = Head(queue[d])]
      /\ pushed' = [pushed EXCEPT ![d] = TRUE]
  BY DEF Stream, pointers, published
<1>3. Head(queue[d]) \in Nat /\ Tail(queue[d]) \in Seq(Nat)
  BY <1>1, HeadAndTail
<1>4. PointersAreNat' /\ FeedInOrder'
  BY <1>1, <1>2, <1>3 DEF MayFollow, StreamInv, PointersAreNat, FeedInOrder, InOrder, NoneAbove
<1>5. ASSUME NEW c \in Clients PROVE ClientOK(c)' /\ MovesForward(c)
  <2>1. ClientOK(c)
    BY DEF StreamInv
  <2>2. CASE c # d
    <3>1. queue'[c] = queue[c] /\ current'[c] = current[c] /\ pushed'[c] = pushed[c]
      BY <1>1, <1>2, <2>2
    <3>2. current[c] \in Nat
      BY <1>1
    <3>3. QueueInOrder(c)'
      BY <1>2, <2>1, <3>1 DEF MayFollow, ClientOK, QueueInOrder, InOrder, NoneAbove, AllFollow
    <3>4. PushedIsBehind(c)'
      BY <1>2, <2>1, <3>1 DEF MayFollow, ClientOK, PushedIsBehind, AllFollow
    <3>6. ConnectsOnce(c)'
      BY <1>2, <2>1 DEF ClientOK, ConnectsOnce
    <3>5. MovesForward(c)
      BY <3>1, <3>2 DEF MovesForward
    <3> QED  BY <3>3, <3>4, <3>5, <3>6 DEF ClientOK
  <2>3. CASE c = d
    <3>1. queue'[d] = Tail(queue[d]) /\ current'[d] = Head(queue[d]) /\ pushed'[d]
      BY <1>1, <1>2
    <3>2. /\ InOrder(Tail(queue[d])) /\ AllFollow(Tail(queue[d]), Head(queue[d]))
          /\ 1 \in 1..Len(queue[d]) /\ Head(queue[d]) = queue[d][1]
          /\ \A i \in 1..Len(Tail(queue[d])) :
               i + 1 \in 1..Len(queue[d]) /\ Tail(queue[d])[i] = queue[d][i + 1]
      BY <1>1, HeadAndTail
    <3>3. /\ NoneAbove(queue[d], newest)
          /\ \A i \in 1..Len(queue[d]) : AllFollow(feed, queue[d][i])
      BY <2>1, <2>3 DEF ClientOK, QueueInOrder
    <3>4. /\ NoneAbove(Tail(queue[d]), newest) /\ Head(queue[d]) <= newest
          /\ \A i \in 1..Len(Tail(queue[d])) : AllFollow(feed, Tail(queue[d])[i])
          /\ AllFollow(feed, Head(queue[d]))
      BY <3>2, <3>3 DEF NoneAbove
    <3>5. QueueInOrder(d)' /\ PushedIsBehind(d)'
      <4>1. connected'[d] /\ late' = late /\ newest' = newest /\ feed' = feed
        BY <1>2
      <4>2. InOrder(queue[d])' /\ NoneAbove(queue[d], newest)'
        BY <3>1, <3>2, <3>4, <4>1 DEF MayFollow, InOrder, NoneAbove
      <4>3. \A i \in 1..Len(queue'[d]) : AllFollow(feed, queue[d][i])'
        BY <3>1, <3>4, <4>1 DEF MayFollow, AllFollow
      <4>4. AllFollow(queue[d], current[d])'
        BY <3>1, <3>2, <4>1 DEF MayFollow, AllFollow
      <4>5. AllFollow(feed, current[d])'
        BY <3>1, <3>4, <4>1 DEF MayFollow, AllFollow
      <4>6. QueueInOrder(d)'
        BY <4>2, <4>3 DEF QueueInOrder
      <4> QED  BY <3>1, <3>4, <4>1, <4>4, <4>5, <4>6 DEF PushedIsBehind
    <3>6. ConnectsOnce(d)'
      BY <1>2, <2>1, <2>3 DEF ClientOK, ConnectsOnce
    <3>7. pushed[d] => MayFollow(current[d], Head(queue[d]))
      BY <1>1, <2>1, <2>3, <3>2 DEF ClientOK, PushedIsBehind, AllFollow
    <3>8. current[d] \in Nat /\ Head(queue[d]) \in Nat
      BY <1>1, <1>3
    <3>9. MovesForward(d)
      BY <3>1, <3>7, <3>8 DEF MovesForward, MayFollow
    <3> QED  BY <2>3, <3>5, <3>6, <3>9 DEF ClientOK
  <2> QED  BY <2>2, <2>3
<1> QED  BY <1>4, <1>5 DEF StreamInv

\* The stream is closed: nothing was pushed on the next one.
LEMMA DisconnectKeeps ==
  ASSUME StreamInv, NEW d \in Clients, Disconnect(d)
  PROVE  StreamInv' /\ \A c \in Clients : MovesForward(c)
<1>1. /\ UNCHANGED <<pg, redis, writing, newest, late, feed, cache, reader>>
      /\ connected' = [connected EXCEPT ![d] = FALSE]
      /\ queue' = [queue EXCEPT ![d] = <<>>]
      /\ current' = [current EXCEPT ![d] = NoPointer]
      /\ pushed' = [pushed EXCEPT ![d] = FALSE]
  BY DEF Disconnect, pointers, published
<1>2. PointersAreNat' /\ FeedInOrder'
  BY <1>1 DEF MayFollow, StreamInv, PointersAreNat, FeedInOrder, InOrder, NoneAbove, NoPointer
<1>3. ASSUME NEW c \in Clients PROVE ClientOK(c)' /\ MovesForward(c)
  <2>1. ClientOK(c) /\ current[c] \in Nat
    BY DEF StreamInv, PointersAreNat
  <2>2. CASE c # d
    <3>1. /\ queue'[c] = queue[c] /\ current'[c] = current[c] /\ pushed'[c] = pushed[c]
          /\ connected'[c] = connected[c]
      BY <1>1, <2>2 DEF StreamInv, PointersAreNat
    <3>2. QueueInOrder(c)'
      BY <1>1, <2>1, <3>1 DEF MayFollow, ClientOK, QueueInOrder, InOrder, NoneAbove, AllFollow
    <3>3. PushedIsBehind(c)'
      <4>1. late' = late /\ newest' = newest /\ feed' = feed
        BY <1>1
      <4> QED  BY <2>1, <3>1, <4>1 DEF MayFollow, ClientOK, PushedIsBehind, AllFollow
    <3>4. ConnectsOnce(c)'
      BY <1>1, <2>1, <3>1 DEF ClientOK, ConnectsOnce
    <3>5. MovesForward(c)
      BY <2>1, <3>1 DEF MovesForward
    <3> QED  BY <3>2, <3>3, <3>4, <3>5 DEF ClientOK
  <2>3. CASE c = d
    <3>1. queue'[c] = <<>> /\ ~pushed'[c] /\ ~connected'[c]
      BY <1>1, <2>3 DEF StreamInv, PointersAreNat
    <3> QED  BY <3>1 DEF MayFollow, ClientOK, QueueInOrder, PushedIsBehind, ConnectsOnce, MovesForward,
             InOrder, NoneAbove, AllFollow
  <2> QED  BY <2>2, <2>3
<1> QED  BY <1>2, <1>3 DEF StreamInv

(***************************************************************************)
(* The readers.                                                            *)
(***************************************************************************)
\* A reader only opens a stream that is closed, and has had no push therefore.
LEMMA ReadersKeep ==
  ASSUME StreamInv, PointersAreNat', NEW d \in Clients,
         UNCHANGED <<pg, writing, published, feed, queue, pushed>>,
         \A c \in Clients \ {d} : /\ connected'[c] = connected[c] /\ current'[c] = current[c]
                                  /\ reader'[<<c, "events">>] = reader[<<c, "events">>],
         \/ /\ connected'[d] = connected[d] /\ current'[d] = current[d]
            /\ reader'[<<d, "events">>].pc # "idle" => ~connected[d]
         \/ ~connected[d] /\ reader'[<<d, "events">>].pc = "idle"
  PROVE  StreamInv' /\ \A c \in Clients : MovesForward(c)
<1>1. FeedInOrder'
  BY DEF published, MayFollow, StreamInv, FeedInOrder, InOrder, NoneAbove
<1>2. ASSUME NEW c \in Clients PROVE ClientOK(c)' /\ MovesForward(c)
  <2>1. ClientOK(c) /\ current[c] \in Nat
    BY DEF StreamInv, PointersAreNat
  <2>2. QueueInOrder(c)'
    BY <2>1 DEF published, MayFollow, ClientOK, QueueInOrder, InOrder, NoneAbove, AllFollow
  <2>3. CASE connected'[c] = connected[c] /\ current'[c] = current[c]
    <3>1. PushedIsBehind(c)' /\ MovesForward(c)
      BY <2>1, <2>3 DEF published, MayFollow, ClientOK, PushedIsBehind, MovesForward, AllFollow
    <3>2. ConnectsOnce(c)'
      BY <2>1, <2>3 DEF ClientOK, ConnectsOnce
    <3> QED  BY <2>2, <3>1, <3>2 DEF ClientOK
  <2>4. CASE c = d /\ ~connected[d] /\ reader'[<<d, "events">>].pc = "idle"
    BY <2>1, <2>2, <2>4 DEF ClientOK, PushedIsBehind, ConnectsOnce, MovesForward
  <2> QED  BY <2>3, <2>4
<1> QED  BY <1>1, <1>2 DEF StreamInv

LEMMA ReaderParts ==
  /\ \A x \in Readers : x[1] \in Clients /\ x[2] \in Routes /\ x = <<x[1], x[2]>>
  /\ \A c \in Clients : <<c, "events">> \in Readers /\ <<c, "now_playing">> \in Readers
  /\ "events" # "now_playing"
  BY DEF Readers, Routes

LEMMA GotoKeeps ==
  ASSUME StreamInv, NEW x \in Readers, NEW r \in ReaderRecord,
         reader' = [reader EXCEPT ![x] = r],
         UNCHANGED <<pg, writing, published, feed, connected, queue, current, pushed>>,
         redis' \in Nat, cache' \in [version : Nat, fresh : BOOLEAN],
         x[2] = "events" /\ r.pc # "idle" => ~connected[x[1]]
  PROVE  StreamInv' /\ \A c \in Clients : MovesForward(c)
<1>1. PointersAreNat'
  BY DEF StreamInv, PointersAreNat, published
<1>2. \A y \in Readers : reader'[y] = IF y = x THEN r ELSE reader[y]
  BY DEF StreamInv, PointersAreNat
<1>3. \A c \in Clients \ {x[1]} : reader'[<<c, "events">>] = reader[<<c, "events">>]
  BY <1>2, ReaderParts
<1>4. reader'[<<x[1], "events">>].pc # "idle" => ~connected[x[1]]
  <2>1. CASE x[2] = "events"
    BY <1>2, <2>1, ReaderParts
  <2>2. CASE x[2] # "events"
    <3>1. reader'[<<x[1], "events">>] = reader[<<x[1], "events">>]
      BY <1>2, <2>2, ReaderParts
    <3> QED  BY <3>1, ReaderParts DEF StreamInv, ClientOK, ConnectsOnce
  <2> QED  BY <2>1, <2>2
<1> QED  BY <1>1, <1>3, <1>4, ReadersKeep, ReaderParts

LEMMA ResolveKeeps ==
  ASSUME StreamInv, NEW x \in Readers, NEW v \in Nat, Resolve(x, v),
         UNCHANGED <<pg, writing, published, feed>>,
         redis' \in Nat, cache' \in [version : Nat, fresh : BOOLEAN],
         x[2] = "events" => ~connected[x[1]]
  PROVE  StreamInv' /\ \A c \in Clients : MovesForward(c)
<1>1. CASE x[2] = "events"
  <2>1. /\ reader' = [reader EXCEPT ![x] = Idle]
        /\ connected' = [connected EXCEPT ![x[1]] = TRUE]
        /\ current' = [current EXCEPT ![x[1]] = v]
        /\ UNCHANGED <<queue, pushed>>
    BY <1>1, ReaderParts DEF Resolve
  <2>2. Idle \in ReaderRecord /\ Idle.pc = "idle"
    BY DEF Idle, ReaderRecord, NoPointer
  <2>3. PointersAreNat'
    BY <2>1, <2>2 DEF StreamInv, PointersAreNat, published
  <2>4. reader'[<<x[1], "events">>].pc = "idle"
    BY <1>1, <2>1, <2>2, ReaderParts DEF StreamInv, PointersAreNat
  <2>5. \A c \in Clients \ {x[1]} : /\ connected'[c] = connected[c] /\ current'[c] = current[c]
                                    /\ reader'[<<c, "events">>] = reader[<<c, "events">>]
    BY <2>1, ReaderParts DEF StreamInv, PointersAreNat
  <2> QED  BY <1>1, <2>1, <2>3, <2>4, <2>5, ReadersKeep, ReaderParts
<1>2. CASE x[2] # "events"
  <2>1. ReaderGoto(x, "answered", v) /\ UNCHANGED streams
    BY <1>2 DEF Resolve
  <2>2. [pc |-> "answered", version |-> v] \in ReaderRecord
    BY DEF ReaderRecord
  <2> QED  BY <1>2, <2>1, <2>2, GotoKeeps DEF ReaderGoto, streams
<1> QED  BY <1>1, <1>2

\* A read through the three levels, for either route.
LEMMA ReaderKeeps ==
  ASSUME StreamInv, NEW x \in Readers, ReaderNext(x)
  PROVE  StreamInv' /\ \A c \in Clients : MovesForward(c)
<1>1. /\ reader[x] \in ReaderRecord /\ reader[x].version \in Nat /\ redis \in Nat /\ pg \in Nat
      /\ cache \in [version : Nat, fresh : BOOLEAN] /\ NoPointer \in Nat
  BY DEF StreamInv, PointersAreNat, ReaderRecord, NoPointer
<1>2. x[2] = "events" /\ reader[x].pc # "idle" => ~connected[x[1]]
  BY ReaderParts DEF StreamInv, ClientOK, ConnectsOnce
<1>3. \A v \in Nat : \A pc \in {"postgres", "from_redis", "from_postgres", "write_back", "written"} :
        [pc |-> pc, version |-> v] \in ReaderRecord
  BY DEF ReaderRecord
<1>4. \A v \in Nat : Cached(v) \in [version : Nat, fresh : BOOLEAN]
  BY DEF Cached
<1>5. CASE AskRedis(x)
  <2>1. PICK v \in {redis, NoPointer}, pc \in {"from_redis", "postgres"} : ReaderGoto(x, pc, v)
    BY <1>5 DEF AskRedis
  <2>2. UNCHANGED <<pointers, feed, cache, streams>> /\ reader[x].pc = "redis"
    BY <1>5 DEF AskRedis, ReaderAt
  <2> QED  BY <1>1, <1>2, <1>3, <2>1, <2>2, GotoKeeps DEF ReaderGoto, pointers, streams
<1>6. CASE AskPostgres(x)
  BY <1>1, <1>2, <1>3, <1>6, GotoKeeps DEF AskPostgres, ReaderAt, ReaderGoto, pointers, streams
<1>7. CASE WriteBack(x)
  BY <1>1, <1>2, <1>3, <1>7, GotoKeeps DEF WriteBack, ReaderAt, ReaderGoto, streams
<1>8. CASE FromRedis(x)
  BY <1>1, <1>2, <1>4, <1>8, ResolveKeeps DEF FromRedis, ReaderAt, pointers
<1>9. CASE Written(x)
  BY <1>1, <1>2, <1>9, ResolveKeeps DEF Written, ReaderAt, pointers
<1>10. CASE FromPostgres(x)
  <2>1. UNCHANGED <<pointers, feed>> /\ reader[x].pc = "from_postgres"
    BY <1>10 DEF FromPostgres, ReaderAt
  <2>2. CASE Resolve(x, NoPointer) /\ UNCHANGED cache
    BY <1>1, <1>2, <2>1, <2>2, ResolveKeeps DEF pointers
  <2>3. CASE /\ cache' = Cached(reader[x].version)
             /\ ReaderGoto(x, "write_back", reader[x].version)
             /\ UNCHANGED streams
    BY <1>1, <1>2, <1>3, <1>4, <2>1, <2>3, GotoKeeps DEF ReaderGoto, pointers, streams
  <2> QED  BY <1>10, <2>2, <2>3 DEF FromPostgres
<1> QED  BY <1>5, <1>6, <1>7, <1>8, <1>9, <1>10 DEF ReaderNext

LEMMA ConnectKeeps ==
  ASSUME StreamInv, NEW d \in Clients, Connect(d)
  PROVE  StreamInv' /\ \A c \in Clients : MovesForward(c)
<1>1. <<d, "events">> \in Readers /\ <<d, "events">>[1] = d /\ <<d, "events">>[2] = "events"
  BY ReaderParts
<1>2. /\ redis \in Nat /\ cache \in [version : Nat, fresh : BOOLEAN] /\ cache.version \in Nat
      /\ UNCHANGED <<pointers, feed, cache>> /\ ~connected[d]
  BY DEF Connect, StreamInv, PointersAreNat
<1>3. CASE Resolve(<<d, "events">>, cache.version)
  BY <1>1, <1>2, <1>3, ResolveKeeps DEF pointers
<1>4. CASE ReaderGoto(<<d, "events">>, "redis", NoPointer) /\ UNCHANGED streams
  <2>1. [pc |-> "redis", version |-> NoPointer] \in ReaderRecord
    BY DEF ReaderRecord, NoPointer
  <2> QED  BY <1>1, <1>2, <1>4, <2>1, GotoKeeps DEF ReaderGoto, pointers, streams
<1> QED  BY <1>3, <1>4 DEF Connect

\* The player's own question when its song ends, and the answer to it.
LEMMA RefetchKeeps ==
  ASSUME StreamInv, NEW d \in Clients, Ended(d) \/ Refetched(d)
  PROVE  StreamInv' /\ \A c \in Clients : MovesForward(c)
<1>1. <<d, "now_playing">> \in Readers /\ <<d, "now_playing">>[2] # "events"
  BY ReaderParts
<1>2. /\ redis \in Nat /\ cache \in [version : Nat, fresh : BOOLEAN] /\ cache.version \in Nat
      /\ UNCHANGED <<pointers, feed, cache, streams>>
  BY DEF Ended, Refetched, StreamInv, PointersAreNat
<1>3. /\ [pc |-> "answered", version |-> cache.version] \in ReaderRecord
      /\ [pc |-> "redis", version |-> NoPointer] \in ReaderRecord
      /\ Idle \in ReaderRecord
  BY <1>2 DEF ReaderRecord, NoPointer, Idle
<1>4. \E r \in ReaderRecord : reader' = [reader EXCEPT ![<<d, "now_playing">>] = r]
  BY <1>3 DEF Ended, Refetched, ReaderGoto
<1> QED  BY <1>1, <1>2, <1>4, GotoKeeps DEF pointers, streams

LEMMA StreamSteps ==
  ASSUME StreamInv, [FanoutNext]_fanoutVars
  PROVE  StreamInv' /\ \A c \in Clients : MovesForward(c)
<1>1. CASE /\ UNCHANGED <<pg, redis, writing, published, feed, reader, connected, queue, current, pushed>>
           /\ cache' \in [version : Nat, fresh : BOOLEAN]
  <2>1. PointersAreNat' /\ FeedInOrder'
    BY <1>1 DEF published, MayFollow, StreamInv, PointersAreNat, FeedInOrder, InOrder, NoneAbove
  <2> QED  BY <1>1, <2>1, StreamsAlone DEF StreamInv
<1>2. CASE CacheExpires \/ (\E c \in Clients : Heartbeat(c)) \/ UNCHANGED fanoutVars
  <2>1. cache \in [version : Nat, fresh : BOOLEAN]
    BY DEF StreamInv, PointersAreNat
  <2> QED  BY <1>1, <1>2, <2>1 DEF CacheExpires, Heartbeat, fanoutVars, pointers, streams
<1>3. CASE LoseRedis \/ \E w \in Writers : Advance(w) \/ SetPointer(w) \/ FailToWrite(w)
  BY <1>3, CoordinatorKeeps
<1>4. CASE \E w \in Writers : PublishPointer(w)
  BY <1>4, PublishKeeps
<1>5. CASE Relay
  BY <1>5, RelayKeeps
<1>6. ASSUME NEW x \in Readers, ReaderNext(x)
      PROVE  StreamInv' /\ \A c \in Clients : MovesForward(c)
  BY <1>6, ReaderKeeps
<1>7. ASSUME NEW d \in Clients,
             Connect(d) \/ Stream(d) \/ Disconnect(d) \/ Ended(d) \/ Refetched(d)
      PROVE  StreamInv' /\ \A c \in Clients : MovesForward(c)
  BY <1>7, ConnectKeeps, StreamKeeps, DisconnectKeeps, RefetchKeeps
<1> QED  BY <1>2, <1>3, <1>4, <1>5, <1>6, <1>7 DEF FanoutNext

\* Once a stream has taken a pointer from its queue, only a pointer that was published
\* late takes it back, whatever caches, Redis and other readers hold and whatever is
\* lost, with any number of workers that think they lead.
THEOREM StreamNeverGoesBack == FanoutSpec => StreamMovesForward
<1>1. StreamInv /\ [FanoutNext]_fanoutVars =>
        StreamInv' /\ [\A c \in Clients :
                         pushed[c] /\ pushed'[c] /\ current'[c] < current[c]
                           => current'[c] \in late]_fanoutVars
  BY StreamSteps DEF MovesForward
<1> QED  BY StreamStarts, <1>1, PTL DEF FanoutSpec, StreamMovesForward
=============================================================================

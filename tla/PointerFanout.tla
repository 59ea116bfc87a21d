---------------------------- MODULE PointerFanout ----------------------------
(***************************************************************************)
(* How a song change reaches the listeners: the coordinator commits the    *)
(* pointer to Postgres, then SETs and PUBLISHes it in Redis; a web         *)
(* instance's relay (radio/pointer_broadcaster.py) puts it into its local  *)
(* cache (radio/pointer_cache.py) and into a bounded queue per client,     *)
(* from which GET /events (web/routes/events.py) sends frames; GET         *)
(* /now-playing reads through the local cache, Redis and Postgres.  The    *)
(* listener's player follows the frames and asks /now-playing when its     *)
(* song ends.  A pointer is its version; 0 is "no pointer".                *)
(*                                                                         *)
(* Each worker writes for itself: one that lost the leadership after its   *)
(* commit still SETs and PUBLISHes its pointer, and no reader compares     *)
(* versions, so it may come after a newer one.                             *)
(*                                                                         *)
(* Time is abstract: the local cache entry may become stale at any moment, *)
(* and a heartbeat may fire whenever the client's queue is empty.          *)
(***************************************************************************)
EXTENDS Integers, Sequences, FiniteSets

CONSTANTS
  Writers,       \* the workers, each with a coordinator
  Clients,       \* the EventSource connections of the instance
  MaxVersion,    \* bound: how often the coordinator changes the pointer
  QueueSize,     \* _QUEUE_MAXSIZE, plus the frame whose get() is pending
  FanoutFaults   \* bound: Redis errors, evictions, lost publications, lost locks

ASSUME FanoutAssumption ==
  /\ IsFiniteSet(Writers) /\ IsFiniteSet(Clients)
  /\ MaxVersion \in Nat /\ QueueSize \in Nat \ {0} /\ FanoutFaults \in Nat

VARIABLES
  pg,        \* radio_state.version in Postgres
  redis,     \* the version at the Redis pointer key, 0 if it is absent
  writing,   \* writing[w]: w's _write_pointer_best_effort, its step and version
  newest,    \* history: the newest pointer that was published
  late,      \* history: the pointers published after a newer one
  feed,      \* published pointers the relay has not taken off its subscription
  cache,     \* the instance's PointerCache
  reader,    \* reader[<<c, route>>]: a get_now_playing_cached in progress
  connected, \* connected[c]: the stream of c has its queue registered
  queue,     \* queue[c]: relayed pointers the stream has not sent
  current,   \* current[c]: the pointer the stream of c holds
  pushed,    \* pushed[c]: the stream has taken a pointer from its queue
  airing,    \* airing[c]: the pointer the player of c has applied
  audible,   \* audible[c]: that song has not ended for the player
  missed,    \* history: a pointer was lost or dropped while c was connected
  fanoutFaults

published == <<newest, late>>
pointers == <<pg, redis, writing, published>>
streams == <<connected, queue, current, pushed, missed>>
player == <<airing, audible>>
fanoutVars == <<pointers, feed, cache, reader, streams, player, fanoutFaults>>

Versions == 1..MaxVersion
NoPointer == 0
Pointers == Versions \cup {NoPointer}
Routes == {"events", "now_playing"}
Readers == Clients \X Routes

CanFailFanout == fanoutFaults < FanoutFaults
FanoutFault == CanFailFanout /\ fanoutFaults' = fanoutFaults + 1
NoFanoutFault == UNCHANGED fanoutFaults

Idle == [pc |-> "idle", version |-> NoPointer]
ReaderAt(x, pc) == reader[x].pc = pc
ReaderGoto(x, pc, v) == reader' = [reader EXCEPT ![x] = [pc |-> pc, version |-> v]]

\* PointerCache.set and PointerCache.get.
Cached(v) == [version |-> v, fresh |-> TRUE]

\* Mutated: an entry is never too old.
CacheHitAnyAge == cache.version # NoPointer

CacheHit == cache.fresh /\ cache.version # NoPointer

NotWriting == [step |-> "idle", version |-> NoPointer]

FanoutInit ==
  /\ pg = NoPointer /\ redis = NoPointer
  /\ writing = [w \in Writers |-> NotWriting]
  /\ newest = NoPointer /\ late = {}
  /\ feed = <<>>
  /\ cache = [version |-> NoPointer, fresh |-> FALSE]
  /\ reader = [x \in Readers |-> Idle]
  /\ connected = [c \in Clients |-> FALSE]
  /\ queue = [c \in Clients |-> <<>>]
  /\ current = [c \in Clients |-> NoPointer]
  /\ pushed = [c \in Clients |-> FALSE]
  /\ airing = [c \in Clients |-> NoPointer]
  /\ audible = [c \in Clients |-> FALSE]
  /\ missed = [c \in Clients |-> FALSE]
  /\ fanoutFaults = 0

(***************************************************************************)
(* A coordinator: commit under the version guard, then SET and PUBLISH in  *)
(* one try.  A worker that has not got there when another one commits is   *)
(* no longer the leader: it lost the lock (RadioCoordinator's LoseLock).   *)
(***************************************************************************)
Overtakes == \E w \in Writers : writing[w].step # "idle"

Advance(w) ==
  /\ writing[w].step = "idle" /\ pg < MaxVersion
  /\ pg' = pg + 1
  /\ writing' = [writing EXCEPT ![w] = [step |-> "set", version |-> pg + 1]]
  /\ IF Overtakes THEN FanoutFault ELSE NoFanoutFault
  /\ UNCHANGED <<redis, published, feed, cache, reader, streams, player>>

SetPointer(w) ==
  /\ writing[w].step = "set"
  /\ redis' = writing[w].version
  /\ writing' = [writing EXCEPT ![w].step = "publish"]
  /\ NoFanoutFault
  /\ UNCHANGED <<pg, published, feed, cache, reader, streams, player>>

PublishPointer(w) ==
  /\ writing[w].step = "publish"
  /\ feed' = Append(feed, writing[w].version)
  /\ IF writing[w].version < newest
     THEN late' = late \cup {writing[w].version} /\ UNCHANGED newest
     ELSE newest' = writing[w].version /\ UNCHANGED late
  /\ writing' = [writing EXCEPT ![w] = NotWriting]
  /\ NoFanoutFault
  /\ UNCHANGED <<pg, redis, cache, reader, streams, player>>

MissedByAll == missed' = [c \in Clients |-> missed[c] \/ connected[c]]

\* Redis is down, or the worker dies, after the commit: the rest is skipped.
FailToWrite(w) ==
  /\ writing[w].step # "idle"
  /\ writing' = [writing EXCEPT ![w] = NotWriting]
  /\ MissedByAll
  /\ FanoutFault
  /\ UNCHANGED <<pg, redis, published, feed, cache, reader, connected, queue, current, pushed, player>>

\* Redis restarts: the key and what was published and not read are gone.
LoseRedis ==
  /\ redis # NoPointer \/ feed # <<>>
  /\ redis' = NoPointer
  /\ feed' = <<>>
  /\ MissedByAll
  /\ FanoutFault
  /\ UNCHANGED <<pg, writing, published, cache, reader, connected, queue, current, pushed,
                 player>>

(***************************************************************************)
(* The relay: local cache first, then every client's queue, dropping the   *)
(* frame for a client whose queue is full.                                 *)
(***************************************************************************)
Enqueued(c, v) == IF connected[c] /\ Len(queue[c]) < QueueSize
                  THEN Append(queue[c], v) ELSE queue[c]
DroppedFor(c) == connected[c] /\ Len(queue[c]) >= QueueSize

\* Mutated: a pointer the local cache already holds is not news to anybody.
RelayNews ==
  /\ feed # <<>>
  /\ feed' = Tail(feed)
  /\ cache' = Cached(Head(feed))
  /\ queue' = [c \in Clients |-> IF cache.version = Head(feed) THEN queue[c]
                                 ELSE Enqueued(c, Head(feed))]
  /\ missed' = [c \in Clients |-> missed[c] \/ DroppedFor(c)]
  /\ NoFanoutFault
  /\ UNCHANGED <<pointers, reader, connected, current, pushed, player>>

Relay ==
  /\ feed # <<>>
  /\ feed' = Tail(feed)
  /\ cache' = Cached(Head(feed))
  /\ queue' = [c \in Clients |-> Enqueued(c, Head(feed))]
  /\ missed' = [c \in Clients |-> missed[c] \/ DroppedFor(c)]
  /\ NoFanoutFault
  /\ UNCHANGED <<pointers, reader, connected, current, pushed, player>>

\* radio_pointer_cache_ttl_seconds have passed.
CacheExpires ==
  /\ cache.fresh
  /\ cache' = [cache EXCEPT !.fresh = FALSE]
  /\ NoFanoutFault
  /\ UNCHANGED <<pointers, feed, reader, streams, player>>

(***************************************************************************)
(* The player: a frame with another playback_id re-anchors it.             *)
(***************************************************************************)
Apply(c, v) ==
  /\ airing' = [airing EXCEPT ![c] = v]
  /\ audible' = [audible EXCEPT ![c] = IF v = NoPointer \/ v = airing[c] THEN @ ELSE TRUE]

(***************************************************************************)
(* get_now_playing_cached, run by both routes.  A reader at "redis" or     *)
(* "postgres" has sent its request; at "from_..." and "written" the answer *)
(* is there, and the coroutine has not been resumed.  Once it is resumed   *)
(* it does not yield again: GET /events registers the client's queue and   *)
(* sends the first frame, and GET /now-playing sends its answer.           *)
(***************************************************************************)
Resolve(x, v) ==
  \/ /\ x[2] = "events"
     /\ reader' = [reader EXCEPT ![x] = Idle]
     /\ connected' = [connected EXCEPT ![x[1]] = TRUE]
     /\ current' = [current EXCEPT ![x[1]] = v]
     /\ Apply(x[1], v)
     /\ UNCHANGED <<queue, pushed, missed>>
  \/ /\ x[2] = "now_playing"
     /\ ReaderGoto(x, "answered", v)
     /\ UNCHANGED <<streams, airing, audible>>

\* GET key: a hit, a miss, or an error that counts as a miss.
AskRedis(x) ==
  /\ ReaderAt(x, "redis")
  /\ \/ /\ redis # NoPointer
        /\ ReaderGoto(x, "from_redis", redis)
        /\ NoFanoutFault
     \/ redis = NoPointer /\ ReaderGoto(x, "postgres", NoPointer) /\ NoFanoutFault
     \/ redis # NoPointer /\ ReaderGoto(x, "postgres", NoPointer) /\ FanoutFault
  /\ UNCHANGED <<pointers, feed, cache, streams, player>>

FromRedis(x) ==
  /\ ReaderAt(x, "from_redis")
  /\ cache' = Cached(reader[x].version)
  /\ Resolve(x, reader[x].version)
  /\ NoFanoutFault
  /\ UNCHANGED <<pointers, feed>>

AskPostgres(x) ==
  /\ ReaderAt(x, "postgres")
  /\ ReaderGoto(x, "from_postgres", pg)
  /\ NoFanoutFault
  /\ UNCHANGED <<pointers, feed, cache, streams, player>>

FromPostgres(x) ==
  /\ ReaderAt(x, "from_postgres")
  /\ \/ /\ reader[x].version = NoPointer   \* idle
        /\ Resolve(x, NoPointer)
        /\ UNCHANGED cache
     \/ /\ reader[x].version # NoPointer
        /\ cache' = Cached(reader[x].version)
        /\ ReaderGoto(x, "write_back", reader[x].version)
        /\ UNCHANGED <<streams, player>>
  /\ NoFanoutFault
  /\ UNCHANGED <<pointers, feed>>

\* The write-back is unconditional and its failure is ignored.
WriteBack(x) ==
  /\ ReaderAt(x, "write_back")
  /\ \/ redis' = reader[x].version /\ NoFanoutFault
     \/ UNCHANGED redis /\ FanoutFault
  /\ ReaderGoto(x, "written", reader[x].version)
  /\ UNCHANGED <<pg, writing, published, feed, cache, streams, player>>

Written(x) ==
  /\ ReaderAt(x, "written")
  /\ Resolve(x, reader[x].version)
  /\ NoFanoutFault
  /\ UNCHANGED <<pointers, feed, cache>>

ReaderNext(x) == AskRedis(x) \/ FromRedis(x) \/ AskPostgres(x) \/ FromPostgres(x)
                   \/ WriteBack(x) \/ Written(x)

\* The player's song ends before it heard of another: it asks /now-playing.
Ended(c) ==
  /\ audible[c] /\ ReaderAt(<<c, "now_playing">>, "idle")
  /\ audible' = [audible EXCEPT ![c] = FALSE]
  /\ IF CacheHit THEN ReaderGoto(<<c, "now_playing">>, "answered", cache.version)
                 ELSE ReaderGoto(<<c, "now_playing">>, "redis", NoPointer)
  /\ NoFanoutFault
  /\ UNCHANGED <<pointers, feed, cache, streams, airing>>

Refetched(c) ==
  /\ ReaderAt(<<c, "now_playing">>, "answered")
  /\ Apply(c, reader[<<c, "now_playing">>].version)
  /\ reader' = [reader EXCEPT ![<<c, "now_playing">>] = Idle]
  /\ NoFanoutFault
  /\ UNCHANGED <<pointers, feed, cache, streams>>

(***************************************************************************)
(* GET /events.                                                            *)
(***************************************************************************)
Connect(c) ==
  /\ ~connected[c] /\ ReaderAt(<<c, "events">>, "idle")
  /\ IF CacheHit
     THEN Resolve(<<c, "events">>, cache.version)
     ELSE ReaderGoto(<<c, "events">>, "redis", NoPointer) /\ UNCHANGED <<streams, player>>
  /\ NoFanoutFault
  /\ UNCHANGED <<pointers, feed, cache>>

Stream(c) ==
  /\ connected[c] /\ queue[c] # <<>>
  /\ current' = [current EXCEPT ![c] = Head(queue[c])]
  /\ queue' = [queue EXCEPT ![c] = Tail(@)]
  /\ pushed' = [pushed EXCEPT ![c] = TRUE]
  /\ Apply(c, Head(queue[c]))
  /\ NoFanoutFault
  /\ UNCHANGED <<pointers, feed, cache, reader, connected, missed>>

\* Mutated: the heartbeat looks the pointer up in the local cache.
HeartbeatFromCache(c) ==
  /\ connected[c] /\ queue[c] = <<>> /\ cache.version # NoPointer
  /\ current' = [current EXCEPT ![c] = cache.version]
  /\ Apply(c, cache.version)
  /\ NoFanoutFault
  /\ UNCHANGED <<pointers, feed, cache, reader, connected, queue, pushed, missed>>

\* The pointer the stream holds is sent again, nothing is looked up.
Heartbeat(c) ==
  /\ connected[c] /\ queue[c] = <<>> /\ current[c] # NoPointer
  /\ Apply(c, current[c])
  /\ NoFanoutFault
  /\ UNCHANGED <<pointers, feed, cache, reader, streams>>

\* The connection breaks; EventSource connects again and the player plays on.
Disconnect(c) ==
  /\ connected[c]
  /\ connected' = [connected EXCEPT ![c] = FALSE]
  /\ queue' = [queue EXCEPT ![c] = <<>>]
  /\ current' = [current EXCEPT ![c] = NoPointer]
  /\ pushed' = [pushed EXCEPT ![c] = FALSE]
  /\ missed' = [missed EXCEPT ![c] = FALSE]
  /\ NoFanoutFault
  /\ UNCHANGED <<pointers, feed, cache, reader, player>>

FanoutNext ==
  \/ \E w \in Writers :
       Advance(w) \/ SetPointer(w) \/ PublishPointer(w) \/ FailToWrite(w)
  \/ LoseRedis \/ Relay \/ CacheExpires
  \/ \E x \in Readers : ReaderNext(x)
  \/ \E c \in Clients :
       \/ Connect(c) \/ Stream(c) \/ Heartbeat(c) \/ Disconnect(c)
       \/ Ended(c) \/ Refetched(c)

FanoutSpec == FanoutInit /\ [][FanoutNext]_fanoutVars

\* The event loop runs every task that can go on, the coordinators and the relay
\* are awake, the cache's clock ticks, and an idle stream has its heartbeat.
FanoutFairness ==
  /\ \A w \in Writers : WF_fanoutVars(SetPointer(w) \/ PublishPointer(w))
  /\ WF_fanoutVars(Relay) /\ WF_fanoutVars(CacheExpires)
  /\ \A x \in Readers : WF_fanoutVars(ReaderNext(x))
  /\ \A c \in Clients :
       /\ WF_fanoutVars(Connect(c)) /\ WF_fanoutVars(Stream(c))
       /\ WF_fanoutVars(Heartbeat(c))
       /\ WF_fanoutVars(Refetched(c))

FairFanoutSpec == FanoutSpec /\ FanoutFairness

(***************************************************************************)
(* Properties.                                                             *)
(***************************************************************************)
FanoutTypeOK ==
  /\ pg \in Pointers /\ redis \in Pointers
  /\ writing \in [Writers -> [step : {"idle", "set", "publish"}, version : Pointers]]
  /\ newest \in Pointers /\ late \subseteq Versions
  /\ feed \in Seq(Versions)
  /\ cache \in [version : Pointers, fresh : BOOLEAN]
  /\ reader \in [Readers -> [pc : {"idle", "redis", "from_redis", "postgres",
                                   "from_postgres", "write_back", "written", "answered"},
                             version : Pointers]]
  /\ connected \in [Clients -> BOOLEAN]
  /\ queue \in [Clients -> Seq(Versions)]
  /\ \A c \in Clients : Len(queue[c]) <= QueueSize
  /\ current \in [Clients -> Pointers] /\ pushed \in [Clients -> BOOLEAN]
  /\ airing \in [Clients -> Pointers] /\ audible \in [Clients -> BOOLEAN]
  /\ missed \in [Clients -> BOOLEAN]
  /\ fanoutFaults \in 0..FanoutFaults

\* Once a connection has had its first push, nothing takes its listener back to an
\* earlier song but a publication that was late itself: not the frames that are sent
\* again, nor anything the cache, Redis and the other readers hold.  (A late one
\* does: a leader that lost its lock publishes after its successor has.)
StreamMovesForward ==
  [][\A c \in Clients :
       pushed[c] /\ pushed'[c] /\ current'[c] < current[c] => current'[c] \in late]_fanoutVars

\* Every song change reaches the player of every client that was connected when the
\* pointer was committed, unless Redis lost it or the client's queue was full.
PushReachesListeners ==
  \A w \in Writers : \A c \in Clients : \A v \in Versions :
    (connected[c] /\ writing[w] = [step |-> "set", version |-> v])
      ~> (airing[c] >= v \/ missed[c] \/ ~connected[c])

\* However many stale answers were in flight, /now-playing is right in the end
\* once Redis is: the local entry expires and the next reader replaces it.
NowPlayingHeals ==
  (<>[](redis = pg)) =>
    <>[](\A x \in Readers : ReaderAt(x, "answered") => reader[x].version = pg)

\* What the comment on _QUEUE_MAXSIZE says: a client that missed a frame is healed
\* by the next heartbeat, or when it connects again.
HeartbeatHeals == \A c \in Clients : <>[](connected[c] => current[c] = pg)
=============================================================================

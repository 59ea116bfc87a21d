-------------------------- MODULE RadioCoordinator --------------------------
(***************************************************************************)
(* The radio (worker/radio_coordinator.py over radio/coordinator.py): the  *)
(* worker that holds the advisory lock moves the one `radio_state` row, at *)
(* each boundary or when a song_ready notification wakes it.  The lock is  *)
(* held by a connection that nobody looks at again, so a worker that has   *)
(* lost it goes on: every move is therefore a compare-and-swap on the      *)
(* row's version, in one transaction with the queue row it consumes.       *)
(*                                                                         *)
(* Time is abstract: `over` stands for  ends_at <= now.                    *)
(***************************************************************************)
EXTENDS Integers, Sequences, FiniteSets

CONSTANTS
  Coordinators,     \* one radio coordinator per worker process
  StaticSongs,      \* the curated library
  QueueRows,        \* how many playback_queue rows the run inserts
  HistoryLen,       \* setting radio_recent_history_size
  MaxVersion,       \* bound: after this many advances only user songs are started
  MaxFaults         \* bound: crashes, lost locks and Redis outages in a run

Rows == 1..QueueRows     \* playback_queue.id
NoRow == 0
Absent == -1             \* the version of a radio_state row that does not exist
NoSong == "none"
Nobody == "nobody"

ASSUME RadioAssumption ==
  /\ QueueRows \in Nat /\ HistoryLen \in Nat /\ MaxVersion \in Nat /\ MaxFaults \in Nat
  /\ IsFiniteSet(StaticSongs)
  /\ NoSong \notin StaticSongs /\ Nobody \notin Coordinators

VARIABLES
  pointer,      \* the radio_state row
  queued,       \* committed playback_queue rows
  played,       \* those whose played_at is set
  notified,     \* those whose song_ready notification has been sent
  late,         \* history: <<m, k>> when row m < k was committed with k taken already
  seeded,       \* the library has been inserted
  recent,       \* the Redis list of recently played static songs, newest first
  cache,        \* the version in the Redis pointer key
  redisUp,      \* Redis answers
  lockHolder,   \* whose session holds the advisory lock
  co,           \* co[c]: where coordinator c is, and what it read
  wake,         \* wake[c]: the asyncio event that song_ready sets
  faults

queueVars == <<queued, played, notified, late>>
envVars == <<seeded, redisUp, faults>>
radioVars == <<pointer, queueVars, envVars, recent, cache, lockHolder, co, wake>>

Pointer == [version : Nat \cup {Absent}, source : {"silent", "static", "generated"},
            song : StaticSongs \cup {NoSong}, over : BOOLEAN]

\* Where a coordinator awaits next.  `mode`: is it at a boundary, answering a
\* song_ready, or done with the tick until the boundary it has read.
CoordinatorPCs ==
  {"elect", "tick", "init", "pop", "pick", "cas_static", "cas_user", "record",
   "publish", "clear", "sleep", "wake"}
Coordinator == [pc : CoordinatorPCs, mode : {"boundary", "interrupt", "wait"},
                version : Nat \cup {Absent}, row : Rows \cup {NoRow},
                pick : StaticSongs \cup {NoSong}]

Electing == [pc |-> "elect", mode |-> "wait", version |-> Absent, row |-> NoRow,
             pick |-> NoSong]

RadioInit ==
  /\ pointer = [version |-> Absent, source |-> "silent", song |-> NoSong, over |-> FALSE]
  /\ queued = {} /\ played = {} /\ notified = {} /\ late = {}
  /\ seeded = FALSE /\ recent = <<>> /\ cache = Absent /\ redisUp = TRUE
  /\ lockHolder = Nobody
  /\ co = [c \in Coordinators |-> Electing]
  /\ wake = [c \in Coordinators |-> FALSE]
  /\ faults = 0

RadioTypeOK ==
  /\ pointer \in Pointer
  /\ queued \subseteq Rows /\ played \subseteq queued /\ notified \subseteq queued
  /\ late \subseteq Rows \X Rows
  /\ seeded \in BOOLEAN /\ redisUp \in BOOLEAN
  /\ recent \in Seq(StaticSongs)
  /\ cache \in Nat \cup {Absent}
  /\ lockHolder \in Coordinators \cup {Nobody}
  /\ co \in [Coordinators -> Coordinator]
  /\ wake \in [Coordinators -> BOOLEAN]
  /\ faults \in 0..MaxFaults

At(c, pc) == co[c].pc = pc
Go(c, pc) == co' = [co EXCEPT ![c].pc = pc]
Waiting == queued \ played
RowLocked(k) == \E c \in Coordinators : At(c, "cas_user") /\ co[c].row = k
Taken(k) == k \in played \/ RowLocked(k)

\* An exception in the leader's loop: the transaction rolls back, the lock and
\* the LISTEN connection are closed, and after a backoff it stands for election.
Raise(c) ==
  /\ co' = [co EXCEPT ![c] = Electing]
  /\ wake' = [wake EXCEPT ![c] = FALSE]
  /\ lockHolder' = IF lockHolder = c THEN Nobody ELSE lockHolder

Fault == faults < MaxFaults /\ faults' = faults + 1

-----------------------------------------------------------------------------
(* The static library *)

\* Mutated: the current song is replayed even when it is not a static one.
PickAnyCurrent(candidates, window, current) ==
  IF candidates \ window # {} THEN candidates \ window ELSE {current}

\* Mutated: no fallback.
PickNonRecent(candidates, window, current) == candidates \ window

\* pick_static: what it may return.  Which of several is random; candidates[0] is
\* the first row of an unordered SELECT.
PickStatic(candidates, window, current) ==
  IF candidates \ window # {} THEN candidates \ window
  ELSE IF current \in candidates THEN {current} ELSE candidates

\* RedisRecentHistoryStore.recent_ids: LRANGE 0 max_len - 1, or nothing to ask.
HistoryAnswers == redisUp \/ HistoryLen = 0
RecentIds == {recent[k] : k \in {i \in DOMAIN recent : i <= HistoryLen}}

\* Mutated: RPUSH, so that the trim cuts off what has just been played.
RecordedAtTail(s) == IF recent = <<>> THEN <<s>> ELSE recent

\* RedisRecentHistoryStore.record: LPUSH, then LTRIM to at least one element.
Recorded(s) ==
  LET longer == <<s>> \o recent
      kept == IF HistoryLen > 1 THEN HistoryLen ELSE 1
  IN SubSeq(longer, 1, IF Len(longer) < kept THEN Len(longer) ELSE kept)

-----------------------------------------------------------------------------
(* The leader's loop *)

\* pg_advisory_lock on the dedicated connection, then LISTEN.
Elect(c) ==
  /\ At(c, "elect")
  /\ lockHolder = Nobody
  /\ lockHolder' = c
  /\ Go(c, "tick")
  /\ UNCHANGED <<pointer, queueVars, envVars, recent, cache, wake>>

\* What a coordinator knows that has just read the row.
HasRead(pc, mode) ==
  [pc |-> pc, mode |-> mode, version |-> pointer.version, row |-> NoRow, pick |-> NoSong]

\* _tick reads the row: initialize, catch up with the boundary, or wait for it.
\* An empty library is waited for as well (backoff).
Tick(c) ==
  /\ At(c, "tick")
  /\ LET next == IF pointer.version = Absent
                 THEN IF seeded THEN "init" ELSE "clear"
                 ELSE IF pointer.over THEN "pop" ELSE "clear"
     IN co' = [co EXCEPT ![c] = HasRead(next, IF next = "pop" THEN "boundary" ELSE "wait")]
  /\ UNCHANGED <<pointer, queueVars, envVars, recent, cache, lockHolder, wake>>

\* initialize_if_absent, up to its commit.  A row that another leader has inserted is
\* found by its own read (nothing is created: backoff) or, later, is a duplicate key;
\* without Redis there is no recent history.  Both of these raise.
Initialize(c) ==
  /\ At(c, "init")
  /\ \/ /\ HistoryAnswers /\ pointer.version = Absent
        /\ \E s \in PickStatic(StaticSongs, RecentIds, NoSong) :
             /\ pointer' = [version |-> 0, source |-> "static", song |-> s, over |-> FALSE]
             /\ co' = [co EXCEPT ![c].pc = "record", ![c].pick = s]
        /\ UNCHANGED <<lockHolder, wake>>
     \/ /\ pointer.version # Absent
        /\ Go(c, "clear")
        /\ UNCHANGED <<pointer, lockHolder, wake>>
     \/ /\ ~HistoryAnswers \/ pointer.version # Absent
        /\ Raise(c)
        /\ UNCHANGED pointer
  /\ UNCHANGED <<queueVars, envVars, recent, cache>>

\* Mutated: no ORDER BY.
AnyWaiting(k) == k \in Waiting

Oldest(k) == k \in Waiting /\ \A m \in Waiting : k <= m

\* Mutated: a boundary always takes a filler.
PopWhenWoken(c) ==
  /\ At(c, "pop")
  /\ \/ \E k \in Rows :
          /\ co[c].mode = "interrupt"
          /\ Oldest(k) /\ ~RowLocked(k)
          /\ co' = [co EXCEPT ![c].pc = "cas_user", ![c].row = k]
     \/ co[c].mode = "boundary" /\ pointer.version < MaxVersion /\ Go(c, "pick")
     \/ Waiting = {} /\ co[c].mode = "interrupt" /\ Go(c, "tick")
  /\ UNCHANGED <<pointer, queueVars, envVars, recent, cache, lockHolder, wake>>

\* pop_next_user_song: the oldest row without played_at, FOR UPDATE (no SKIP
\* LOCKED: it waits for the row).  An empty queue means a filler at a boundary, and
\* nothing to interrupt with.
Pop(c) ==
  /\ At(c, "pop")
  /\ \/ \E k \in Rows :
          /\ Oldest(k) /\ ~RowLocked(k)
          /\ co' = [co EXCEPT ![c].pc = "cas_user", ![c].row = k]
     \/ /\ Waiting = {} /\ co[c].mode = "boundary"
        /\ pointer.version < MaxVersion
        /\ Go(c, "pick")
     \/ /\ Waiting = {} /\ co[c].mode = "interrupt"
        /\ Go(c, "tick")
  /\ UNCHANGED <<pointer, queueVars, envVars, recent, cache, lockHolder, wake>>

\* The static branch of advance.  Its `current` is the row as this tick read it,
\* which is the row as it is unless the swap is going to fail.
Pick(c) ==
  /\ At(c, "pick")
  /\ \/ /\ HistoryAnswers
        /\ \E s \in PickStatic(StaticSongs, RecentIds, pointer.song) :
             co' = [co EXCEPT ![c].pc = "cas_static", ![c].pick = s]
        /\ UNCHANGED <<lockHolder, wake>>
     \/ ~HistoryAnswers /\ Raise(c)
  /\ UNCHANGED <<pointer, queueVars, envVars, recent, cache>>

\* Mutated: the swap does not look at the version.
SwapBlind(c, source, song) ==
  pointer' = [version |-> pointer.version + 1, source |-> source, song |-> song, over |-> FALSE]

\* UPDATE radio_state ... WHERE version = :expected_version.
Swap(c, source, song) ==
  /\ pointer.version = co[c].version
  /\ pointer' = [version |-> pointer.version + 1, source |-> source, song |-> song,
                 over |-> FALSE]

\* The swap of advance, with its commit.  The loser backs off: `_tick` returns 0.
CasStatic(c) ==
  /\ At(c, "cas_static")
  /\ \/ Swap(c, "static", co[c].pick) /\ Go(c, "record")
     \/ /\ pointer.version # co[c].version
        /\ Go(c, "clear")
        /\ UNCHANGED pointer
  /\ UNCHANGED <<queueVars, envVars, recent, cache, lockHolder, wake>>

\* Back in the loop, applied or not: an advance ends its tick, an initialize goes on
\* with it, and an interrupt is followed by one.
Resume(c) == Go(c, IF co[c].mode = "boundary" THEN "clear" ELSE "tick")

\* _advance_to_user_song: played_at is set in the transaction of the swap, and the
\* row is left to the winner when the swap is lost.
CasUser(c) ==
  /\ At(c, "cas_user")
  /\ \/ /\ Swap(c, "generated", NoSong)
        /\ played' = played \cup {co[c].row}
        /\ Go(c, "publish")
     \/ /\ pointer.version # co[c].version
        /\ Resume(c)
        /\ UNCHANGED <<pointer, played>>
  /\ UNCHANGED <<queued, notified, late, envVars, recent, cache, lockHolder, wake>>

\* history.record, after the commit.  Nothing catches its error.
Record(c) ==
  /\ At(c, "record")
  /\ \/ /\ redisUp
        /\ recent' = Recorded(co[c].pick)
        /\ Go(c, "publish")
        /\ UNCHANGED <<lockHolder, wake>>
     \/ ~redisUp /\ Raise(c) /\ UNCHANGED recent
  /\ UNCHANGED <<pointer, queueVars, envVars, cache>>

\* _write_pointer_best_effort: the version this coordinator has made.
Publish(c) ==
  /\ At(c, "publish")
  /\ cache' = IF redisUp THEN co[c].version + 1 ELSE cache
  /\ Resume(c)
  /\ UNCHANGED <<pointer, queueVars, envVars, recent, lockHolder, wake>>

\* wake.clear(), also of a notification that came in during the tick.
Clear(c) ==
  /\ At(c, "clear")
  /\ wake' = [wake EXCEPT ![c] = FALSE]
  /\ Go(c, IF co[c].mode = "wait" THEN "sleep" ELSE "tick")
  /\ UNCHANGED <<pointer, queueVars, envVars, recent, cache, lockHolder>>

\* The boundary that this coordinator has read, or the backoff, has passed.
SleepEnds(c) ==
  /\ At(c, "sleep")
  /\ pointer.version = Absent \/ pointer.over \/ pointer.version # co[c].version
  /\ Go(c, "tick")
  /\ UNCHANGED <<pointer, queueVars, envVars, recent, cache, lockHolder, wake>>

Woken(c) ==
  /\ At(c, "sleep")
  /\ wake[c]
  /\ Go(c, "wake")
  /\ UNCHANGED <<pointer, queueVars, envVars, recent, cache, lockHolder, wake>>

\* should_interrupt
ShouldInterrupt(source) == source = "static"

\* attempt_interrupt, up to its pop: version and source come from one read.
ReadForInterrupt(c) ==
  /\ At(c, "wake")
  /\ co' = [co EXCEPT ![c] = IF ShouldInterrupt(pointer.source)
                              THEN HasRead("pop", "interrupt")
                              ELSE HasRead("tick", "wait")]
  /\ UNCHANGED <<pointer, queueVars, envVars, recent, cache, lockHolder, wake>>

CoordinatorStep(c) ==
  \/ Elect(c) \/ Tick(c) \/ Initialize(c) \/ Pop(c) \/ Pick(c) \/ CasStatic(c)
  \/ CasUser(c) \/ Record(c) \/ Publish(c) \/ Clear(c) \/ SleepEnds(c) \/ Woken(c)
  \/ ReadForInterrupt(c)

-----------------------------------------------------------------------------
(* What happens around it *)

\* Ingest commits a playback_queue row.  Ids are drawn at the insert, so that the
\* commits come in any order.
Enqueue(k) ==
  /\ k \in Rows \ queued
  /\ queued' = queued \cup {k}
  /\ late' = late \cup {<<k, m>> : m \in {n \in Rows : n > k /\ Taken(n)}}
  /\ UNCHANGED <<pointer, played, notified, envVars, recent, cache, lockHolder, co, wake>>

\* ... and notifies, best effort, whoever listens then.
SongReady(k) ==
  /\ k \in queued \ notified
  /\ notified' = notified \cup {k}
  /\ wake' = [c \in Coordinators |-> wake[c] \/ ~At(c, "elect")]
  /\ UNCHANGED <<pointer, queued, played, late, envVars, recent, cache, lockHolder, co>>

SeedLibrary ==
  /\ ~seeded
  /\ seeded' = TRUE
  /\ UNCHANGED <<pointer, queueVars, redisUp, faults, recent, cache, lockHolder, co, wake>>

\* The clock reaches ends_at.
SongEnds ==
  /\ pointer.version # Absent /\ ~pointer.over
  /\ pointer' = [pointer EXCEPT !.over = TRUE]
  /\ UNCHANGED <<queueVars, envVars, recent, cache, lockHolder, co, wake>>

\* Postgres gives up the lock's session; its holder does not notice.
LoseLock ==
  /\ lockHolder # Nobody
  /\ lockHolder' = Nobody
  /\ Fault
  /\ UNCHANGED <<pointer, queueVars, seeded, redisUp, recent, cache, co, wake>>

Crash(c) ==
  /\ ~At(c, "elect")
  /\ Fault
  /\ Raise(c)
  /\ UNCHANGED <<pointer, queueVars, seeded, redisUp, recent, cache>>

RedisFails ==
  /\ redisUp
  /\ Fault
  /\ redisUp' = FALSE
  /\ UNCHANGED <<pointer, queueVars, seeded, recent, cache, lockHolder, co, wake>>

RedisRecovers ==
  /\ ~redisUp
  /\ redisUp' = TRUE
  /\ UNCHANGED <<pointer, queueVars, seeded, faults, recent, cache, lockHolder, co, wake>>

RadioNext ==
  \/ SeedLibrary \/ SongEnds \/ LoseLock \/ RedisFails \/ RedisRecovers
  \/ \E k \in Rows : Enqueue(k) \/ SongReady(k)
  \/ \E c \in Coordinators : CoordinatorStep(c) \/ Crash(c)

RadioSpec == RadioInit /\ [][RadioNext]_radioVars

(***************************************************************************)
(* Fairness: the loops go on (an exception is backed off from), time       *)
(* passes, and boot seeds the library.  Notifications, songs and faults    *)
(* owe us nothing, and Redis need not come back unless the run says so.    *)
(***************************************************************************)
RadioFairness ==
  /\ WF_radioVars(SeedLibrary) /\ WF_radioVars(SongEnds)
  /\ \A c \in Coordinators : WF_radioVars(CoordinatorStep(c))

FairRadioSpec == RadioSpec /\ RadioFairness /\ WF_radioVars(RedisRecovers)
OutageRadioSpec == RadioSpec /\ RadioFairness

-----------------------------------------------------------------------------
(* Properties *)

StationView == INSTANCE Station WITH
  Songs <- Rows, air <- pointer.source, ended <- pointer.over,
  line <- queued \ played, aired <- played

\* Two leaders, interrupts that race boundaries, and crashes anywhere add nothing
\* that a listener could hear: no song of the queue airs twice or is taken off the
\* queue unheard, no user's song is cut, and no filler is cut by another filler.
ImplementsStation == StationView!StationSpec

\* First come, first aired: whatever ingest loops, leaders and lost swaps there are,
\* a song is only ever overtaken by one that was on the air, or in a leader's hands,
\* before its own row was committed.
AiredInOrder ==
  \A k \in played, m \in queued : m < k => m \in played \/ <<m, k>> \in late

\* The history does its work: without faults, two fillers on end are never the same
\* song, although a song's start is only recorded after its commit.  (A window as
\* large as the library leaves pick_static nothing but the current song.)
NoFillerTwice ==
  [][(faults = 0 /\ pointer'.version # pointer.version /\ pointer.source = "static"
       /\ pointer'.source = "static" /\ HistoryLen \in 1..(Cardinality(StaticSongs) - 1))
     => pointer'.song # pointer.song]_radioVars

\* Every queued song gets its turn, its notification lost or not.
EverySongAirs == \A k \in Rows : k \in queued ~> k \in played

\* The station never goes silent: whatever has played to its end is followed.
NeverSilent == (pointer.over /\ pointer.version < MaxVersion) ~> ~pointer.over
=============================================================================

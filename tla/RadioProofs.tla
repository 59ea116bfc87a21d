---------------------------- MODULE RadioProofs -----------------------------
(***************************************************************************)
(* The radio for any number of coordinators, rows, fillers and faults.     *)
(*                                                                         *)
(* The invariant says what a coordinator still knows when it writes.  What *)
(* it has read may be stale, and then the versions differ and its swap is  *)
(* lost; if the versions agree, the reason it had for moving the pointer   *)
(* still holds, because every move makes a new version.                    *)
(***************************************************************************)
EXTENDS RadioCoordinator, SequenceTheorems, FiniteSetTheorems, TLAPS

\* Between the read of the row and the swap.
Deciding == {"pop", "pick", "cas_static", "cas_user"}

\* What is known of coordinator state r when the row is p and the rows of w wait.
Knows(r, p, w) ==
  /\ r.pc \in {"cas_static", "record"} => r.pick \in StaticSongs
  /\ r.pc = "cas_user" => r.row \in w
  /\ r.version <= p.version
  /\ r.pc \in Deciding => r.version # Absent /\ r.mode # "wait"
  /\ r.pc \in {"pick", "cas_static"} => r.mode = "boundary"
  /\ r.pc \in Deciding /\ r.version = p.version /\ r.mode = "boundary" => p.over
  /\ r.pc \in Deciding /\ r.version = p.version /\ r.mode = "interrupt" => p.source = "static"

\* FOR UPDATE: no two coordinators hold one row.
OneHolderPerRow ==
  \A c, d \in Coordinators :
    At(c, "cas_user") /\ At(d, "cas_user") /\ co[c].row = co[d].row => c = d

AbsentIsSilent == pointer.version = Absent <=> pointer.source = "silent"

RadioInv ==
  /\ RadioTypeOK
  /\ \A c \in Coordinators : Knows(co[c], pointer, Waiting)
  /\ OneHolderPerRow
  /\ AbsentIsSilent

\* From p to q the row keeps its version, or gets a new one.
Moves(p, q) ==
  \/ q.version = p.version /\ q.source = p.source /\ (p.over => q.over)
  \/ q.version > p.version

\* What one coordinator knows survives the moves of another.
LEMMA KnowledgeKept ==
  ASSUME NEW r \in Coordinator, NEW p \in Pointer, NEW q \in Pointer, NEW w, NEW v,
         Knows(r, p, w), Moves(p, q), r.pc = "cas_user" => r.row \in v
  PROVE  Knows(r, q, v)
<1>0. r.version \in Int /\ p.version \in Int /\ q.version \in Int
  BY DEF Coordinator, Pointer, Absent
<1>1. CASE q.version > p.version
  BY <1>0, <1>1 DEF Knows
<1>2. CASE q.version = p.version /\ q.source = p.source /\ (p.over => q.over)
  BY <1>0, <1>2 DEF Knows
<1> QED
  BY <1>1, <1>2 DEF Moves

-----------------------------------------------------------------------------
(* The pieces of a step *)

LEMMA ElectingKnows ==
  ASSUME NEW p \in Pointer, NEW w
  PROVE  Electing \in Coordinator /\ Knows(Electing, p, w)
<1>1. Electing \in Coordinator
  BY DEF Electing, Coordinator, CoordinatorPCs
<1>2. Absent <= p.version
  BY DEF Pointer, Absent
<1> QED
  BY <1>1, <1>2 DEF Knows, Deciding, Electing

\* A step to a location where nothing is decided yet.
LEMMA GoKnows ==
  ASSUME NEW r \in Coordinator, NEW p \in Pointer, NEW w, NEW l \in CoordinatorPCs,
         l \notin Deciding \cup {"record"}, r.version <= p.version
  PROVE  /\ [r EXCEPT !.pc = l] \in Coordinator
         /\ [r EXCEPT !.pc = l].pc = l
         /\ Knows([r EXCEPT !.pc = l], p, w)
BY DEF Coordinator, Knows, Deciding

LEMMA RecordedType ==
  ASSUME recent \in Seq(StaticSongs), HistoryLen \in Nat, NEW s \in StaticSongs
  PROVE  Recorded(s) \in Seq(StaticSongs)
<1> DEFINE longer == <<s>> \o recent
           kept == IF HistoryLen > 1 THEN HistoryLen ELSE 1
           n == IF Len(longer) < kept THEN Len(longer) ELSE kept
<1>1. <<s>> \in Seq(StaticSongs)
  OBVIOUS
<1>2. longer \in Seq(StaticSongs)
  BY <1>1, ConcatProperties
<1>3. n \in Int /\ n <= Len(longer)
  BY <1>2
<1> HIDE DEF longer
<1>4. \A i \in 1..n : longer[i] \in StaticSongs
  BY <1>2, <1>3
<1> HIDE DEF n
<1>5. SubSeq(longer, 1, n) \in Seq(StaticSongs)
  BY <1>3, <1>4, SubSeqProperties
<1> QED
  BY <1>5 DEF Recorded, longer, n

\* The three steps that write the row, and the clock.
LEMMA PointerSteps ==
  ASSUME RadioInv, [RadioNext]_radioVars
  PROVE  \/ pointer' = pointer /\ played' = played
         \/ SongEnds
         \/ \E c \in Coordinators :
              \/ Initialize(c) /\ pointer.version = Absent /\ played' = played
              \/ CasStatic(c) /\ pointer.version = co[c].version /\ played' = played
              \/ CasUser(c) /\ pointer.version = co[c].version
<1>1. CASE UNCHANGED radioVars
  BY <1>1 DEF radioVars, queueVars
<1>2. CASE SeedLibrary \/ LoseLock \/ RedisFails \/ RedisRecovers \/ SongEnds
  BY <1>2 DEF SeedLibrary, LoseLock, RedisFails, RedisRecovers, queueVars
<1>3. ASSUME NEW k \in Rows, Enqueue(k) \/ SongReady(k)
      PROVE  pointer' = pointer /\ played' = played
  BY <1>3 DEF Enqueue, SongReady
<1>4. ASSUME NEW c \in Coordinators, CoordinatorStep(c) \/ Crash(c)
      PROVE  \/ pointer' = pointer /\ played' = played
             \/ Initialize(c) /\ pointer.version = Absent /\ played' = played
             \/ CasStatic(c) /\ pointer.version = co[c].version /\ played' = played
             \/ CasUser(c) /\ pointer.version = co[c].version
  <2>1. CASE Elect(c) \/ Tick(c) \/ Pop(c) \/ Pick(c) \/ Record(c) \/ Publish(c) \/ Crash(c)
    BY <2>1 DEF Elect, Tick, Pop, Pick, Record, Publish, Crash, queueVars
  <2>2. CASE Clear(c) \/ SleepEnds(c) \/ Woken(c) \/ ReadForInterrupt(c)
    BY <2>2 DEF Clear, SleepEnds, Woken, ReadForInterrupt, queueVars
  <2>3. CASE Initialize(c)
    BY <2>3 DEF Initialize, queueVars
  <2>4. CASE CasStatic(c)
    BY <2>4 DEF CasStatic, Swap, queueVars
  <2>5. CASE CasUser(c)
    BY <2>5 DEF CasUser, Swap
  <2> QED
    BY <1>4, <2>1, <2>2, <2>3, <2>4, <2>5 DEF CoordinatorStep
<1> QED
  BY <1>1, <1>2, <1>3, <1>4 DEF RadioNext

\* Each of them leads from a row to a row.
LEMMA PointerKept ==
  ASSUME RadioInv, [RadioNext]_radioVars
  PROVE  pointer' \in Pointer /\ Moves(pointer, pointer') /\ AbsentIsSilent'
<1>0. pointer \in Pointer /\ AbsentIsSilent /\ NoSong \notin StaticSongs
  BY RadioAssumption DEF RadioInv, RadioTypeOK
<1>1. CASE pointer' = pointer
  BY <1>0, <1>1 DEF Moves, AbsentIsSilent
<1>2. CASE SongEnds
  <2>1. /\ pointer' = [pointer EXCEPT !.over = TRUE]
        /\ pointer.version # Absent
    BY <1>2 DEF SongEnds
  <2>2. pointer' \in Pointer /\ pointer'.over
    BY <1>0, <2>1 DEF Pointer
  <2>3. pointer'.version = pointer.version /\ pointer'.source = pointer.source
    BY <1>0, <2>1 DEF Pointer
  <2> QED
    BY <1>0, <2>2, <2>3 DEF Moves, AbsentIsSilent
<1>3. ASSUME NEW n \in Nat, NEW x \in {"static", "generated"},
             NEW s \in StaticSongs \cup {NoSong}, pointer.version < n,
             pointer' = [version |-> n, source |-> x, song |-> s, over |-> FALSE]
      PROVE  pointer' \in Pointer /\ Moves(pointer, pointer') /\ AbsentIsSilent'
  BY <1>3 DEF Pointer, Moves, AbsentIsSilent, Absent
<1>4. ASSUME NEW c \in Coordinators, Initialize(c), pointer.version = Absent
      PROVE  pointer' \in Pointer /\ Moves(pointer, pointer') /\ AbsentIsSilent'
  <2>1. CASE pointer' = pointer
    BY <1>1, <2>1
  <2>2. CASE pointer' # pointer
    <3>1. PICK s \in PickStatic(StaticSongs, RecentIds, NoSong) :
            pointer' = [version |-> 0, source |-> "static", song |-> s, over |-> FALSE]
      BY <1>4, <2>2 DEF Initialize
    <3>2. s \in StaticSongs
      BY <1>0, <3>1 DEF PickStatic
    <3>3. pointer.version < 0
      BY <1>4 DEF Absent
    <3> QED
      BY <1>3, <3>1, <3>2, <3>3
  <2> QED
    BY <2>1, <2>2
<1>5. ASSUME NEW c \in Coordinators, pointer.version = co[c].version,
             CasStatic(c) \/ CasUser(c)
      PROVE  pointer' \in Pointer /\ Moves(pointer, pointer') /\ AbsentIsSilent'
  <2>1. Knows(co[c], pointer, Waiting) /\ co[c] \in Coordinator
    BY DEF RadioInv, RadioTypeOK
  <2>2. co[c].version # Absent
    BY <1>5, <2>1 DEF CasStatic, CasUser, At, Knows, Deciding
  <2>3. pointer.version \in Nat
    BY <1>0, <1>5, <2>2 DEF Pointer
  <2>4. pointer.version + 1 \in Nat /\ pointer.version < pointer.version + 1
    BY <2>3
  <2>5. \/ Swap(c, "static", co[c].pick)
        \/ Swap(c, "generated", NoSong)
    BY <1>5 DEF CasStatic, CasUser
  <2>6. co[c].pick \in StaticSongs \cup {NoSong}
    BY <2>1 DEF Coordinator
  <2> QED
    BY <1>3, <2>4, <2>5, <2>6 DEF Swap
<1> QED
  BY <1>1, <1>2, <1>4, <1>5, PointerSteps

-----------------------------------------------------------------------------
(* The coordinator that takes the step *)

\* r is what coordinator c may be in after a step.
Reached(c, r) ==
  /\ r \in Coordinator
  /\ co' = [co EXCEPT ![c] = r]
  /\ Knows(r, pointer', Waiting')
  /\ r.pc = "cas_user" => ~RowLocked(r.row)

\* Where the row and the queue are left alone, or a move has been made.
LEMMA GoReaches ==
  ASSUME RadioInv, [RadioNext]_radioVars, NEW c \in Coordinators,
         NEW l \in CoordinatorPCs, l \notin Deciding \cup {"record"}, Go(c, l)
  PROVE  \E r : Reached(c, r)
<1>0. /\ co \in [Coordinators -> Coordinator] /\ co[c] \in Coordinator
      /\ pointer \in Pointer /\ Knows(co[c], pointer, Waiting)
  BY DEF RadioInv, RadioTypeOK
<1>1. pointer' \in Pointer /\ Moves(pointer, pointer')
  BY PointerKept
<1>2. co[c].version <= pointer'.version
  BY <1>0, <1>1 DEF Knows, Moves, Coordinator, Pointer, Absent
<1> DEFINE r == [co[c] EXCEPT !.pc = l]
<1>3. r \in Coordinator /\ r.pc = l /\ Knows(r, pointer', Waiting')
  BY <1>0, <1>1, <1>2, GoKnows
<1>4. co' = [co EXCEPT ![c] = r]
  BY <1>0 DEF Go
<1> HIDE DEF r
<1> QED
  BY <1>3, <1>4 DEF Reached, Deciding

LEMMA RaiseReaches ==
  ASSUME RadioInv, [RadioNext]_radioVars, NEW c \in Coordinators, Raise(c)
  PROVE  \E r : Reached(c, r)
<1>1. Electing \in Coordinator /\ Knows(Electing, pointer', Waiting')
  BY PointerKept, ElectingKnows
<1>2. Electing.pc = "elect"
  BY DEF Electing
<1> QED
  BY <1>1, <1>2 DEF Reached, Raise

\* What a tick or a wake-up writes: a record with the row's version.
LEMMA ReadReaches ==
  ASSUME RadioInv, [RadioNext]_radioVars, NEW c \in Coordinators, pointer' = pointer,
         NEW l \in {"init", "pop", "clear", "tick"}, NEW m \in {"boundary", "interrupt", "wait"},
         co' = [co EXCEPT ![c] = HasRead(l, m)],
         l = "pop" => \/ m = "boundary" /\ pointer.over /\ pointer.version # Absent
                      \/ m = "interrupt" /\ pointer.source = "static"
  PROVE  \E r : Reached(c, r)
<1>0. pointer \in Pointer /\ AbsentIsSilent
  BY DEF RadioInv, RadioTypeOK
<1> DEFINE r == HasRead(l, m)
<1>1. co' = [co EXCEPT ![c] = r]
  OBVIOUS
<1>2. r \in Coordinator
  BY <1>0 DEF HasRead, Coordinator, CoordinatorPCs, Pointer
<1>3. pointer.version <= pointer.version
  BY <1>0 DEF Pointer, Absent
<1>4. l = "pop" => pointer.version # Absent /\ m # "wait"
  BY <1>0 DEF AbsentIsSilent
<1>5. l = "pop" /\ m = "boundary" => pointer.over
  OBVIOUS
<1>6. l = "pop" /\ m = "interrupt" => pointer.source = "static"
  OBVIOUS
<1>7. /\ r.pc = l /\ r.mode = m /\ r.version = pointer.version
  BY DEF HasRead
<1> HIDE DEF r
<1>8. Knows(r, pointer, Waiting')
  BY <1>3, <1>4, <1>5, <1>6, <1>7 DEF Knows, Deciding
<1> QED
  BY <1>1, <1>2, <1>7, <1>8 DEF Reached

\* A coordinator that has what it will write: a row, or a filler.
LEMMA ChoiceReaches ==
  ASSUME RadioInv, [RadioNext]_radioVars, NEW c \in Coordinators, NEW r \in Coordinator,
         co' = [co EXCEPT ![c] = r],
         r.pc \in {"cas_user", "cas_static", "record"},
         r.version = co[c].version, r.mode = co[c].mode,
         r.pc # "record" => pointer' = pointer /\ co[c].pc \in Deciding,
         r.pc = "cas_static" => co[c].mode = "boundary",
         r.pc \in {"cas_static", "record"} => r.pick \in StaticSongs,
         r.pc = "cas_user" => r.row \in Waiting' /\ ~RowLocked(r.row)
  PROVE  \E x : Reached(c, x)
<1>0. /\ co[c] \in Coordinator /\ pointer \in Pointer /\ Knows(co[c], pointer, Waiting)
  BY DEF RadioInv, RadioTypeOK
<1>1. pointer' \in Pointer /\ Moves(pointer, pointer')
  BY PointerKept
<1>2. r.version <= pointer'.version
  BY <1>0, <1>1 DEF Knows, Moves, Coordinator, Pointer, Absent
<1>3. CASE r.pc = "record"
  BY <1>2, <1>3 DEF Reached, Knows, Deciding
<1>4. CASE r.pc = "cas_user"
  BY <1>0, <1>2, <1>4 DEF Reached, Knows, Deciding
<1>5. CASE r.pc = "cas_static"
  BY <1>0, <1>2, <1>5 DEF Reached, Knows, Deciding
<1> QED
  BY <1>3, <1>4, <1>5

LEMMA StepReaches ==
  ASSUME RadioInv, [RadioNext]_radioVars, NEW c \in Coordinators,
         CoordinatorStep(c) \/ Crash(c)
  PROVE  \E r : Reached(c, r)
<1>0. /\ co \in [Coordinators -> Coordinator] /\ co[c] \in Coordinator
      /\ Knows(co[c], pointer, Waiting) /\ NoSong \notin StaticSongs
  BY RadioAssumption DEF RadioInv, RadioTypeOK
<1>1. CASE Elect(c) \/ Publish(c) \/ Clear(c) \/ SleepEnds(c) \/ Woken(c)
  <2>1. PICK l \in {"tick", "clear", "sleep", "wake"} : Go(c, l)
    BY <1>1 DEF Elect, Publish, Resume, Clear, SleepEnds, Woken
  <2> QED
    BY <2>1, GoReaches DEF Deciding, CoordinatorPCs
<1>2. CASE Tick(c)
  <2> DEFINE l == IF pointer.version = Absent
                  THEN IF seeded THEN "init" ELSE "clear"
                  ELSE IF pointer.over THEN "pop" ELSE "clear"
             m == IF l = "pop" THEN "boundary" ELSE "wait"
  <2>1. co' = [co EXCEPT ![c] = HasRead(l, m)]
    BY <1>2 DEF Tick
  <2>2. pointer' = pointer
    BY <1>2 DEF Tick
  <2>3. l \in {"init", "pop", "clear", "tick"}
    OBVIOUS
  <2>4. l = "pop" => m = "boundary" /\ pointer.over /\ pointer.version # Absent
    OBVIOUS
  <2>5. m \in {"boundary", "interrupt", "wait"}
    OBVIOUS
  <2> HIDE DEF l, m
  <2> QED
    BY <2>1, <2>2, <2>3, <2>4, <2>5, ReadReaches
<1>3. CASE ReadForInterrupt(c)
  <2> DEFINE l == IF ShouldInterrupt(pointer.source) THEN "pop" ELSE "tick"
             m == IF ShouldInterrupt(pointer.source) THEN "interrupt" ELSE "wait"
  <2>1. co' = [co EXCEPT ![c] = HasRead(l, m)]
    BY <1>3 DEF ReadForInterrupt
  <2>2. pointer' = pointer
    BY <1>3 DEF ReadForInterrupt
  <2>3. l = "pop" => m = "interrupt" /\ pointer.source = "static"
    BY DEF ShouldInterrupt
  <2>4. l \in {"init", "pop", "clear", "tick"} /\ m \in {"boundary", "interrupt", "wait"}
    OBVIOUS
  <2> HIDE DEF l, m
  <2> QED
    BY <2>1, <2>2, <2>3, <2>4, ReadReaches
<1>4. CASE Initialize(c)
  <2>1. CASE Raise(c)
    BY <2>1, RaiseReaches
  <2>2. CASE Go(c, "clear")
    BY <2>2, GoReaches DEF Deciding, CoordinatorPCs
  <2>3. CASE ~Raise(c) /\ ~Go(c, "clear")
    <3>1. PICK s \in StaticSongs :
            co' = [co EXCEPT ![c].pc = "record", ![c].pick = s]
      BY <1>0, <1>4, <2>3 DEF Initialize, PickStatic
    <3> DEFINE r == [co[c] EXCEPT !.pc = "record", !.pick = s]
    <3>2. co' = [co EXCEPT ![c] = r]
      BY <1>0, <3>1
    <3>3. r \in Coordinator
      BY <1>0 DEF Coordinator, CoordinatorPCs
    <3>4. r.pc = "record" /\ r.pick = s /\ r.version = co[c].version /\ r.mode = co[c].mode
      BY <1>0 DEF Coordinator
    <3> HIDE DEF r
    <3> QED
      BY <3>2, <3>3, <3>4, ChoiceReaches
  <2> QED
    BY <2>1, <2>2, <2>3
<1>5. CASE Pop(c)
  <2>0. pointer' = pointer /\ Waiting' = Waiting
    BY <1>5 DEF Pop, queueVars, Waiting
  <2>1. ASSUME NEW k \in Rows, Oldest(k), ~RowLocked(k),
               co' = [co EXCEPT ![c].pc = "cas_user", ![c].row = k]
        PROVE  \E r : Reached(c, r)
    <3> DEFINE r == [co[c] EXCEPT !.pc = "cas_user", !.row = k]
    <3>1. co' = [co EXCEPT ![c] = r]
      BY <1>0, <2>1
    <3>2. r \in Coordinator
      BY <1>0 DEF Coordinator, CoordinatorPCs
    <3>3. r.pc = "cas_user" /\ r.row = k /\ r.version = co[c].version /\ r.mode = co[c].mode
      BY <1>0 DEF Coordinator
    <3>4. co[c].pc \in Deciding /\ k \in Waiting'
      BY <1>5, <2>0, <2>1 DEF Pop, At, Deciding, Oldest
    <3> HIDE DEF r
    <3> QED
      BY <2>0, <2>1, <3>1, <3>2, <3>3, <3>4, ChoiceReaches
  <2>2. CASE co[c].mode = "boundary" /\ Go(c, "pick")
    <3> DEFINE r == [co[c] EXCEPT !.pc = "pick"]
    <3>1. co' = [co EXCEPT ![c] = r]
      BY <1>0, <2>2 DEF Go
    <3>2. r \in Coordinator
      BY <1>0 DEF Coordinator, CoordinatorPCs
    <3>3. r.pc = "pick" /\ r.version = co[c].version /\ r.mode = co[c].mode
      BY <1>0 DEF Coordinator
    <3>4. co[c].pc \in Deciding
      BY <1>5 DEF Pop, At, Deciding
    <3> HIDE DEF r
    <3>5. Knows(r, pointer, Waiting)
      BY <1>0, <2>2, <3>3, <3>4 DEF Knows, Deciding
    <3> QED
      BY <2>0, <3>1, <3>2, <3>3, <3>5 DEF Reached
  <2>3. CASE Go(c, "tick")
    BY <2>3, GoReaches DEF Deciding, CoordinatorPCs
  <2> QED
    BY <1>5, <2>1, <2>2, <2>3 DEF Pop
<1>6. CASE Pick(c)
  <2>1. CASE Raise(c)
    BY <2>1, RaiseReaches
  <2>2. CASE ~Raise(c)
    <3>1. PICK s \in StaticSongs :
            co' = [co EXCEPT ![c].pc = "cas_static", ![c].pick = s]
      BY <1>0, <1>6, <2>2 DEF Pick, PickStatic
    <3> DEFINE r == [co[c] EXCEPT !.pc = "cas_static", !.pick = s]
    <3>2. co' = [co EXCEPT ![c] = r]
      BY <1>0, <3>1
    <3>3. r \in Coordinator
      BY <1>0 DEF Coordinator, CoordinatorPCs
    <3>4. r.pc = "cas_static" /\ r.pick = s /\ r.version = co[c].version /\ r.mode = co[c].mode
      BY <1>0 DEF Coordinator
    <3>5. co[c].pc \in Deciding /\ co[c].mode = "boundary" /\ pointer' = pointer
      BY <1>0, <1>6 DEF Pick, At, Knows, Deciding
    <3> HIDE DEF r
    <3> QED
      BY <3>2, <3>3, <3>4, <3>5, ChoiceReaches
  <2> QED
    BY <2>1, <2>2
<1>7. CASE CasStatic(c)
  <2>1. CASE Go(c, "record")
    <3> DEFINE r == [co[c] EXCEPT !.pc = "record"]
    <3>1. co' = [co EXCEPT ![c] = r]
      BY <1>0, <2>1 DEF Go
    <3>2. r \in Coordinator
      BY <1>0 DEF Coordinator, CoordinatorPCs
    <3>3. /\ r.pc = "record" /\ r.pick = co[c].pick /\ r.version = co[c].version
          /\ r.mode = co[c].mode
      BY <1>0 DEF Coordinator
    <3>4. co[c].pick \in StaticSongs
      BY <1>0, <1>7 DEF CasStatic, At, Knows
    <3> HIDE DEF r
    <3> QED
      BY <3>1, <3>2, <3>3, <3>4, ChoiceReaches
  <2>2. CASE Go(c, "clear")
    BY <2>2, GoReaches DEF Deciding, CoordinatorPCs
  <2> QED
    BY <1>7, <2>1, <2>2 DEF CasStatic
<1>8. CASE CasUser(c)
  <2>1. PICK l \in {"publish", "clear", "tick"} : Go(c, l)
    BY <1>8 DEF CasUser, Resume
  <2> QED
    BY <2>1, GoReaches DEF Deciding, CoordinatorPCs
<1>9. CASE Record(c) \/ Crash(c)
  <2>1. CASE Raise(c)
    BY <2>1, RaiseReaches
  <2>2. CASE Go(c, "publish")
    BY <2>2, GoReaches DEF Deciding, CoordinatorPCs
  <2> QED
    BY <1>9, <2>1, <2>2 DEF Record, Crash
<1> QED
  BY <1>1, <1>2, <1>3, <1>4, <1>5, <1>6, <1>7, <1>8, <1>9 DEF CoordinatorStep

\* Nobody else's record is written.
LEMMA OthersKept ==
  ASSUME RadioInv, [RadioNext]_radioVars
  PROVE  \/ co' = co
         \/ \E c \in Coordinators, r \in Coordinator : Reached(c, r)
<1>1. CASE UNCHANGED radioVars
  BY <1>1 DEF radioVars
<1>2. CASE SeedLibrary \/ LoseLock \/ RedisFails \/ RedisRecovers \/ SongEnds
  BY <1>2 DEF SeedLibrary, LoseLock, RedisFails, RedisRecovers, SongEnds
<1>3. ASSUME NEW k \in Rows, Enqueue(k) \/ SongReady(k) PROVE co' = co
  BY <1>3 DEF Enqueue, SongReady
<1>4. ASSUME NEW c \in Coordinators, CoordinatorStep(c) \/ Crash(c)
      PROVE  \E r \in Coordinator : Reached(c, r)
  BY <1>4, StepReaches DEF Reached
<1> QED
  BY <1>1, <1>2, <1>3, <1>4 DEF RadioNext

LEMMA OnlyEnqueueGrows ==
  ASSUME [RadioNext]_radioVars
  PROVE  UNCHANGED <<queued, late>> \/ \E k \in Rows : Enqueue(k)
<1>1. CASE UNCHANGED radioVars
  BY <1>1 DEF radioVars, queueVars
<1>2. CASE SeedLibrary \/ LoseLock \/ RedisFails \/ RedisRecovers \/ SongEnds
  BY <1>2 DEF SeedLibrary, LoseLock, RedisFails, RedisRecovers, SongEnds, queueVars
<1>3. ASSUME NEW k \in Rows, SongReady(k) PROVE UNCHANGED <<queued, late>>
  BY <1>3 DEF SongReady
<1>4. ASSUME NEW c \in Coordinators, CoordinatorStep(c) \/ Crash(c) PROVE UNCHANGED <<queued, late>>
  BY <1>4 DEF CoordinatorStep, Crash, Elect, Tick, Initialize, Pop, Pick, CasStatic,
     CasUser, Record, Publish, Clear, SleepEnds, Woken, ReadForInterrupt, queueVars
<1> QED
  BY <1>1, <1>2, <1>3, <1>4 DEF RadioNext

\* Only pop takes a coordinator to the swap of a user's song.
LEMMA UserSwapComesFromPop ==
  ASSUME RadioInv, [RadioNext]_radioVars, NEW d \in Coordinators, co'[d].pc = "cas_user"
  PROVE  \/ At(d, "cas_user") /\ co'[d] = co[d]
         \/ \E k \in Rows : Oldest(k) /\ co' = [co EXCEPT ![d].pc = "cas_user", ![d].row = k]
<1>0. co \in [Coordinators -> Coordinator]
  BY DEF RadioInv, RadioTypeOK
<1>1. CASE co'[d] = co[d]
  BY <1>1 DEF At
<1>2. ASSUME NEW c \in Coordinators, CoordinatorStep(c) \/ Crash(c), co'[d] # co[d]
      PROVE  \E k \in Rows : Oldest(k) /\ co' = [co EXCEPT ![d].pc = "cas_user", ![d].row = k]
  <2>1. c = d
    <3>1. PICK r : Reached(c, r)
      BY <1>2, StepReaches
    <3> QED
      BY <1>0, <1>2, <3>1 DEF Reached
  <2>2. ASSUME NEW l, Go(c, l) PROVE l = "cas_user"
    BY <1>0, <2>1, <2>2 DEF Go, Coordinator
  <2>3. ~Raise(c)
    BY <1>0, <2>1 DEF Raise, Electing
  <2>4. ASSUME NEW l \in {"init", "pop", "clear", "tick"}, NEW m,
               co' = [co EXCEPT ![c] = HasRead(l, m)]
        PROVE  FALSE
    BY <1>0, <2>1, <2>4 DEF HasRead
  <2>5. ASSUME NEW l \in {"record", "cas_static"}, NEW s,
               co' = [co EXCEPT ![c].pc = l, ![c].pick = s]
        PROVE  FALSE
    BY <1>0, <2>1, <2>5 DEF Coordinator
  <2>6. CASE Elect(c) \/ Publish(c) \/ Clear(c) \/ SleepEnds(c) \/ Woken(c) \/ CasStatic(c)
             \/ CasUser(c) \/ Record(c) \/ Crash(c)
    BY <2>2, <2>3, <2>6 DEF Elect, Publish, Resume, Clear, SleepEnds, Woken, CasStatic,
       CasUser, Record, Crash
  <2>7. CASE Tick(c)
    <3>1. PICK l \in {"init", "pop", "clear", "tick"}, m \in {"boundary", "wait"} :
            co' = [co EXCEPT ![c] = HasRead(l, m)]
      BY <2>7 DEF Tick
    <3> QED
      BY <2>4, <3>1
  <2>8. CASE ReadForInterrupt(c)
    <3>1. PICK l \in {"init", "pop", "clear", "tick"}, m \in {"interrupt", "wait"} :
            co' = [co EXCEPT ![c] = HasRead(l, m)]
      BY <2>8 DEF ReadForInterrupt
    <3> QED
      BY <2>4, <3>1
  <2>9. CASE Initialize(c)
    BY <2>2, <2>3, <2>5, <2>9 DEF Initialize
  <2>10. CASE Pick(c)
    BY <2>3, <2>5, <2>10 DEF Pick
  <2>11. CASE Pop(c)
    <3>1. ~Go(c, "pick") /\ ~Go(c, "tick")
      BY <2>2
    <3> QED
      BY <2>1, <2>11, <3>1 DEF Pop
  <2> QED
    BY <1>2, <2>6, <2>7, <2>8, <2>9, <2>10, <2>11 DEF CoordinatorStep
<1>3. CASE co' # co
  <2>1. \E c \in Coordinators : CoordinatorStep(c) \/ Crash(c)
    <3>1. ~UNCHANGED radioVars
      BY <1>3 DEF radioVars
    <3>2. ~(SeedLibrary \/ LoseLock \/ RedisFails \/ RedisRecovers \/ SongEnds)
      BY <1>3 DEF SeedLibrary, LoseLock, RedisFails, RedisRecovers, SongEnds
    <3>3. \A k \in Rows : ~Enqueue(k) /\ ~SongReady(k)
      BY <1>3 DEF Enqueue, SongReady
    <3> QED
      BY <3>1, <3>2, <3>3 DEF RadioNext
  <2> QED
    BY <1>1, <1>2, <2>1
<1> QED
  BY <1>1, <1>3

-----------------------------------------------------------------------------
(* The invariant is inductive *)

LEMMA RadioInitially == RadioInit => RadioInv
<1> SUFFICES ASSUME RadioInit PROVE RadioInv
  OBVIOUS
<1> USE DEF RadioInit
<1>1. pointer \in Pointer
  BY DEF Pointer, Absent
<1>2. Electing \in Coordinator /\ Knows(Electing, pointer, Waiting) /\ Electing.pc = "elect"
  BY <1>1, ElectingKnows DEF Electing
<1>3. co \in [Coordinators -> Coordinator]
  BY <1>2
<1>4. recent \in Seq(StaticSongs) /\ faults \in 0..MaxFaults
  BY RadioAssumption
<1>5. wake \in [Coordinators -> BOOLEAN]
  OBVIOUS
<1>6. RadioTypeOK
  BY <1>1, <1>3, <1>4, <1>5 DEF RadioTypeOK
<1>7. \A c \in Coordinators : Knows(co[c], pointer, Waiting) /\ ~At(c, "cas_user")
  BY <1>2 DEF At
<1> QED
  BY <1>6, <1>7 DEF RadioInv, OneHolderPerRow, AbsentIsSilent

\* The queue grows, and what is played was in it.
LEMMA QueueKept ==
  ASSUME RadioInv, [RadioNext]_radioVars
  PROVE  /\ queued' \subseteq Rows /\ played' \subseteq queued' /\ notified' \subseteq queued'
         /\ queued \subseteq queued' /\ played \subseteq played'
<1>0. /\ queued \subseteq Rows /\ played \subseteq queued /\ notified \subseteq queued
  BY DEF RadioInv, RadioTypeOK
<1>1. CASE UNCHANGED queueVars
  BY <1>0, <1>1 DEF queueVars
<1>2. ASSUME NEW k \in Rows, Enqueue(k) \/ SongReady(k)
      PROVE  /\ queued' \subseteq Rows /\ played' \subseteq queued' /\ notified' \subseteq queued'
             /\ queued \subseteq queued' /\ played \subseteq played'
  BY <1>0, <1>2 DEF Enqueue, SongReady
<1>3. ASSUME NEW c \in Coordinators, CasUser(c)
      PROVE  /\ queued' \subseteq Rows /\ played' \subseteq queued' /\ notified' \subseteq queued'
             /\ queued \subseteq queued' /\ played \subseteq played'
  <2>1. co[c].row \in Waiting
    BY <1>3 DEF CasUser, At, RadioInv, Knows
  <2> QED
    BY <1>0, <1>3, <2>1 DEF CasUser, Waiting
<1>4. CASE SeedLibrary \/ LoseLock \/ RedisFails \/ RedisRecovers \/ SongEnds
  BY <1>1, <1>4 DEF SeedLibrary, LoseLock, RedisFails, RedisRecovers, SongEnds
<1>5. ASSUME NEW c \in Coordinators, CoordinatorStep(c) \/ Crash(c), ~CasUser(c)
      PROVE  UNCHANGED queueVars
  BY <1>5 DEF CoordinatorStep, Crash, Elect, Tick, Initialize, Pop, Pick, CasStatic, Record,
     Publish, Clear, SleepEnds, Woken, ReadForInterrupt
<1> QED
  BY <1>1, <1>2, <1>3, <1>4, <1>5 DEF RadioNext, radioVars

LEMMA LateTyped ==
  ASSUME RadioInv, [RadioNext]_radioVars
  PROVE  late' \subseteq Rows \X Rows
BY OnlyEnqueueGrows DEF RadioInv, RadioTypeOK, Enqueue

LEMMA EnvironmentTypes ==
  ASSUME RadioInv, [RadioNext]_radioVars
  PROVE  /\ seeded' \in BOOLEAN /\ redisUp' \in BOOLEAN /\ faults' \in 0..MaxFaults
         /\ lockHolder' \in Coordinators \cup {Nobody}
         /\ wake' \in [Coordinators -> BOOLEAN]
<1>0. /\ seeded \in BOOLEAN /\ redisUp \in BOOLEAN /\ faults \in 0..MaxFaults
      /\ lockHolder \in Coordinators \cup {Nobody}
      /\ wake \in [Coordinators -> BOOLEAN]
  BY DEF RadioInv, RadioTypeOK
<1>1. CASE UNCHANGED <<envVars, lockHolder, wake>>
  BY <1>0, <1>1 DEF envVars
<1>f. Fault => faults' \in 0..MaxFaults
  BY <1>0, RadioAssumption DEF Fault
<1>2. CASE SeedLibrary \/ LoseLock \/ RedisFails \/ RedisRecovers
  <2>1. CASE SeedLibrary \/ RedisRecovers
    BY <1>0, <2>1 DEF SeedLibrary, RedisRecovers
  <2>2. CASE LoseLock
    BY <1>0, <1>f, <2>2 DEF LoseLock
  <2>3. CASE RedisFails
    BY <1>0, <1>f, <2>3 DEF RedisFails
  <2> QED
    BY <1>2, <2>1, <2>2, <2>3
<1>3. CASE SongEnds
  BY <1>1, <1>3 DEF SongEnds
<1>4. ASSUME NEW k \in Rows, Enqueue(k) PROVE UNCHANGED <<envVars, lockHolder, wake>>
  BY <1>4 DEF Enqueue
<1>5. ASSUME NEW k \in Rows, SongReady(k)
      PROVE  wake' \in [Coordinators -> BOOLEAN] /\ UNCHANGED <<envVars, lockHolder>>
  <2>1. wake' = [c \in Coordinators |-> wake[c] \/ ~At(c, "elect")]
    BY <1>5 DEF SongReady
  <2>2. \A c \in Coordinators : (wake[c] \/ ~At(c, "elect")) \in BOOLEAN
    OBVIOUS
  <2> QED
    BY <1>5, <2>1, <2>2 DEF SongReady
<1>6. ASSUME NEW c \in Coordinators, Raise(c)
      PROVE  /\ lockHolder' \in Coordinators \cup {Nobody}
             /\ wake' \in [Coordinators -> BOOLEAN]
  BY <1>0, <1>6 DEF Raise
<1>7. ASSUME NEW c \in Coordinators, Crash(c)
      PROVE  /\ seeded' \in BOOLEAN /\ redisUp' \in BOOLEAN /\ faults' \in 0..MaxFaults
             /\ Raise(c)
  BY <1>0, <1>f, <1>7 DEF Crash
<1>8. ASSUME NEW c \in Coordinators, CoordinatorStep(c)
      PROVE  /\ UNCHANGED envVars
             /\ \/ Raise(c)
                \/ /\ lockHolder' \in {lockHolder, c}
                   /\ wake' \in {wake, [wake EXCEPT ![c] = FALSE]}
  <2>1. CASE Elect(c) \/ Tick(c) \/ Initialize(c) \/ Pop(c) \/ Pick(c) \/ Record(c)
    BY <2>1 DEF Elect, Tick, Initialize, Pop, Pick, Record
  <2>2. CASE CasStatic(c) \/ CasUser(c) \/ Publish(c)
    BY <2>2 DEF CasStatic, CasUser, Publish
  <2>3. CASE Clear(c) \/ SleepEnds(c) \/ Woken(c) \/ ReadForInterrupt(c)
    BY <2>3 DEF Clear, SleepEnds, Woken, ReadForInterrupt
  <2> QED
    BY <1>8, <2>1, <2>2, <2>3 DEF CoordinatorStep
<1>9. ASSUME NEW c \in Coordinators, CoordinatorStep(c)
      PROVE  /\ seeded' \in BOOLEAN /\ redisUp' \in BOOLEAN /\ faults' \in 0..MaxFaults
             /\ lockHolder' \in Coordinators \cup {Nobody}
             /\ wake' \in [Coordinators -> BOOLEAN]
  <2>1. UNCHANGED envVars
    BY <1>8, <1>9
  <2>2. CASE Raise(c)
    BY <1>0, <1>6, <2>1, <2>2 DEF envVars
  <2>3. CASE /\ lockHolder' \in {lockHolder, c}
             /\ wake' \in {wake, [wake EXCEPT ![c] = FALSE]}
    <3>1. [wake EXCEPT ![c] = FALSE] \in [Coordinators -> BOOLEAN]
      BY <1>0
    <3> QED
      BY <1>0, <2>1, <2>3, <3>1 DEF envVars
  <2> QED
    BY <1>8, <1>9, <2>2, <2>3
<1>10. CASE UNCHANGED radioVars
  BY <1>1, <1>10 DEF radioVars
<1> QED
  BY <1>0, <1>1, <1>2, <1>3, <1>4, <1>5, <1>6, <1>7, <1>9, <1>10 DEF RadioNext, envVars

LEMMA RedisTypes ==
  ASSUME RadioInv, [RadioNext]_radioVars
  PROVE  recent' \in Seq(StaticSongs) /\ cache' \in Nat \cup {Absent}
<1>0. /\ recent \in Seq(StaticSongs) /\ cache \in Nat \cup {Absent}
      /\ co \in [Coordinators -> Coordinator]
  BY DEF RadioInv, RadioTypeOK
<1>1. ASSUME NEW c \in Coordinators, Record(c) PROVE recent' \in Seq(StaticSongs) /\ cache' = cache
  <2>1. co[c].pick \in StaticSongs
    BY <1>1 DEF Record, At, RadioInv, Knows
  <2>2. Recorded(co[c].pick) \in Seq(StaticSongs)
    BY <1>0, <2>1, RadioAssumption, RecordedType
  <2> QED
    BY <1>0, <1>1, <2>2 DEF Record
<1>2. ASSUME NEW c \in Coordinators, Publish(c)
      PROVE  recent' = recent /\ cache' \in Nat \cup {Absent}
  <2>1. co[c].version + 1 \in Nat
    BY <1>0 DEF Coordinator, Absent
  <2> QED
    BY <1>0, <1>2, <2>1 DEF Publish
<1>3. ASSUME NEW c \in Coordinators, CoordinatorStep(c) \/ Crash(c), ~Record(c), ~Publish(c)
      PROVE  UNCHANGED <<recent, cache>>
  BY <1>3 DEF CoordinatorStep, Crash, Elect, Tick, Initialize, Pop, Pick, CasStatic, CasUser,
     Clear, SleepEnds, Woken, ReadForInterrupt
<1>4. ASSUME NEW k \in Rows, Enqueue(k) \/ SongReady(k) PROVE UNCHANGED <<recent, cache>>
  BY <1>4 DEF Enqueue, SongReady
<1>5. CASE SeedLibrary \/ LoseLock \/ RedisFails \/ RedisRecovers \/ SongEnds
  BY <1>0, <1>5 DEF SeedLibrary, LoseLock, RedisFails, RedisRecovers, SongEnds
<1> QED
  BY <1>0, <1>1, <1>2, <1>3, <1>4, <1>5 DEF RadioNext, radioVars

LEMMA RadioTypesKept == RadioInv /\ [RadioNext]_radioVars => RadioTypeOK'
<1> SUFFICES ASSUME RadioInv, [RadioNext]_radioVars PROVE RadioTypeOK'
  OBVIOUS
<1>1. co' \in [Coordinators -> Coordinator]
  BY OthersKept DEF Reached, RadioInv, RadioTypeOK
<1> QED
  BY <1>1, PointerKept, QueueKept, LateTyped, EnvironmentTypes, RedisTypes DEF RadioTypeOK

\* A row that somebody holds is consumed by nobody else.
LEMMA HeldRowKept ==
  ASSUME RadioInv, [RadioNext]_radioVars, NEW d \in Coordinators, At(d, "cas_user"),
         co'[d] = co[d]
  PROVE  co[d].row \in Waiting'
<1>0. co[d].row \in Waiting
  BY DEF RadioInv, Knows, At
<1>1. co[d].row \in queued'
  BY <1>0, QueueKept DEF Waiting
<1>2. CASE played' = played
  BY <1>0, <1>1, <1>2 DEF Waiting
<1>3. ASSUME NEW c \in Coordinators, CasUser(c), pointer.version = co[c].version
      PROVE  co[d].row \notin played'
  <2>1. At(c, "cas_user") /\ played' \subseteq played \cup {co[c].row}
    BY <1>3 DEF CasUser
  <2>2. c # d
    <3>1. PICK l \in {"publish", "clear", "tick"} : Go(c, l)
      BY <1>3 DEF CasUser, Resume
    <3>2. co'[c].pc = l
      BY <3>1 DEF Go, RadioInv, RadioTypeOK, Coordinator
    <3> QED
      BY <3>1, <3>2 DEF At
  <2>3. co[c].row # co[d].row
    BY <2>1, <2>2 DEF RadioInv, OneHolderPerRow
  <2> QED
    BY <1>0, <2>1, <2>3 DEF Waiting
<1>4. CASE SongEnds
  BY <1>2, <1>4 DEF SongEnds, queueVars
<1> QED
  BY <1>1, <1>2, <1>3, <1>4, PointerSteps DEF Waiting

LEMMA RadioInvKept == RadioInv /\ [RadioNext]_radioVars => RadioInv'
<1> SUFFICES ASSUME RadioInv, [RadioNext]_radioVars PROVE RadioInv'
  OBVIOUS
<1>0. /\ co \in [Coordinators -> Coordinator]
      /\ pointer \in Pointer
      /\ \A d \in Coordinators : Knows(co[d], pointer, Waiting)
  BY DEF RadioInv, RadioTypeOK
<1>1. RadioTypeOK' /\ AbsentIsSilent'
  BY RadioTypesKept, PointerKept
<1>2. ASSUME NEW d \in Coordinators, co'[d] = co[d]
      PROVE  Knows(co'[d], pointer', Waiting')
  <2>1. co[d].pc = "cas_user" => co[d].row \in Waiting'
    BY <1>2, HeldRowKept DEF At
  <2> QED
    BY <1>0, <1>2, <2>1, PointerKept, KnowledgeKept
<1>3. CASE co' = co
  <2>1. \A d \in Coordinators : Knows(co'[d], pointer', Waiting')
    BY <1>2, <1>3
  <2>2. OneHolderPerRow'
    BY <1>3 DEF RadioInv, OneHolderPerRow, At
  <2> QED
    BY <1>1, <2>1, <2>2 DEF RadioInv
<1>4. ASSUME NEW c \in Coordinators, NEW r \in Coordinator, Reached(c, r) PROVE RadioInv'
  <2>1. co'[c] = r /\ \A d \in Coordinators \ {c} : co'[d] = co[d]
    BY <1>0, <1>4 DEF Reached
  <2>2. \A d \in Coordinators : Knows(co'[d], pointer', Waiting')
    BY <1>2, <1>4, <2>1 DEF Reached
  <2>3. ASSUME NEW d \in Coordinators, NEW e \in Coordinators, d # e,
               co'[d].pc = "cas_user", co'[e].pc = "cas_user", co'[d].row = co'[e].row
        PROVE  FALSE
    <3>1. CASE d # c /\ e # c
      BY <2>1, <2>3, <3>1 DEF RadioInv, OneHolderPerRow, At
    <3>2. CASE d = c
      BY <1>4, <2>1, <2>3, <3>2 DEF Reached, RowLocked, At
    <3>3. CASE e = c
      BY <1>4, <2>1, <2>3, <3>3 DEF Reached, RowLocked, At
    <3> QED
      BY <3>1, <3>2, <3>3
  <2>4. OneHolderPerRow'
    BY <2>3 DEF OneHolderPerRow, At
  <2> QED
    BY <1>1, <2>2, <2>4 DEF RadioInv
<1> QED
  BY <1>3, <1>4, OthersKept

THEOREM RadioInvariant == RadioSpec => []RadioInv
<1>1. RadioInit => RadioInv
  BY RadioInitially
<1>2. RadioInv /\ [RadioNext]_radioVars => RadioInv'
  BY RadioInvKept
<1> QED
  BY <1>1, <1>2, PTL DEF RadioSpec

\* The type invariant, for any number of workers: no swap, no fallback of pick_static
\* and no row taken from the queue writes anything but a song, a version or a row.
THEOREM RadioTypeCorrect == RadioSpec => []RadioTypeOK
<1>1. RadioInv => RadioTypeOK
  BY DEF RadioInv
<1> QED
  BY <1>1, RadioInvariant, PTL

-----------------------------------------------------------------------------
(* The station *)

\* What a listener hears is the abstract station, whatever leaders there are: a step
\* of any coordinator, clock or crash is a step of the station or none.
THEOREM RadioRefinesStation == RadioSpec => ImplementsStation
<1>1. RadioInit => StationView!StationInit
  BY DEF RadioInit, StationView!StationInit
<1>2. ASSUME RadioInv, [RadioNext]_radioVars
      PROVE  [StationView!StationNext]_(StationView!stationVars)
  <2> USE DEF StationView!stationVars
  <2>0. /\ pointer \in Pointer /\ AbsentIsSilent
        /\ queued \subseteq Rows /\ played \subseteq queued
    BY <1>2 DEF RadioInv, RadioTypeOK
  <2>1. CASE pointer' = pointer /\ played' = played /\ queued' = queued
    BY <2>1
  <2>2. ASSUME NEW k \in Rows, Enqueue(k)
        PROVE  StationView!Join(k)
    BY <2>0, <2>2 DEF Enqueue, StationView!Join
  <2>3. CASE SongEnds
    <3>1. pointer.source # "silent"
      BY <2>0, <2>3 DEF SongEnds, AbsentIsSilent
    <3>2. pointer'.source = pointer.source /\ pointer'.over = TRUE
      BY <2>0, <2>3 DEF SongEnds, Pointer
    <3>3. ~pointer.over /\ UNCHANGED <<queued, played>>
      BY <2>3 DEF SongEnds, queueVars
    <3>4. StationView!End
      BY <3>1, <3>2, <3>3 DEF StationView!End
    <3> QED
      BY <3>4 DEF StationView!StationNext
  <2>4. ASSUME NEW c \in Coordinators, Initialize(c), pointer.version = Absent
        PROVE  [StationView!StationNext]_(StationView!stationVars)
    <3>1. CASE pointer' = pointer
      BY <2>4, <3>1 DEF Initialize, queueVars
    <3>2. CASE pointer' # pointer
      <4>1. pointer'.source = "static" /\ pointer'.over = FALSE
        BY <2>4, <3>2 DEF Initialize
      <4>2. pointer.source = "silent"
        BY <2>0, <2>4 DEF AbsentIsSilent
      <4>3. StationView!PlayFiller
        BY <2>4, <4>1, <4>2 DEF Initialize, queueVars, StationView!PlayFiller
      <4> QED
        BY <4>3 DEF StationView!StationNext
    <3> QED
      BY <3>1, <3>2
  <2>5. ASSUME NEW c \in Coordinators, CasStatic(c), pointer.version = co[c].version
        PROVE  [StationView!StationNext]_(StationView!stationVars)
    <3>1. pointer'.source = "static" /\ pointer'.over = FALSE
      BY <2>5 DEF CasStatic, Swap
    <3>2. pointer.over
      BY <1>2, <2>5 DEF CasStatic, At, RadioInv, Knows, Deciding
    <3>3. StationView!PlayFiller
      BY <2>5, <3>1, <3>2 DEF CasStatic, queueVars, StationView!PlayFiller
    <3> QED
      BY <3>3 DEF StationView!StationNext
  <2>6. ASSUME NEW c \in Coordinators, CasUser(c), pointer.version = co[c].version
        PROVE  [StationView!StationNext]_(StationView!stationVars)
    <3> DEFINE k == co[c].row
    <3>1. pointer'.source = "generated" /\ pointer'.over = FALSE
      BY <2>6 DEF CasUser, Swap
    <3>2. k \in queued \ played /\ k \in Rows
      BY <1>2, <2>0, <2>6 DEF CasUser, At, RadioInv, Knows, Waiting
    <3>3. co[c] \in Coordinator /\ Knows(co[c], pointer, Waiting) /\ co[c].pc = "cas_user"
      BY <1>2, <2>6 DEF CasUser, At, RadioInv, RadioTypeOK
    <3>4. pointer.source = "static" \/ pointer.over
      BY <2>6, <3>3 DEF Knows, Deciding, Coordinator
    <3>5. queued' = queued /\ played' = played \cup {k}
      BY <2>6 DEF CasUser
    <3>6. queued' \ played' = (queued \ played) \ {k}
      BY <3>5
    <3> HIDE DEF k
    <3>7. StationView!PlaySong(k)
      BY <3>1, <3>2, <3>4, <3>5, <3>6 DEF StationView!PlaySong
    <3> QED
      BY <3>2, <3>7 DEF StationView!StationNext
  <2>7. CASE queued' = queued
    BY <1>2, <2>1, <2>3, <2>4, <2>5, <2>6, <2>7, PointerSteps
  <2>8. ASSUME NEW k \in Rows, Enqueue(k)
        PROVE  [StationView!StationNext]_(StationView!stationVars)
    BY <2>2, <2>8 DEF StationView!StationNext
  <2> QED
    BY <1>2, <2>7, <2>8, OnlyEnqueueGrows
<1>3. QED
  BY <1>1, <1>2, RadioInvariant, PTL DEF RadioSpec, ImplementsStation, StationView!StationSpec

-----------------------------------------------------------------------------
(* The order of the queue *)

\* What airs, and what a leader holds, is older than all that waits, but for the rows
\* that were committed after it was taken.
Overtaken(k) == \A m \in queued : m < k => m \in played \/ <<m, k>> \in late
InOrder ==
  /\ AiredInOrder
  /\ \A c \in Coordinators : At(c, "cas_user") => Overtaken(co[c].row)

LEMMA OrderKept ==
  ASSUME RadioInv, InOrder, [RadioNext]_radioVars
  PROVE  InOrder'
<1>0. /\ queued \subseteq Rows /\ played \subseteq queued
      /\ co \in [Coordinators -> Coordinator]
      /\ played \subseteq played' /\ queued \subseteq queued'
  BY QueueKept DEF RadioInv, RadioTypeOK
<1>1. CASE \E k \in Rows : Enqueue(k)
  <2>1. PICK k \in Rows : Enqueue(k)
    BY <1>1
  <2>2. /\ k \notin queued /\ queued' = queued \cup {k} /\ played' = played /\ co' = co
        /\ late \subseteq late'
        /\ \A n \in Rows : n > k /\ Taken(n) => <<k, n>> \in late'
    BY <2>1 DEF Enqueue
  <2>3. ASSUME NEW n \in Rows, Taken(n), Overtaken(n) PROVE Overtaken(n)'
    <3> SUFFICES ASSUME NEW m \in queued', m < n PROVE m \in played' \/ <<m, n>> \in late'
      BY DEF Overtaken
    <3>1. CASE m = k
      BY <2>2, <2>3, <3>1 DEF Rows
    <3>2. CASE m \in queued
      BY <2>2, <2>3, <3>2 DEF Overtaken
    <3> QED
      BY <2>2, <3>1, <3>2
  <2>4. \A n \in played : Overtaken(n)
    BY DEF InOrder, AiredInOrder, Overtaken
  <2>5. AiredInOrder'
    <3>1. \A n \in played' : Overtaken(n)'
      BY <1>0, <2>2, <2>3, <2>4 DEF Taken
    <3> QED
      BY <3>1 DEF AiredInOrder, Overtaken
  <2>6. ASSUME NEW c \in Coordinators, At(c, "cas_user")' PROVE Overtaken(co[c].row)'
    <3>1. At(c, "cas_user") /\ co[c].row \in queued /\ Overtaken(co[c].row)
      BY <2>2, <2>6 DEF At, RadioInv, Knows, Waiting, InOrder
    <3>2. Taken(co[c].row) /\ co[c].row \in Rows
      BY <1>0, <3>1 DEF Taken, RowLocked
    <3>3. ASSUME NEW n, n = co[c].row PROVE Overtaken(n)'
      BY <2>3, <3>1, <3>2, <3>3
    <3>4. co'[c].row = co[c].row
      BY <2>2
    <3> QED
      BY <3>3, <3>4 DEF Overtaken
  <2> QED
    BY <2>5, <2>6 DEF InOrder
<1>2. CASE queued' = queued /\ late' = late
  <2>0. \A n \in Rows : Overtaken(n) => Overtaken(n)'
    BY <1>0, <1>2 DEF Overtaken
  <2>1. AiredInOrder'
    <3>1. CASE played' = played
      BY <1>2, <3>1 DEF InOrder, AiredInOrder
    <3>2. ASSUME NEW c \in Coordinators, CasUser(c) PROVE AiredInOrder'
      <4>1. played' \subseteq played \cup {co[c].row} /\ Overtaken(co[c].row)
        BY <3>2 DEF CasUser, InOrder
      <4> QED
        BY <1>0, <1>2, <4>1 DEF InOrder, AiredInOrder, Overtaken
    <3>3. CASE SongEnds
      BY <3>1, <3>3 DEF SongEnds, queueVars
    <3> QED
      BY <3>1, <3>2, <3>3, PointerSteps
  <2>2. ASSUME NEW c \in Coordinators, At(c, "cas_user")' PROVE Overtaken(co[c].row)'
    <3>1. CASE At(c, "cas_user") /\ co'[c] = co[c]
      <4>1. Overtaken(co[c].row)
        BY <3>1 DEF InOrder
      <4> QED
        BY <1>0, <1>2, <3>1, <4>1 DEF Overtaken
    <3>2. CASE \E k \in Rows : Oldest(k) /\ co' = [co EXCEPT ![c].pc = "cas_user", ![c].row = k]
      <4>1. PICK k \in Rows :
              Oldest(k) /\ co' = [co EXCEPT ![c].pc = "cas_user", ![c].row = k]
        BY <3>2
      <4>2. co'[c].row = k
        BY <1>0, <4>1 DEF Coordinator
      <4>3. \A m \in queued : m < k => m \in played
        BY <1>0, <4>1 DEF Oldest, Waiting, Rows
      <4>4. \A m \in queued' : m < k => m \in played'
        BY <1>0, <1>2, <4>3
      <4> QED
        BY <4>2, <4>4 DEF Overtaken
    <3>3. \/ At(c, "cas_user") /\ co'[c] = co[c]
          \/ \E k \in Rows : Oldest(k) /\ co' = [co EXCEPT ![c].pc = "cas_user", ![c].row = k]
      <4>1. co'[c].pc = "cas_user"
        BY <2>2 DEF At
      <4> QED
        BY <4>1, UserSwapComesFromPop
    <3> QED
      BY <3>1, <3>2, <3>3
  <2> QED
    BY <2>1, <2>2 DEF InOrder
<1>3. (queued' = queued /\ late' = late) \/ \E k \in Rows : Enqueue(k)
  BY OnlyEnqueueGrows
<1> QED
  BY <1>1, <1>2, <1>3

\* First come, first aired, for any number of leaders and songs and whatever the order
\* of the commits: a song is overtaken only by one that was taken off the queue before
\* it could be seen there.
THEOREM AirsInOrder == RadioSpec => []AiredInOrder
<1>1. RadioInit => InOrder
  BY DEF RadioInit, InOrder, AiredInOrder, At, Electing
<1>2. RadioInv /\ InOrder /\ [RadioNext]_radioVars => InOrder'
  BY OrderKept
<1>3. InOrder => AiredInOrder
  BY DEF InOrder
<1> QED
  BY <1>1, <1>2, <1>3, RadioInvariant, PTL DEF RadioSpec

-----------------------------------------------------------------------------
(* The history *)

WindowSmaller == HistoryLen \in 1..(Cardinality(StaticSongs) - 1)

\* Without faults there is one leader, and the filler that is on is the newest of the
\* history as soon as its start is recorded.
Remembered ==
  /\ redisUp
  /\ \A c \in Coordinators : ~At(c, "elect") => lockHolder = c
  /\ \A c \in Coordinators : At(c, "init") => pointer.version = Absent
  /\ \A c \in Coordinators :
       At(c, "record") => pointer.source = "static" /\ co[c].pick = pointer.song
  /\ pointer.source = "static" =>
       \/ \E c \in Coordinators : At(c, "record")
       \/ recent # <<>> /\ recent[1] = pointer.song
  /\ WindowSmaller /\ pointer.source = "static" =>
       \A c \in Coordinators : At(c, "cas_static") => co[c].pick # pointer.song

HistoryInv == faults = 0 => Remembered

\* The window holds no more songs than its setting says.
LEMMA WindowBounded ==
  ASSUME recent \in Seq(StaticSongs), HistoryLen \in Nat
  PROVE  IsFiniteSet(RecentIds) /\ Cardinality(RecentIds) <= HistoryLen
<1> DEFINE K == {i \in DOMAIN recent : i <= HistoryLen}
           f == [k \in K |-> recent[k]]
<1>1. K \subseteq 1..HistoryLen
  OBVIOUS
<1>2. IsFiniteSet(1..HistoryLen) /\ Cardinality(1..HistoryLen) = HistoryLen
  <2>1. 1 \in Int /\ HistoryLen \in Int
    OBVIOUS
  <2>2. /\ IsFiniteSet(1..HistoryLen)
        /\ Cardinality(1..HistoryLen) = IF 1 > HistoryLen THEN 0 ELSE HistoryLen - 1 + 1
    BY <2>1, FS_Interval
  <2> QED
    BY <2>2
<1>3. RecentIds = {f[k] : k \in K}
  BY DEF RecentIds
<1>4. f \in [K -> RecentIds]
  BY <1>3
<1> HIDE DEF K, f
<1>5. f \in Surjection(K, RecentIds)
  BY <1>3, <1>4 DEF Surjection
<1>6. IsFiniteSet(K) /\ Cardinality(K) <= HistoryLen
  <2>1. K \in SUBSET (1..HistoryLen)
    BY <1>1
  <2> QED
    BY <1>2, <2>1, FS_Subset
<1>7. IsFiniteSet(RecentIds) /\ Cardinality(RecentIds) <= Cardinality(K)
  BY <1>5, <1>6, FS_Surjection
<1>8. Cardinality(K) \in Nat /\ Cardinality(RecentIds) \in Nat
  BY <1>6, <1>7, FS_CardinalityType
<1> QED
  BY <1>6, <1>7, <1>8

\* ... so a larger library always has something else to offer.
LEMMA OffersAnother ==
  ASSUME recent \in Seq(StaticSongs), WindowSmaller, recent # <<>>, NEW cur,
         NEW s \in PickStatic(StaticSongs, RecentIds, cur)
  PROVE  s # recent[1]
<1>0. HistoryLen \in Nat /\ IsFiniteSet(StaticSongs)
  BY RadioAssumption
<1>1. IsFiniteSet(RecentIds) /\ Cardinality(RecentIds) <= HistoryLen
  BY <1>0, WindowBounded
<1>2. Cardinality(StaticSongs) \in Nat /\ Cardinality(RecentIds) \in Nat
  BY <1>0, <1>1, FS_CardinalityType
<1>3. Cardinality(RecentIds) < Cardinality(StaticSongs) /\ 1 <= HistoryLen
  BY <1>0, <1>1, <1>2 DEF WindowSmaller
<1>4. StaticSongs \ RecentIds # {}
  <2>1. SUFFICES ASSUME StaticSongs \in SUBSET RecentIds PROVE FALSE
    OBVIOUS
  <2>2. Cardinality(StaticSongs) <= Cardinality(RecentIds)
    BY <1>1, <2>1, FS_Subset
  <2> QED
    BY <1>2, <1>3, <2>2
<1>5. recent[1] \in RecentIds
  <2>1. 1 \in DOMAIN recent
    OBVIOUS
  <2> QED
    BY <1>3, <2>1 DEF RecentIds
<1>6. s \in StaticSongs \ RecentIds
  BY <1>4 DEF PickStatic
<1> QED
  BY <1>5, <1>6

\* LPUSH and LTRIM: what was just recorded is the newest.
LEMMA RecordedNewest ==
  ASSUME recent \in Seq(StaticSongs), HistoryLen \in Nat, NEW s \in StaticSongs
  PROVE  Recorded(s) # <<>> /\ Recorded(s)[1] = s
<1> DEFINE longer == <<s>> \o recent
           kept == IF HistoryLen > 1 THEN HistoryLen ELSE 1
           n == IF Len(longer) < kept THEN Len(longer) ELSE kept
<1>1. <<s>> \in Seq(StaticSongs) /\ Len(<<s>>) = 1 /\ <<s>>[1] = s
  OBVIOUS
<1>2. /\ longer \in Seq(StaticSongs) /\ Len(longer) = 1 + Len(recent)
      /\ \A i \in 1..(1 + Len(recent)) :
           longer[i] = IF i <= 1 THEN <<s>>[i] ELSE recent[i - 1]
  BY <1>1, ConcatProperties
<1>3. Len(recent) \in Nat
  OBVIOUS
<1>4. longer[1] = s
  <2>1. 1 \in 1..(1 + Len(recent))
    BY <1>3
  <2> QED
    BY <1>1, <1>2, <2>1
<1>5. n \in Int /\ 1 <= n /\ n <= Len(longer)
  BY <1>2, <1>3
<1> HIDE DEF longer
<1>6. \A i \in 1..n : longer[i] \in StaticSongs
  BY <1>2, <1>5
<1> HIDE DEF n
<1>7. /\ SubSeq(longer, 1, n) \in Seq(StaticSongs)
      /\ Len(SubSeq(longer, 1, n)) = n
      /\ \A i \in 1..n : SubSeq(longer, 1, n)[i] = longer[1 + i - 1]
  BY <1>5, <1>6, SubSeqProperties
<1>8. SubSeq(longer, 1, n)[1] = s
  BY <1>4, <1>5, <1>7
<1>9. Recorded(s) = SubSeq(longer, 1, n)
  BY DEF Recorded, longer, n
<1> QED
  BY <1>5, <1>7, <1>8, <1>9

\* Whoever is past its election is alone there.
LEMMA LeaderAlone ==
  ASSUME RadioInv, Remembered, NEW c \in Coordinators, ~At(c, "elect")
  PROVE  lockHolder = c /\ \A d \in Coordinators \ {c} : At(d, "elect")
BY DEF Remembered

\* What is left to show of a step of the only leader.
LEMMA LeaderRemembers ==
  ASSUME RadioInv, NEW c \in Coordinators, NEW r \in Coordinator,
         \A d \in Coordinators \ {c} : At(d, "elect"),
         co' = [co EXCEPT ![c] = r], redisUp', lockHolder' = c,
         r.pc = "init" => pointer'.version = Absent,
         r.pc = "record" => pointer'.source = "static" /\ r.pick = pointer'.song,
         pointer'.source = "static" =>
           r.pc = "record" \/ (recent' # <<>> /\ recent'[1] = pointer'.song),
         WindowSmaller /\ pointer'.source = "static" /\ r.pc = "cas_static" =>
           r.pick # pointer'.song
  PROVE  Remembered'
<1>1. co \in [Coordinators -> Coordinator]
  BY DEF RadioInv, RadioTypeOK
<1>2. co'[c] = r /\ \A d \in Coordinators \ {c} : co'[d] = co[d] /\ co[d].pc = "elect"
  BY <1>1 DEF At
<1>3. \A d \in Coordinators : co'[d].pc # "elect" => d = c
  BY <1>2
<1>4. /\ \A d \in Coordinators : co'[d].pc # "elect" => lockHolder' = d
      /\ \A d \in Coordinators : co'[d].pc = "init" => pointer'.version = Absent
      /\ \A d \in Coordinators :
           co'[d].pc = "record" => pointer'.source = "static" /\ co'[d].pick = pointer'.song
  BY <1>2, <1>3
<1>5. pointer'.source = "static" =>
        \/ \E d \in Coordinators : co'[d].pc = "record"
        \/ recent' # <<>> /\ recent'[1] = pointer'.song
  BY <1>2
<1>6. WindowSmaller /\ pointer'.source = "static" =>
        \A d \in Coordinators : co'[d].pc = "cas_static" => co'[d].pick # pointer'.song
  BY <1>2, <1>3
<1> QED
  BY <1>4, <1>5, <1>6 DEF Remembered, At, WindowSmaller

LEMMA ElectionRemembers ==
  ASSUME RadioInv, Remembered, NEW c \in Coordinators, Elect(c)
  PROVE  Remembered'
<1>0. co[c] \in Coordinator /\ co \in [Coordinators -> Coordinator] /\ Nobody \notin Coordinators
  BY RadioAssumption DEF RadioInv, RadioTypeOK
<1> DEFINE r == [co[c] EXCEPT !.pc = "tick"]
<1>1. co' = [co EXCEPT ![c] = r]
  BY <1>0 DEF Elect, Go
<1>2. r \in Coordinator /\ r.pc = "tick"
  BY <1>0 DEF Coordinator, CoordinatorPCs
<1>3. \A d \in Coordinators : At(d, "elect")
  BY <1>0 DEF Elect, Remembered
<1>4. /\ redisUp' /\ lockHolder' = c /\ pointer' = pointer /\ recent' = recent
  BY DEF Elect, Remembered, envVars
<1>5. pointer.source = "static" => recent # <<>> /\ recent[1] = pointer.song
  BY <1>3 DEF Remembered, At
<1> HIDE DEF r
<1> QED
  BY <1>1, <1>2, <1>3, <1>4, <1>5, LeaderRemembers

LEMMA LeaderStepRemembers ==
  ASSUME RadioInv, Remembered, NEW c \in Coordinators, CoordinatorStep(c), ~Elect(c)
  PROVE  Remembered'
<1>0. /\ co[c] \in Coordinator /\ co \in [Coordinators -> Coordinator]
      /\ Knows(co[c], pointer, Waiting)
      /\ recent \in Seq(StaticSongs) /\ HistoryLen \in Nat /\ NoSong \notin StaticSongs
      /\ HistoryAnswers /\ redisUp
  BY RadioAssumption DEF RadioInv, RadioTypeOK, HistoryAnswers, Remembered
<1>1. ~At(c, "elect")
  BY DEF CoordinatorStep, At, Tick, Initialize, Pop, Pick, CasStatic, CasUser, Record, Publish,
     Clear, SleepEnds, Woken, ReadForInterrupt
<1>2. lockHolder = c /\ \A d \in Coordinators \ {c} : At(d, "elect")
  BY <1>1, LeaderAlone
<1>3. ~At(c, "record") /\ pointer.source = "static" =>
        recent # <<>> /\ recent[1] = pointer.song
  <2>1. ~At(c, "record") => \A d \in Coordinators : ~At(d, "record")
    BY <1>2 DEF At
  <2> QED
    BY <2>1 DEF Remembered
\* A step that only moves the leader on.
<1>4. ASSUME NEW r \in Coordinator, co' = [co EXCEPT ![c] = r], ~At(c, "record"),
             UNCHANGED <<pointer, recent, redisUp, lockHolder>>,
             r.pc \notin {"record", "cas_static"},
             r.pc = "init" => pointer.version = Absent
      PROVE  Remembered'
  BY <1>0, <1>2, <1>3, <1>4, LeaderRemembers
<1>5. ASSUME NEW l \in CoordinatorPCs \ {"record", "cas_static", "init"}, Go(c, l)
      PROVE  /\ [co[c] EXCEPT !.pc = l] \in Coordinator
             /\ [co[c] EXCEPT !.pc = l].pc = l
             /\ co' = [co EXCEPT ![c] = [co[c] EXCEPT !.pc = l]]
  <2>1. [co[c] EXCEPT !.pc = l] \in Coordinator /\ [co[c] EXCEPT !.pc = l].pc = l
    BY <1>0 DEF Coordinator
  <2> QED
    BY <1>0, <1>5, <2>1 DEF Go
<1>6. CASE Publish(c) \/ Clear(c) \/ SleepEnds(c) \/ Woken(c)
  <2>1. PICK l \in {"tick", "clear", "sleep", "wake"} : Go(c, l)
    BY <1>6 DEF Publish, Resume, Clear, SleepEnds, Woken
  <2>2. ~At(c, "record") /\ UNCHANGED <<pointer, recent, redisUp, lockHolder>>
    BY <1>6 DEF Publish, Clear, SleepEnds, Woken, At, envVars
  <2>3. l \in CoordinatorPCs \ {"record", "cas_static", "init"}
    BY DEF CoordinatorPCs
  <2> DEFINE r == [co[c] EXCEPT !.pc = l]
  <2>4. r \in Coordinator /\ r.pc = l /\ co' = [co EXCEPT ![c] = r]
    BY <1>5, <2>1, <2>3
  <2> HIDE DEF r
  <2> QED
    BY <1>4, <2>2, <2>3, <2>4
<1>7. CASE Tick(c)
  <2> DEFINE l == IF pointer.version = Absent
                  THEN IF seeded THEN "init" ELSE "clear"
                  ELSE IF pointer.over THEN "pop" ELSE "clear"
             m == IF l = "pop" THEN "boundary" ELSE "wait"
             r == HasRead(l, m)
  <2>1. co' = [co EXCEPT ![c] = r]
    BY <1>7 DEF Tick
  <2>2. ~At(c, "record") /\ UNCHANGED <<pointer, recent, redisUp, lockHolder>>
    BY <1>7 DEF Tick, At, envVars
  <2>3. r.pc = l /\ (l = "init" => pointer.version = Absent) /\ l \in {"init", "clear", "pop"}
    BY DEF HasRead
  <2>4. r \in Coordinator
    BY <2>3 DEF HasRead, Coordinator, CoordinatorPCs, RadioInv, RadioTypeOK, Pointer
  <2> HIDE DEF r, l
  <2> QED
    BY <1>4, <2>1, <2>2, <2>3, <2>4
<1>8. CASE ReadForInterrupt(c)
  <2> DEFINE r == IF ShouldInterrupt(pointer.source) THEN HasRead("pop", "interrupt")
                                                     ELSE HasRead("tick", "wait")
  <2>1. co' = [co EXCEPT ![c] = r]
    BY <1>8 DEF ReadForInterrupt
  <2>2. ~At(c, "record") /\ UNCHANGED <<pointer, recent, redisUp, lockHolder>>
    BY <1>8 DEF ReadForInterrupt, At, envVars
  <2>3. r \in Coordinator /\ r.pc \in {"pop", "tick"}
    BY DEF HasRead, Coordinator, CoordinatorPCs, RadioInv, RadioTypeOK, Pointer
  <2> HIDE DEF r
  <2> QED
    BY <1>4, <2>1, <2>2, <2>3
<1>9. CASE Pop(c)
  <2>1. ~At(c, "record") /\ UNCHANGED <<pointer, recent, redisUp, lockHolder>>
    BY <1>9 DEF Pop, At, envVars
  <2>2. \E r \in Coordinator : /\ co' = [co EXCEPT ![c] = r]
                               /\ r.pc \in {"cas_user", "pick", "tick"}
    <3>1. ASSUME NEW k \in Rows, co' = [co EXCEPT ![c].pc = "cas_user", ![c].row = k]
          PROVE  \E r \in Coordinator : /\ co' = [co EXCEPT ![c] = r]
                                        /\ r.pc \in {"cas_user", "pick", "tick"}
      <4> DEFINE r == [co[c] EXCEPT !.pc = "cas_user", !.row = k]
      <4>1. r \in Coordinator /\ r.pc = "cas_user"
        BY <1>0 DEF Coordinator, CoordinatorPCs
      <4>2. co' = [co EXCEPT ![c] = r]
        BY <1>0, <3>1
      <4> HIDE DEF r
      <4> QED
        BY <4>1, <4>2
    <3>2. ASSUME NEW l \in {"pick", "tick"}, Go(c, l)
          PROVE  \E r \in Coordinator : /\ co' = [co EXCEPT ![c] = r]
                                        /\ r.pc \in {"cas_user", "pick", "tick"}
      <4>1. l \in CoordinatorPCs \ {"record", "cas_static", "init"}
        BY DEF CoordinatorPCs
      <4> DEFINE r == [co[c] EXCEPT !.pc = l]
      <4>2. r \in Coordinator /\ r.pc = l /\ co' = [co EXCEPT ![c] = r]
        BY <1>5, <3>2, <4>1
      <4> HIDE DEF r
      <4> QED
        BY <4>2
    <3> QED
      BY <1>9, <3>1, <3>2 DEF Pop
  <2> QED
    BY <1>4, <2>1, <2>2
<1>10. CASE Initialize(c)
  <2>1. pointer.version = Absent
    BY <1>10 DEF Initialize, Remembered
  <2>2. PICK s \in PickStatic(StaticSongs, RecentIds, NoSong) :
          /\ pointer' = [version |-> 0, source |-> "static", song |-> s, over |-> FALSE]
          /\ co' = [co EXCEPT ![c].pc = "record", ![c].pick = s]
    BY <1>0, <1>10, <2>1 DEF Initialize
  <2>3. s \in StaticSongs /\ lockHolder' = c /\ redisUp'
    BY <1>0, <1>2, <1>10, <2>1 DEF Initialize, PickStatic, envVars
  <2> DEFINE r == [co[c] EXCEPT !.pc = "record", !.pick = s]
  <2>4. r \in Coordinator /\ r.pc = "record" /\ r.pick = s /\ co' = [co EXCEPT ![c] = r]
    BY <1>0, <2>2, <2>3 DEF Coordinator, CoordinatorPCs
  <2>5. pointer'.source = "static" /\ pointer'.song = s
    BY <2>2
  <2> HIDE DEF r
  <2> QED
    BY <1>2, <2>3, <2>4, <2>5, LeaderRemembers
<1>11. CASE Pick(c)
  <2>1. PICK s \in PickStatic(StaticSongs, RecentIds, pointer.song) :
          co' = [co EXCEPT ![c].pc = "cas_static", ![c].pick = s]
    BY <1>0, <1>11 DEF Pick
  <2>2. s \in StaticSongs
    BY <1>0, <2>1 DEF PickStatic
  <2>3. /\ UNCHANGED <<pointer, recent, redisUp, lockHolder>>
        /\ ~At(c, "record")
    BY <1>0, <1>11 DEF Pick, envVars, At
  <2>4. WindowSmaller /\ pointer.source = "static" => s # pointer.song
    BY <1>0, <1>3, <2>1, <2>3, OffersAnother
  <2> DEFINE r == [co[c] EXCEPT !.pc = "cas_static", !.pick = s]
  <2>5. r \in Coordinator /\ r.pc = "cas_static" /\ r.pick = s /\ co' = [co EXCEPT ![c] = r]
    BY <1>0, <2>1, <2>2 DEF Coordinator, CoordinatorPCs
  <2> HIDE DEF r
  <2> QED
    BY <1>0, <1>2, <1>3, <2>3, <2>4, <2>5, LeaderRemembers
<1>12. CASE CasStatic(c)
  <2>1. UNCHANGED <<recent, redisUp, lockHolder>> /\ ~At(c, "record")
    BY <1>12 DEF CasStatic, At, envVars
  <2>2. CASE Swap(c, "static", co[c].pick) /\ Go(c, "record")
    <3> DEFINE r == [co[c] EXCEPT !.pc = "record"]
    <3>1. /\ r \in Coordinator /\ r.pc = "record" /\ r.pick = co[c].pick
          /\ co' = [co EXCEPT ![c] = r]
      BY <1>0, <2>2 DEF Coordinator, CoordinatorPCs, Go
    <3>2. pointer'.source = "static" /\ pointer'.song = co[c].pick
      BY <2>2 DEF Swap
    <3> HIDE DEF r
    <3> QED
      BY <1>0, <1>2, <2>1, <3>1, <3>2, LeaderRemembers
  <2>3. CASE pointer' = pointer /\ Go(c, "clear")
    <3> DEFINE r == [co[c] EXCEPT !.pc = "clear"]
    <3>1. r \in Coordinator /\ r.pc = "clear" /\ co' = [co EXCEPT ![c] = r]
      BY <1>5, <2>3 DEF CoordinatorPCs
    <3> HIDE DEF r
    <3> QED
      BY <1>4, <2>1, <2>3, <3>1
  <2> QED
    BY <1>12, <2>2, <2>3 DEF CasStatic
<1>13. CASE CasUser(c)
  <2>1. UNCHANGED <<recent, redisUp, lockHolder>> /\ ~At(c, "record")
    BY <1>13 DEF CasUser, At, envVars
  <2>2. PICK l \in {"publish", "clear", "tick"} : Go(c, l)
    BY <1>13 DEF CasUser, Resume
  <2>3. l \in CoordinatorPCs \ {"record", "cas_static", "init"}
    BY DEF CoordinatorPCs
  <2> DEFINE r == [co[c] EXCEPT !.pc = l]
  <2>4. r \in Coordinator /\ r.pc = l /\ co' = [co EXCEPT ![c] = r]
    BY <1>5, <2>2, <2>3
  <2>5. pointer' = pointer \/ pointer'.source = "generated"
    BY <1>13 DEF CasUser, Swap
  <2> HIDE DEF r
  <2> QED
    BY <1>0, <1>2, <1>3, <2>1, <2>3, <2>4, <2>5, LeaderRemembers
<1>14. CASE Record(c)
  <2>1. /\ recent' = Recorded(co[c].pick) /\ Go(c, "publish")
        /\ UNCHANGED <<pointer, redisUp, lockHolder>> /\ At(c, "record")
    BY <1>0, <1>14 DEF Record, envVars
  <2>2. co[c].pick \in StaticSongs /\ co[c].pick = pointer.song
    BY <1>0, <2>1 DEF At, Knows, Remembered
  <2>3. recent' # <<>> /\ recent'[1] = pointer.song
    BY <1>0, <2>1, <2>2, RecordedNewest
  <2> DEFINE r == [co[c] EXCEPT !.pc = "publish"]
  <2>4. r \in Coordinator /\ r.pc = "publish" /\ co' = [co EXCEPT ![c] = r]
    BY <1>5, <2>1 DEF CoordinatorPCs
  <2> HIDE DEF r
  <2> QED
    BY <1>0, <1>2, <2>1, <2>3, <2>4, LeaderRemembers
<1> QED
  BY <1>6, <1>7, <1>8, <1>9, <1>10, <1>11, <1>12, <1>13, <1>14 DEF CoordinatorStep

\* Every fault is counted, and what is no fault leaves the leader where it is.
LEMMA HistoryKept == RadioInv /\ HistoryInv /\ [RadioNext]_radioVars => HistoryInv'
<1> SUFFICES ASSUME RadioInv, HistoryInv, [RadioNext]_radioVars, faults' = 0
             PROVE  Remembered'
  BY DEF HistoryInv
<1>0. faults \in Nat /\ pointer \in Pointer
  BY RadioAssumption DEF RadioInv, RadioTypeOK
<1>1. ~Fault
  BY <1>0 DEF Fault
<1>2. Remembered \/ faults # 0
  BY DEF HistoryInv
<1>3. ASSUME faults' = faults, UNCHANGED <<recent, lockHolder, co>>, redisUp => redisUp',
             /\ pointer'.version = pointer.version /\ pointer'.source = pointer.source
             /\ pointer'.song = pointer.song
      PROVE  Remembered'
  <2>1. Remembered
    BY <1>2, <1>3
  <2> QED
    BY <1>3, <2>1 DEF Remembered, At, WindowSmaller
<1>4. CASE UNCHANGED radioVars
  BY <1>3, <1>4 DEF radioVars, envVars
<1>5. CASE SeedLibrary \/ RedisRecovers \/ \E k \in Rows : Enqueue(k) \/ SongReady(k)
  BY <1>3, <1>5 DEF SeedLibrary, RedisRecovers, Enqueue, SongReady, envVars
<1>6. CASE SongEnds
  <2>1. /\ pointer'.version = pointer.version /\ pointer'.source = pointer.source
        /\ pointer'.song = pointer.song
    BY <1>0, <1>6 DEF SongEnds, Pointer
  <2> QED
    BY <1>3, <1>6, <2>1 DEF SongEnds, envVars
<1>7. CASE LoseLock \/ RedisFails \/ \E c \in Coordinators : Crash(c)
  BY <1>1, <1>7 DEF LoseLock, RedisFails, Crash
<1>8. ASSUME NEW c \in Coordinators, CoordinatorStep(c)
      PROVE  Remembered'
  <2>1. faults' = faults
    BY <1>8 DEF CoordinatorStep, Elect, Tick, Initialize, Pop, Pick, CasStatic, CasUser,
       Record, Publish, Clear, SleepEnds, Woken, ReadForInterrupt, envVars
  <2>2. Remembered
    BY <1>2, <2>1
  <2> QED
    BY <1>8, <2>2, ElectionRemembers, LeaderStepRemembers
<1> QED
  BY <1>4, <1>5, <1>6, <1>7, <1>8 DEF RadioNext

\* A filler never follows itself: for any number of workers and fillers, as long as
\* nothing fails and the window is smaller than the library.
THEOREM FillersVary == RadioSpec => NoFillerTwice
<1>1. RadioInit => HistoryInv
  BY DEF RadioInit, HistoryInv, Remembered, At, Electing
<1>2. RadioInv /\ HistoryInv /\ [RadioNext]_radioVars => HistoryInv'
  BY HistoryKept
<1>3. ASSUME RadioInv, HistoryInv, [RadioNext]_radioVars,
             faults = 0, pointer'.version # pointer.version, pointer.source = "static",
             pointer'.source = "static", WindowSmaller
      PROVE  pointer'.song # pointer.song
  <2>0. pointer \in Pointer /\ AbsentIsSilent
    BY <1>3 DEF RadioInv, RadioTypeOK
  <2>1. pointer' # pointer /\ pointer.version # Absent
    BY <1>3, <2>0 DEF AbsentIsSilent
  <2>2. ~SongEnds
    BY <1>3, <2>0 DEF SongEnds, Pointer
  <2>3. PICK c \in Coordinators : CasStatic(c) \/ CasUser(c)
    BY <1>3, <2>1, <2>2, PointerSteps
  <2>4. CASE CasStatic(c)
    <3>1. pointer'.song = co[c].pick /\ At(c, "cas_static")
      BY <2>1, <2>4 DEF CasStatic, Swap
    <3> QED
      BY <1>3, <3>1 DEF HistoryInv, Remembered
  <2>5. CASE CasUser(c)
    BY <1>3, <2>1, <2>5 DEF CasUser, Swap
  <2> QED
    BY <2>3, <2>4, <2>5
<1>4. RadioInv /\ HistoryInv /\ [RadioNext]_radioVars =>
        [(faults = 0 /\ pointer'.version # pointer.version /\ pointer.source = "static"
           /\ pointer'.source = "static" /\ HistoryLen \in 1..(Cardinality(StaticSongs) - 1))
         => pointer'.song # pointer.song]_radioVars
  BY <1>3 DEF WindowSmaller
<1> QED
  BY <1>1, <1>2, <1>4, RadioInvariant, PTL DEF RadioSpec, NoFillerTwice
=============================================================================

------------------------------ MODULE WebProofs -----------------------------
(***************************************************************************)
(* Proofs about the parts around the pipeline, for any number of           *)
(* playbacks, rows, requests, frames, workers, jobs and faults:            *)
(*   Player      whoever listens hears the song the page shows, until the  *)
(*               end of an earlier crossfade pauses it;                    *)
(*   QueueDepth  the coalescer never loses the last depth, and the answers *)
(*               of GET /queue are applied in the order they were read;    *)
(*   Page        the bar tells the truth and the stream hears the page's   *)
(*               own jobs;                                                 *)
(*   Drain       an overdue row is left out, when the last drain returns,  *)
(*               only behind a whole batch of rows that are not due;       *)
(*   MCWeb       the parts run side by side, each of its steps leaves the  *)
(*               others alone, and every variable keeps its type.          *)
(***************************************************************************)
EXTENDS MCWeb, QueueDepth, QuotaProofs, FanoutProofs, WellFoundedInduction

-----------------------------------------------------------------------------
(* Player *)

(***************************************************************************)
(* The invariant that is inductive: the page's pointer is the player's.    *)
(***************************************************************************)
KnowsItsPointer == prev = feedState

PlayerInv == PlayerTypeOK /\ PlaysTheFeed /\ KnowsItsPointer

LEMMA OtherBuffer ==
  ASSUME NEW b \in Buffers
  PROVE  /\ Other(b) \in Buffers /\ Other(b) # b /\ Other(Other(b)) = b
         /\ \A c \in Buffers : c = b \/ c = Other(b)
  BY DEF Buffers, Other

\* The player starts silent, with nothing loaded.
LEMMA PlayerStarts == PlayerInit => PlayerInv
<1> SUFFICES ASSUME PlayerInit PROVE PlayerInv
  OBVIOUS
<1> USE DEF PlayerInit
<1>1. air \in 0..MaxPlayback /\ past \subseteq 1..air
  BY PlayerAssumption DEF Quiet
<1>2. active \in Buffers /\ Other(active) \in Buffers
  BY OtherBuffer DEF Buffers
<1>0. 0 \in 0..MaxRamps /\ FALSE \in BOOLEAN
  BY PlayerAssumption
<1>3. PlayerTypeOK
  BY <1>0, <1>1, <1>2 DEF PlayerTypeOK
<1>4. PlaysTheFeed
  BY <1>2 DEF PlaysTheFeed
<1> QED  BY <1>3, <1>4 DEF PlayerInv, KnowsItsPointer

(***************************************************************************)
(* applyPlaying on a new song.                                             *)
(***************************************************************************)
LEMMA LoadKeepsTypes ==
  ASSUME PlayerTypeOK, NEW p \in Playbacks \cup {Quiet}, Load(p)
  PROVE  /\ src' \in [Buffers -> Playbacks \cup {Quiet}]
         /\ playing' \in [Buffers -> BOOLEAN]
         /\ active' \in Buffers /\ ramps' \in [Buffers -> 0..MaxRamps] /\ silenced' \in BOOLEAN
<1>1. active \in Buffers /\ Other(active) \in Buffers
  BY OtherBuffer DEF PlayerTypeOK
<1>2. src' \in [Buffers -> Playbacks \cup {Quiet}]
  BY <1>1 DEF PlayerTypeOK, Load
<1>3. Crossfades \in BOOLEAN /\ listening \in BOOLEAN
  BY DEF Crossfades, PlayerTypeOK
<1>4. playing' \in [Buffers -> BOOLEAN]
  BY <1>1, <1>3 DEF PlayerTypeOK, Load
<1>5. active' \in Buffers /\ silenced' \in BOOLEAN
  BY <1>1 DEF PlayerTypeOK, Load
<1>6. ramps' \in [Buffers -> 0..MaxRamps]
  <2>1. CASE Crossfades
    <3>1. ramps[active] + 1 \in 0..MaxRamps
      BY <1>1, <2>1, PlayerAssumption DEF PlayerTypeOK, Load, StartsRamp
    <3> QED  BY <1>1, <2>1, <3>1 DEF PlayerTypeOK, Load, StartsRamp
  <2>2. CASE ~Crossfades
    BY <2>2 DEF PlayerTypeOK, Load, StartsRamp
  <2> QED  BY <2>1, <2>2
<1> QED  BY <1>2, <1>4, <1>5, <1>6

\* The types do not need the rest.
LEMMA PlayerTypesKeep ==
  ASSUME PlayerTypeOK, [PlayerNext]_playerVars
  PROVE  PlayerTypeOK'
<1>0. active \in Buffers /\ Other(active) \in Buffers
  BY OtherBuffer DEF PlayerTypeOK
<1>1. CASE Airs
  <2>1. air' \in 0..MaxPlayback /\ past' \subseteq 1..air'
    BY <1>1, PlayerAssumption DEF Airs, PlayerTypeOK
  <2> QED  BY <1>1, <2>1 DEF Airs, buffers, PlayerTypeOK
<1>2. ASSUME NEW p \in Playbacks, PlaysOut(p)
      PROVE  PlayerTypeOK'
  BY <1>2 DEF PlaysOut, buffers, PlayerTypeOK
<1>3. ASSUME NEW p \in Playbacks \cup {Quiet}, Feed(p),
             UNCHANGED <<air, past, listening>>, answers' \subseteq answers
      PROVE  PlayerTypeOK'
  <2>1. feedState' = p /\ prev' = p
    BY <1>3 DEF Feed
  <2>2. CASE p \in {Quiet, prev}
    BY <1>3, <2>1, <2>2 DEF Feed, buffers, PlayerTypeOK
  <2>3. CASE Load(p)
    BY <1>3, <2>1, <2>3, LoadKeepsTypes DEF PlayerTypeOK
  <2> QED  BY <1>3, <2>2, <2>3 DEF Feed
<1>4. CASE FrameArrives
  <2>1. air \in Playbacks \cup {Quiet}
    BY PlayerAssumption DEF PlayerTypeOK, Playbacks, Quiet
  <2> QED  BY <1>3, <1>4, <2>1 DEF FrameArrives
<1>5. CASE AnswerArrives
  <2>1. PICK p \in answers : Feed(p) /\ answers' = answers \ {p}
    BY <1>5 DEF AnswerArrives
  <2>2. p \in Playbacks \cup {Quiet}
    BY <2>1 DEF PlayerTypeOK
  <2> QED  BY <1>3, <1>5, <2>1, <2>2 DEF AnswerArrives
<1>6. ASSUME NEW b \in Buffers, SongEnds(b)
      PROVE  PlayerTypeOK'
  <2>1. src[b] \in 1..air /\ air \in 0..MaxPlayback
    BY <1>6 DEF SongEnds, PlayerTypeOK
  <2>2. air \in Playbacks \cup {Quiet} /\ air - 1 \in Playbacks \cup {Quiet}
    BY <2>1, PlayerAssumption DEF Playbacks, Quiet
  <2>3. answers' \subseteq Playbacks \cup {Quiet}
    BY <1>6, <2>2 DEF SongEnds, PlayerTypeOK
  <2> QED  BY <1>6, <2>3 DEF SongEnds, PlayerTypeOK
<1>7. ASSUME NEW b \in Buffers, FadeEnds(b)
      PROVE  PlayerTypeOK'
  <2>1. ramps[b] - 1 \in 0..MaxRamps
    BY <1>7, PlayerAssumption DEF FadeEnds, PlayerTypeOK
  <2>2. silenced' \in BOOLEAN
    BY <1>7 DEF FadeEnds
  <2> QED  BY <1>7, <2>1, <2>2 DEF FadeEnds, PlayerTypeOK
<1>8. CASE Toggle
  BY <1>0, <1>8 DEF Toggle, PlayerTypeOK
<1>9. CASE UNCHANGED playerVars
  BY <1>9 DEF playerVars, buffers, PlayerTypeOK
<1> QED  BY <1>1, <1>2, <1>4, <1>5, <1>6, <1>7, <1>8, <1>9 DEF PlayerNext

\* The song is in the new active buffer, and plays for whoever listens; the old one
\* plays on only into a ramp.
LEMMA LoadPlays ==
  ASSUME PlayerInv, NEW p \in Playbacks \cup {Quiet}, Load(p), listening' = listening
  PROVE  /\ src'[active'] = p
         /\ listening' => playing'[active']
         /\ playing'[Other(active')] => ramps'[Other(active')] > 0
         /\ ~listening' => \A b \in Buffers : ~playing'[b]
<1> DEFINE other == Other(active)
<1>1. /\ active \in Buffers /\ other \in Buffers /\ other # active
      /\ Other(other) = active /\ \A b \in Buffers : b = active \/ b = other
  BY OtherBuffer DEF PlayerInv, PlayerTypeOK
<1>2. active' = other
  BY DEF Load
<1>3. src'[other] = p
  BY <1>1 DEF Load, PlayerInv, PlayerTypeOK
<1>4. /\ playing'[other] = listening
      /\ playing'[active] = (playing[active] /\ (listening => Crossfades))
  BY <1>1 DEF Load, PlayerInv, PlayerTypeOK
<1>5. Crossfades => ramps'[active] > 0
  <2> SUFFICES ASSUME Crossfades PROVE ramps'[active] > 0
    OBVIOUS
  <2>1. ramps'[active] = ramps[active] + 1 /\ ramps[active] \in 0..MaxRamps
    BY <1>1 DEF Load, StartsRamp, PlayerInv, PlayerTypeOK
  <2> QED  BY <2>1, PlayerAssumption
<1>6. ~listening => ~playing[active]
  BY <1>1 DEF PlayerInv, PlaysTheFeed
<1>7. playing'[active] => ramps'[active] > 0
  BY <1>4, <1>5, <1>6
<1>8. ~listening' => \A b \in Buffers : ~playing'[b]
  BY <1>1, <1>4, <1>6
<1> QED  BY <1>1, <1>2, <1>3, <1>4, <1>7, <1>8

\* A frame or an answer.
LEMMA FeedKeeps ==
  ASSUME PlayerInv, NEW p \in Playbacks \cup {Quiet}, Feed(p),
         UNCHANGED <<air, past, listening>>
  PROVE  PlaysTheFeed' /\ KnowsItsPointer'
<1>1. feedState' = p /\ prev' = p
  BY DEF Feed
<1>2. KnowsItsPointer'
  BY <1>1 DEF KnowsItsPointer
<1>3. CASE p \in {Quiet, prev}
  <2>1. UNCHANGED <<src, playing, active, ramps, silenced>>
    BY <1>3 DEF Feed, buffers
  <2>2. p # Quiet => p = feedState
    BY <1>3 DEF PlayerInv, KnowsItsPointer
  <2>3. PlaysTheFeed'
    BY <2>1, <2>2, <1>1 DEF PlayerInv, PlaysTheFeed
  <2> QED  BY <2>3, <1>2
<1>4. CASE p \notin {Quiet, prev}
  <2>1. Load(p) /\ listening' = listening
    BY <1>4 DEF Feed
  <2>2. PlaysTheFeed'
    BY <2>1, <1>1, LoadPlays DEF PlaysTheFeed
  <2> QED  BY <2>2, <1>2
<1> QED  BY <1>3, <1>4

(***************************************************************************)
(* Every step.                                                             *)
(***************************************************************************)
LEMMA PlayerSteps ==
  ASSUME PlayerInv, [PlayerNext]_playerVars
  PROVE  PlayerInv'
<1> USE DEF PlayerInv
<1>0. active \in Buffers /\ Other(active) \in Buffers /\ Other(active) # active
      /\ \A b \in Buffers : b = active \/ b = Other(active)
  BY OtherBuffer DEF PlayerTypeOK
<1>t. PlayerTypeOK'
  BY PlayerTypesKeep
<1>1. CASE Airs
  BY <1>1, <1>t DEF Airs, buffers, PlaysTheFeed, KnowsItsPointer
<1>2. ASSUME NEW p \in Playbacks, PlaysOut(p)
      PROVE  PlayerInv'
  BY <1>2, <1>t DEF PlaysOut, buffers, PlaysTheFeed, KnowsItsPointer
<1>3. CASE FrameArrives
  <2>1. air \in Playbacks \cup {Quiet}
    BY PlayerAssumption DEF PlayerTypeOK, Playbacks, Quiet
  <2> QED  BY <1>3, <1>t, <2>1, FeedKeeps DEF FrameArrives
<1>4. CASE AnswerArrives
  <2>1. PICK p \in answers : Feed(p)
    BY <1>4 DEF AnswerArrives
  <2>2. p \in Playbacks \cup {Quiet}
    BY <2>1 DEF PlayerTypeOK
  <2> QED  BY <1>4, <1>t, <2>1, <2>2, FeedKeeps DEF AnswerArrives
<1>5. ASSUME NEW b \in Buffers, SongEnds(b)
      PROVE  PlayerInv'
  <2>1. \A c \in Buffers : playing'[c] = (playing[c] /\ c # b)
    BY <1>5 DEF SongEnds, PlayerTypeOK
  <2>2. listening /\ feedState \notin past \cup {Quiet} => b # active
    BY <1>5 DEF SongEnds, PlaysTheFeed
  <2>3. PlaysTheFeed'
    <3>1. UNCHANGED <<feedState, src, active, ramps, listening, past, silenced>>
      BY <1>5 DEF SongEnds
    <3>2. playing'[active] = (playing[active] /\ active # b)
      BY <1>0, <2>1
    <3>3. playing'[Other(active)] => playing[Other(active)]
      BY <1>0, <2>1
    <3>4. ~listening => \A c \in Buffers : ~playing'[c]
      BY <2>1 DEF PlaysTheFeed
    <3> QED  BY <2>2, <3>1, <3>2, <3>3, <3>4 DEF PlaysTheFeed
  <2> QED  BY <1>5, <1>t, <2>3 DEF SongEnds, KnowsItsPointer
<1>6. ASSUME NEW b \in Buffers, FadeEnds(b)
      PROVE  PlayerInv'
  <2>1. UNCHANGED <<feedState, src, active, listening, past>>
    BY <1>6 DEF FadeEnds
  <2>2. \A c \in Buffers : playing'[c] = (playing[c] /\ c # b)
    BY <1>6 DEF FadeEnds, PlayerTypeOK
  <2>3. playing[active] \/ silenced => playing'[active] \/ silenced'
    BY <1>0, <1>6, <2>2 DEF FadeEnds
  <2>4. playing'[Other(active)] => ramps'[Other(active)] > 0
    <3>1. playing'[Other(active)] => playing[Other(active)] /\ Other(active) # b
      BY <1>0, <2>2
    <3>2. Other(active) # b => ramps'[Other(active)] = ramps[Other(active)]
      BY <1>0, <1>6 DEF FadeEnds, PlayerTypeOK
    <3> QED  BY <3>1, <3>2 DEF PlaysTheFeed
  <2>5. ~listening => \A c \in Buffers : ~playing'[c]
    BY <2>2 DEF PlaysTheFeed
  <2>6. PlaysTheFeed'
    BY <2>1, <2>3, <2>4, <2>5 DEF PlaysTheFeed
  <2> QED  BY <1>6, <1>t, <2>6 DEF FadeEnds, KnowsItsPointer
<1>7. CASE Toggle
  <2>1. CASE listening
    BY <1>0, <1>7, <1>t, <2>1 DEF Toggle, PlayerTypeOK, PlaysTheFeed, KnowsItsPointer
  <2>2. CASE ~listening
    BY <1>0, <1>7, <1>t, <2>2 DEF Toggle, PlayerTypeOK, PlaysTheFeed, KnowsItsPointer
  <2> QED  BY <2>1, <2>2
<1>8. CASE UNCHANGED playerVars
  BY <1>8, <1>t DEF playerVars, buffers, PlaysTheFeed, KnowsItsPointer
<1> QED  BY <1>1, <1>2, <1>3, <1>4, <1>5, <1>6, <1>7, <1>8 DEF PlayerNext

\* The active buffer holds the song the page shows and plays it to whoever listens,
\* until the end of an earlier crossfade pauses it; the other one plays only while it
\* fades out; a pause silences both.
THEOREM ListenerHearsTheFeed == PlayerSpec => []PlaysTheFeed
<1>1. PlayerInv /\ [PlayerNext]_playerVars => PlayerInv'
  BY PlayerSteps
<1>2. PlayerInv => PlaysTheFeed
  BY DEF PlayerInv
<1> QED  BY PlayerStarts, <1>1, <1>2, PTL DEF PlayerSpec

-----------------------------------------------------------------------------
(* Queue depth *)

(***************************************************************************)
(* The coalescer.  LastDepthSurvives alone is not inductive: a flush could *)
(* be scheduled with a value that is not the last while the last had been  *)
(* emitted before.                                                         *)
(***************************************************************************)
CoalescerOK ==
  /\ coalescer \in [pending : {coalescer.pending}, scheduled : BOOLEAN, window : BOOLEAN]
  /\ coalescer.scheduled => coalescer.pending = lastKnown
  /\ ~coalescer.scheduled => lastKnown = emitted

LEMMA CoalescerStarts == DepthInit => CoalescerOK
  BY DEF DepthInit, CoalescerOK, NewCoalescer

LEMMA AcceptKeepsLast ==
  ASSUME CoalescerOK, NEW d, Accept(d)
  PROVE  CoalescerOK'
<1>1. CASE coalescer.scheduled /\ coalescer' = Held(d) /\ lastKnown' = d
  BY <1>1 DEF CoalescerOK, Held
<1>2. CASE coalescer' = Opened /\ ~coalescer.scheduled /\ Emit(d) /\ lastKnown' = d
  BY <1>2 DEF CoalescerOK, Opened, Emit
<1>3. CASE coalescer' = Scheduled(d) /\ lastKnown' = d
  BY <1>3 DEF CoalescerOK, Scheduled
<1> QED  BY <1>1, <1>2, <1>3 DEF Accept

LEMMA CoalescerSteps ==
  ASSUME CoalescerOK, [DepthNext]_depthVars
  PROVE  CoalescerOK'
<1>1. CASE UNCHANGED relay
  BY <1>1 DEF CoalescerOK, relay
<1>2. ASSUME NEW p \in Publishers, PublishDepth(p)
      PROVE  CoalescerOK'
  BY <1>1, <1>2, AcceptKeepsLast DEF PublishDepth
<1>3. CASE WindowEnds
  BY <1>3 DEF WindowEnds, CoalescerOK
<1>4. CASE Flush
  BY <1>4 DEF Flush, Flushed, Emit, CoalescerOK
<1>5. CASE TuneOut
  <2>1. CASE lastKnown' = NoDepth /\ coalescer' = NewCoalescer /\ emitted' = NoDepth
    BY <2>1 DEF CoalescerOK, NewCoalescer
  <2> QED  BY <1>1, <1>5, <2>1 DEF TuneOut
<1>6. CASE EnqueueRow \/ PlayRow \/ PlayStatic \/ Tick \/ PublishPointerDepth \/ TuneIn \/ SendDepth
           \/ HeartbeatFrame \/ OnOwnJob
  BY <1>1, <1>6 DEF EnqueueRow, PlayRow, PlayStatic, Tick, PublishPointerDepth, TuneIn, SendDepth,
     HeartbeatFrame, OnOwnJob
<1>7. ASSUME NEW p \in Publishers, Count(p)
      PROVE  CoalescerOK'
  BY <1>1, <1>7 DEF Count
<1>8. ASSUME NEW n \in Fetches, ServeQueue(n) \/ ApplyQueue(n) \/ FailQueue(n)
      PROVE  CoalescerOK'
  BY <1>1, <1>8 DEF ServeQueue, ApplyQueue, FailQueue
<1>9. CASE UNCHANGED depthVars
  BY <1>1, <1>9 DEF depthVars
<1> QED  BY <1>2, <1>3, <1>4, <1>5, <1>6, <1>7, <1>8, <1>9 DEF DepthNext

\* What the instance knows has been handed to the listeners, or a scheduled flush is
\* going to hand out exactly that.
THEOREM LastDepthIsNeverLost == DepthSpec => []LastDepthSurvives
<1>1. CoalescerOK /\ [DepthNext]_depthVars => CoalescerOK'
  BY CoalescerSteps
<1>2. CoalescerOK => LastDepthSurvives
  BY DEF CoalescerOK, LastDepthSurvives
<1> QED  BY CoalescerStarts, <1>1, <1>2, PTL DEF DepthSpec

(***************************************************************************)
(* The answers of GET /queue.  Only one request is the latest, and what it *)
(* has read is no older than what the page was last refreshed with; that   *)
(* holds when it reads, since the queue's history only grows, and later,   *)
(* since no other request may refresh the page until a newer one begins.   *)
(***************************************************************************)
FetchRecord == [pc : {"idle", "asked", "answered"}, latest : BOOLEAN,
                answer : [depth : Int, position : Int], reads : Nat]

RefreshTypes ==
  /\ rows \in [enqueued : Nat, played : Nat]
  /\ refreshed \in Nat
  /\ fetch \in [Fetches -> FetchRecord]

OneIsLatest == \A m, n \in Fetches : fetch[m].latest /\ fetch[n].latest => m = n

LatestIsNewest ==
  \A n \in Fetches : fetch[n].latest /\ fetch[n].pc = "answered" =>
    refreshed <= fetch[n].reads /\ fetch[n].reads <= Reads

RefreshInv == RefreshTypes /\ refreshed <= Reads /\ OneIsLatest /\ LatestIsNewest

LEMMA NoFetchIsRecord ==
  NoFetch \in FetchRecord /\ NoFetch.latest = FALSE /\ NoFetch.pc = "idle"
  BY DEF NoFetch, FetchRecord

LEMMA RefreshStarts == DepthInit => RefreshInv
<1> SUFFICES ASSUME DepthInit PROVE RefreshInv
  OBVIOUS
<1>1. fetch \in [Fetches -> FetchRecord] /\ \A n \in Fetches : fetch[n].latest = FALSE
  BY NoFetchIsRecord DEF DepthInit
<1>2. rows \in [enqueued : Nat, played : Nat] /\ refreshed = 0 /\ Reads = 0
  BY DEF DepthInit, Reads
<1> QED  BY <1>1, <1>2 DEF RefreshInv, RefreshTypes, OneIsLatest, LatestIsNewest

\* A new request makes every earlier one stale, and has nothing to show yet.
LEMMA RefetchTakesOver ==
  ASSUME RefreshInv, Refetch, UNCHANGED <<rows, refreshed>>
  PROVE  RefreshInv'
<1>1. PICK n \in Fetches : Begin(n)
  BY DEF Refetch
<1>2. \A m \in Fetches : /\ fetch'[m] \in FetchRecord
                         /\ fetch'[m].latest => m = n /\ fetch'[m].pc = "asked"
  <2>1. [NoFetch EXCEPT !.pc = "asked", !.latest = TRUE] \in FetchRecord
    BY NoFetchIsRecord DEF FetchRecord
  <2>2. fetch'[n] = [NoFetch EXCEPT !.pc = "asked", !.latest = TRUE]
    BY <1>1 DEF Begin
  <2>3. fetch'[n].pc = "asked"
    BY <2>2 DEF NoFetch
  <2>4. ASSUME NEW m \in Fetches, m # n
        PROVE  fetch'[m] \in FetchRecord /\ fetch'[m].latest = FALSE
    <3>1. fetch'[m] = [fetch[m] EXCEPT !.latest = FALSE] /\ fetch[m] \in FetchRecord
      BY <1>1, <2>4 DEF Begin, RefreshInv, RefreshTypes
    <3> QED  BY <3>1 DEF FetchRecord
  <2> QED  BY <2>1, <2>2, <2>3, <2>4
<1>3. fetch' \in [Fetches -> FetchRecord]
  BY <1>1, <1>2 DEF Begin
<1> QED  BY <1>2, <1>3 DEF RefreshInv, RefreshTypes, OneIsLatest, LatestIsNewest, Reads

LEMMA SongChangeKeeps ==
  ASSUME RefreshInv, NEW d, OnSongChange(d), UNCHANGED rows
  PROVE  RefreshInv' /\ refreshed' = refreshed
<1>1. CASE UNCHANGED fetch
  BY <1>1 DEF OnSongChange, RefreshInv, RefreshTypes, OneIsLatest, LatestIsNewest, Reads
<1> QED  BY <1>1, RefetchTakesOver DEF OnSongChange

\* The history of the queue only grows.
LEMMA RowsKeep ==
  ASSUME RefreshInv, EnqueueRow \/ PlayRow \/ PlayStatic
  PROVE  RefreshInv' /\ refreshed' = refreshed
<1>1. UNCHANGED <<fetch, refreshed>>
  BY DEF EnqueueRow, PlayRow, PlayStatic, page
<1>2. rows' \in [enqueued : Nat, played : Nat] /\ Reads <= Reads' /\ Reads \in Nat /\ Reads' \in Nat
  BY DEF EnqueueRow, PlayRow, PlayStatic, RefreshInv, RefreshTypes, Reads
<1> QED  BY <1>1, <1>2 DEF RefreshInv, RefreshTypes, FetchRecord, OneIsLatest, LatestIsNewest

LEMMA ServeKeeps ==
  ASSUME RefreshInv, NEW n \in Fetches, ServeQueue(n)
  PROVE  RefreshInv' /\ refreshed' = refreshed
<1>1. UNCHANGED <<rows, refreshed>>
  BY DEF ServeQueue
<1>2. Snapshot \in [depth : Int, position : Int] /\ Reads \in Nat
  BY DepthAssumption DEF Snapshot, Waiting, OwnPosition, Reads, RefreshInv, RefreshTypes
<1>3. /\ fetch' \in [Fetches -> FetchRecord]
      /\ fetch'[n].latest = fetch[n].latest /\ fetch'[n].reads = Reads
      /\ \A m \in Fetches \ {n} : fetch'[m] = fetch[m]
  <2>1. fetch' = [fetch EXCEPT ![n] = [@ EXCEPT !.pc = "answered", !.answer = Snapshot,
                                             !.reads = Reads]]
    BY DEF ServeQueue
  <2>2. fetch \in [Fetches -> FetchRecord] /\ fetch[n] \in FetchRecord
    BY DEF RefreshInv, RefreshTypes
  <2>3. fetch'[n] = [fetch[n] EXCEPT !.pc = "answered", !.answer = Snapshot, !.reads = Reads]
    BY <2>1, <2>2
  <2>4. /\ fetch'[n] \in FetchRecord
        /\ fetch'[n].latest = fetch[n].latest /\ fetch'[n].reads = Reads
    BY <1>2, <2>2, <2>3 DEF FetchRecord
  <2> QED  BY <2>1, <2>2, <2>4
<1> QED  BY <1>1, <1>2, <1>3 DEF RefreshInv, RefreshTypes, OneIsLatest, LatestIsNewest, Reads

LEMMA AnswerKeeps ==
  ASSUME RefreshInv, NEW n \in Fetches, ApplyQueue(n) \/ FailQueue(n)
  PROVE  RefreshInv' /\ refreshed' >= refreshed
<1>1. UNCHANGED rows
  BY DEF ApplyQueue, FailQueue
<1>2. /\ fetch' \in [Fetches -> FetchRecord] /\ fetch'[n].latest = FALSE
      /\ \A m \in Fetches \ {n} : fetch'[m] = fetch[m]
  BY NoFetchIsRecord DEF ApplyQueue, FailQueue, RefreshInv, RefreshTypes
<1>3. \/ refreshed' = refreshed
      \/ /\ fetch[n].latest /\ refreshed' = fetch[n].reads
         /\ refreshed <= fetch[n].reads /\ fetch[n].reads <= Reads
  BY DEF ApplyQueue, FailQueue, IsCurrent, RefreshInv, LatestIsNewest
<1>4. refreshed \in Nat /\ fetch[n].reads \in Nat
  BY DEF RefreshInv, RefreshTypes, FetchRecord
<1>5. CASE refreshed' = refreshed
  BY <1>1, <1>2, <1>4, <1>5 DEF RefreshInv, RefreshTypes, OneIsLatest, LatestIsNewest, Reads
<1>6. CASE fetch[n].latest /\ refreshed' = fetch[n].reads
  <2>1. \A m \in Fetches : ~fetch'[m].latest
    BY <1>2, <1>6 DEF RefreshInv, OneIsLatest
  <2> QED  BY <1>1, <1>2, <1>3, <1>4, <2>1, <1>6
           DEF RefreshInv, RefreshTypes, OneIsLatest, LatestIsNewest, Reads
<1> QED  BY <1>3, <1>5, <1>6

LEMMA RefreshSteps ==
  ASSUME RefreshInv, [DepthNext]_depthVars
  PROVE  RefreshInv' /\ refreshed' >= refreshed
<1>0. refreshed \in Nat
  BY DEF RefreshInv, RefreshTypes
<1>1. CASE UNCHANGED <<rows, fetch, refreshed>>
  BY <1>0, <1>1 DEF RefreshInv, RefreshTypes, OneIsLatest, LatestIsNewest, Reads
<1>2. CASE EnqueueRow \/ PlayRow \/ PlayStatic
  BY <1>0, <1>2, RowsKeep
<1>3. CASE Tick \/ WindowEnds \/ Flush \/ TuneOut \/ SendDepth
  BY <1>1, <1>3 DEF Tick, WindowEnds, Flush, TuneOut, SendDepth, page
<1>4. ASSUME NEW p \in Publishers, Count(p) \/ PublishDepth(p)
      PROVE  RefreshInv' /\ refreshed' >= refreshed
  BY <1>1, <1>4 DEF Count, PublishDepth, page
<1>5. CASE PublishPointerDepth
  <2>1. UNCHANGED rows
    BY <1>5 DEF PublishPointerDepth
  <2>2. (\E d : OnSongChange(d)) \/ UNCHANGED page
    BY <1>5 DEF PublishPointerDepth
  <2> QED  BY <1>0, <1>1, <2>1, <2>2, SongChangeKeeps DEF page
<1>6. CASE TuneIn \/ HeartbeatFrame
  <2>1. UNCHANGED rows /\ \E d : OnSongChange(d)
    BY <1>6 DEF TuneIn, HeartbeatFrame
  <2> QED  BY <1>0, <2>1, SongChangeKeeps
<1>7. CASE OnOwnJob
  BY <1>0, <1>7, RefetchTakesOver DEF OnOwnJob
<1>8. ASSUME NEW n \in Fetches, ServeQueue(n) \/ ApplyQueue(n) \/ FailQueue(n)
      PROVE  RefreshInv' /\ refreshed' >= refreshed
  BY <1>0, <1>8, ServeKeeps, AnswerKeeps
<1>9. CASE UNCHANGED depthVars
  BY <1>1, <1>9 DEF depthVars, page
<1> QED  BY <1>2, <1>3, <1>4, <1>5, <1>6, <1>7, <1>8, <1>9 DEF DepthNext

\* The page never replaces an answer of GET /queue by one that was read before it.
THEOREM RefreshesNeverGoBack == DepthSpec => RefreshesInOrder
<1>1. RefreshInv /\ [DepthNext]_depthVars => RefreshInv' /\ [refreshed' >= refreshed]_depthVars
  BY RefreshSteps
<1> QED  BY RefreshStarts, <1>1, PTL DEF DepthSpec, RefreshesInOrder

-----------------------------------------------------------------------------
(* Page: the bar tells the truth, and the stream hears the page's own jobs *)

\* An end that was published is the job's, and what the bar says was published.
FramesTrue ==
  \A k \in 1..Len(frame) : frame[k].type \in Ends => job[frame[k].job] = frame[k].type
JobsMadeOnce == \A j \in Jobs : post[j] \in {"unsent", "sent"} => job[j] = "none"
BarTracksOwn == /\ bar.status # "idle" => bar.job \in OwnJobs
                /\ bar.status = "generating" => post[bar.job] # "unsent"

\* Before the quota read is answered nothing was sent and the jar is as it was; and
\* after it the jar holds, for good, the identity of every POST and of the stream.
QuotaReadFirst ==
  /\ quotaCookie \in {Nobody, "returning"}
  /\ quotaRead = "asked" => ~stream.open
  /\ quotaRead = "asked" /\ ~overtaken =>
       jar = quotaCookie /\ \A j \in Jobs : post[j] = "unsent"
  /\ quotaRead = "read" /\ ~overtaken =>
       /\ jar \in {"quota", "returning"}
       /\ stream.open => stream.identity = jar
       /\ \A j \in Jobs : post[j] # "unsent" => owner[j] = jar

PageInv ==
  PageTypeOK /\ FramesTrue /\ JobsMadeOnce /\ BarTracksOwn /\ QuotaReadFirst /\ BarTellsTruth

LEMMA PageStarts == PageInit => PageInv
<1> SUFFICES ASSUME PageInit PROVE PageInv
  OBVIOUS
<1> USE DEF PageInit
<1>1. PageTypeOK
  <2>1. frame \in Seq([type : {"progress"} \cup Ends, job : Jobs]) /\ Len(frame) <= FrameQueue
    BY PageAssumption
  <2>2. bar \in [status : {"idle", "generating", "finished", "failed", "timedout"},
                job : OwnJobs \cup {NoJob}, eta : BOOLEAN]
    BY DEF IdleBar
  <2>3. /\ {jar, quotaCookie} \subseteq Identity /\ overtaken \in BOOLEAN
        /\ quotaRead \in {"asked", "read", "failed"}
        /\ stream \in [open : BOOLEAN, identity : Identity]
    BY DEF Identity
  <2>4. /\ post \in [Jobs -> {"unsent", "sent", "made", "refused", "answered", "errored"}]
        /\ owner \in [Jobs -> Identity]
        /\ job \in [Jobs -> {"none", "running"} \cup Ends]
        /\ news \in [Jobs -> {"none", "queued", "lost", "shown", "ignored"}]
    BY DEF Identity
  <2>5. pageFaults \in 0..PageFaults
    BY PageAssumption
  <2> QED
    BY <2>1, <2>2, <2>3, <2>4, <2>5 DEF PageTypeOK
<1>2. FramesTrue /\ JobsMadeOnce /\ BarTracksOwn /\ QuotaReadFirst /\ BarTellsTruth
  BY DEF FramesTrue, JobsMadeOnce, BarTracksOwn, QuotaReadFirst, BarTellsTruth, IdleBar
<1> QED
  BY <1>1, <1>2 DEF PageInv

\* The frames stay typed and bounded, and the ends in them true, whoever appends one.
Frame == [type : {"progress"} \cup Ends, job : Jobs]

LEMMA FrameAppended ==
  ASSUME PageInv, NEW f \in Frame, Len(frame) < FrameQueue, frame' = Append(frame, f),
         job' = job, f.type \in Ends => job[f.job] = f.type
  PROVE  frame' \in Seq(Frame) /\ Len(frame') <= FrameQueue /\ FramesTrue'
<1>1. frame \in Seq(Frame) /\ FrameQueue \in Nat
  BY PageAssumption DEF PageInv, PageTypeOK, Frame
<1>2. frame' \in Seq(Frame) /\ Len(frame') = Len(frame) + 1
  BY <1>1
<1>3. \A k \in 1..Len(frame') : frame'[k] = IF k <= Len(frame) THEN frame[k] ELSE f
  BY <1>1
<1>4. FramesTrue'
  BY <1>1, <1>2, <1>3 DEF FramesTrue, PageInv
<1> QED
  BY <1>1, <1>2, <1>4

LEMMA PageKeeps == PageInv /\ [PageNext]_pageVars => PageInv'
<1> SUFFICES ASSUME PageInv, [PageNext]_pageVars PROVE PageInv'
  OBVIOUS
<1> USE DEF PageInv
<1>0. /\ jar \in Identity /\ quotaCookie \in Identity /\ overtaken \in BOOLEAN
      /\ quotaRead \in {"asked", "read", "failed"}
      /\ stream \in [open : BOOLEAN, identity : Identity]
      /\ post \in [Jobs -> {"unsent", "sent", "made", "refused", "answered", "errored"}]
      /\ owner \in [Jobs -> Identity]
      /\ job \in [Jobs -> {"none", "running"} \cup Ends]
      /\ news \in [Jobs -> {"none", "queued", "lost", "shown", "ignored"}]
      /\ frame \in Seq(Frame) /\ Len(frame) <= FrameQueue
      /\ bar \in [status : {"idle", "generating", "finished", "failed", "timedout"},
                  job : OwnJobs \cup {NoJob}, eta : BOOLEAN]
      /\ pageFaults \in 0..PageFaults
  BY DEF PageTypeOK, Frame
<1>a. PageFault \/ NoPageFault => pageFaults' \in 0..PageFaults
  BY <1>0, PageAssumption DEF PageFault, NoPageFault
<1>b. ASSUME frame' = frame, job' = job
      PROVE  frame' \in Seq(Frame) /\ Len(frame') <= FrameQueue /\ FramesTrue'
  BY <1>0, <1>b DEF FramesTrue
<1>c. UNCHANGED <<post, bar>> => BarTracksOwn'
  BY DEF BarTracksOwn
<1>d. UNCHANGED <<job, bar>> => BarTellsTruth'
  BY DEF BarTellsTruth
<1>e. UNCHANGED <<post, job>> => JobsMadeOnce'
  BY DEF JobsMadeOnce
<1>f. UNCHANGED <<cookies, stream, post, owner>> => QuotaReadFirst'
  BY DEF QuotaReadFirst, cookies
<1>1. CASE UNCHANGED pageVars
  BY <1>1 DEF pageVars, cookies, jobs, PageTypeOK, FramesTrue, JobsMadeOnce, BarTracksOwn,
     QuotaReadFirst, BarTellsTruth
<1>2. CASE QuotaAnswered \/ QuotaFails
  <2>1. UNCHANGED <<stream, post, owner, job, news, frame, bar>>
    BY <1>2 DEF QuotaAnswered, QuotaFails, jobs
  <2>2. PageTypeOK'
    BY <1>0, <1>a, <1>b, <1>2, <2>1 DEF QuotaAnswered, QuotaFails, Stored, PageTypeOK, Frame, Identity
  <2>3. QuotaReadFirst'
    BY <1>0, <1>2, <2>1 DEF QuotaAnswered, QuotaFails, Stored, QuotaReadFirst, Nobody
  <2> QED
    BY <1>b, <1>c, <1>d, <1>e, <2>1, <2>2, <2>3
<1>3. CASE OpenStream \/ BreakStream
  <2>1. /\ UNCHANGED <<jar, quotaRead, quotaCookie, overtaken, post, owner, job, bar>>
        /\ frame' = frame \/ frame' = <<>>
        /\ news' \in [Jobs -> {"none", "queued", "lost", "shown", "ignored"}]
        /\ stream' \in [open : BOOLEAN, identity : Identity]
        /\ pageFaults' \in 0..PageFaults
    <3>1. CASE OpenStream
      BY <1>0, <1>a, <3>1 DEF OpenStream, jobs, cookies
    <3>2. CASE BreakStream
      BY <1>0, <1>a, <3>2 DEF BreakStream, jobs, cookies
    <3> QED
      BY <1>3, <3>1, <3>2
  <2>2. frame' \in Seq(Frame) /\ Len(frame') <= FrameQueue /\ FramesTrue'
    <3>1. CASE frame' = <<>>
      BY <2>1, <3>1, PageAssumption DEF FramesTrue
    <3> QED
      BY <1>b, <2>1, <3>1
  <2>3. PageTypeOK'
    BY <1>0, <2>1, <2>2 DEF PageTypeOK, Frame
  <2>4. QuotaReadFirst'
    BY <1>0, <1>3, <2>1 DEF OpenStream, BreakStream, MayOpen, QuotaReadFirst
  <2> QED
    BY <1>c, <1>d, <1>e, <2>1, <2>2, <2>3, <2>4
<1>4. ASSUME NEW j \in Jobs, Submit(j) PROVE PageInv'
  <2>1. /\ UNCHANGED <<jar, quotaRead, quotaCookie, stream, job, news, frame, bar>>
        /\ post[j] = "unsent" /\ post' = [post EXCEPT ![j] = "sent"]
        /\ owner' = [owner EXCEPT ![j] = Resolved(jar, j)]
        /\ overtaken' = (overtaken \/ quotaRead = "asked")
        /\ pageFaults' \in 0..PageFaults
    BY <1>a, <1>4 DEF Submit
  <2>2. PageTypeOK'
    BY <1>0, <1>b, <2>1 DEF PageTypeOK, Frame, Resolved, Identity
  <2>3. JobsMadeOnce' /\ BarTracksOwn'
    BY <1>0, <2>1 DEF JobsMadeOnce, BarTracksOwn, Jobs
  <2>4. QuotaReadFirst'
    BY <1>0, <2>1 DEF QuotaReadFirst, Resolved, Nobody
  <2> QED
    BY <1>b, <1>d, <2>1, <2>2, <2>3, <2>4
<1>5. ASSUME NEW j \in Jobs, MakeJob(j) PROVE PageInv'
  <2>1. /\ UNCHANGED <<jar, quotaRead, quotaCookie, overtaken, stream, owner, news, frame, bar>>
        /\ post[j] = "sent" /\ post' \in {[post EXCEPT ![j] = "made"], [post EXCEPT ![j] = "refused"]}
        /\ job' = job \/ (job' = [job EXCEPT ![j] = "running"] /\ post' = [post EXCEPT ![j] = "made"])
        /\ pageFaults' \in 0..PageFaults
    BY <1>a, <1>5 DEF MakeJob, cookies
  <2>2. /\ post' \in [Jobs -> {"unsent", "sent", "made", "refused", "answered", "errored"}]
        /\ job' \in [Jobs -> {"none", "running"} \cup Ends]
    BY <1>0, <2>1
  <2>3. PageTypeOK'
    BY <1>0, <2>1, <2>2 DEF PageTypeOK, Frame
  <2>4. job[j] = "none"
    BY <2>1 DEF JobsMadeOnce
  <2>5. \A i \in Jobs : job[i] # "none" => job'[i] = job[i]
    BY <1>0, <2>1, <2>4
  <2>6. FramesTrue'
    <3>1. \A k \in 1..Len(frame) : frame[k] \in Frame
      BY <1>0
    <3> QED
      BY <2>1, <2>5, <3>1 DEF FramesTrue, Frame, Ends
  <2>7. JobsMadeOnce' /\ BarTracksOwn'
    BY <1>0, <2>1 DEF JobsMadeOnce, BarTracksOwn, Jobs
  <2>8. BarTellsTruth'
    BY <1>0, <2>1, <2>5 DEF BarTellsTruth, BarTracksOwn, Jobs
  <2>9. QuotaReadFirst'
    BY <1>0, <2>1 DEF QuotaReadFirst
  <2> QED
    BY <2>3, <2>6, <2>7, <2>8, <2>9
<1>6. ASSUME NEW j \in Jobs, Answer(j) \/ LoseAnswer(j) PROVE PageInv'
  <2>1. /\ UNCHANGED <<quotaRead, quotaCookie, overtaken, stream, owner, job, news, frame>>
        /\ post[j] = "made" /\ post' \in {[post EXCEPT ![j] = "answered"], [post EXCEPT ![j] = "errored"]}
        /\ jar' = jar \/ (jar' = j /\ owner[j] = j)
        /\ bar' = bar \/ (bar' = [status |-> "generating", job |-> j, eta |-> FALSE] /\ j \in OwnJobs)
        /\ pageFaults' \in 0..PageFaults
    BY <1>a, <1>6 DEF Answer, LoseAnswer, cookies, jobs
  <2>2. /\ post' \in [Jobs -> {"unsent", "sent", "made", "refused", "answered", "errored"}]
        /\ jar' \in Identity /\ post'[j] # "unsent"
    BY <1>0, <2>1 DEF Identity
  <2>3. PageTypeOK'
    <3>1. bar' \in [status : {"idle", "generating", "finished", "failed", "timedout"},
                    job : OwnJobs \cup {NoJob}, eta : BOOLEAN]
      <4>1. CASE bar' = bar
        BY <1>0, <4>1
      <4>2. CASE bar' = [status |-> "generating", job |-> j, eta |-> FALSE] /\ j \in OwnJobs
        BY <4>2
      <4> QED
        BY <2>1, <4>1, <4>2
    <3> QED
      BY <1>0, <1>b, <2>1, <2>2, <3>1 DEF PageTypeOK, Frame
  <2>4. JobsMadeOnce' /\ BarTracksOwn' /\ BarTellsTruth'
    BY <1>0, <2>1 DEF JobsMadeOnce, BarTracksOwn, BarTellsTruth, Jobs
  <2>5. QuotaReadFirst'
    BY <1>0, <2>1, PageAssumption DEF QuotaReadFirst
  <2> QED
    BY <1>b, <2>1, <2>3, <2>4, <2>5
<1>7. ASSUME NEW j \in Jobs, Progress(j) PROVE PageInv'
  <2>1. /\ UNCHANGED <<jar, quotaRead, quotaCookie, overtaken, stream, post, owner, job, news, bar>>
        /\ Len(frame) < FrameQueue /\ frame' = Append(frame, [type |-> "progress", job |-> j])
        /\ pageFaults' \in 0..PageFaults
    BY <1>a, <1>7 DEF Progress, HasRoomFor, cookies, jobs
  <2>2. frame' \in Seq(Frame) /\ Len(frame') <= FrameQueue /\ FramesTrue'
    BY <2>1, FrameAppended DEF Frame, Ends
  <2>3. PageTypeOK'
    BY <1>0, <2>1, <2>2 DEF PageTypeOK, Frame
  <2> QED
    BY <1>c, <1>d, <1>e, <1>f, <2>1, <2>2, <2>3 DEF cookies
<1>8. ASSUME NEW j \in Jobs, EndJob(j) PROVE PageInv'
  <2>1. /\ UNCHANGED <<jar, quotaRead, quotaCookie, overtaken, stream, post, owner, news, frame, bar>>
        /\ job[j] = "running" /\ \E end \in Ends : job' = [job EXCEPT ![j] = end]
        /\ pageFaults' \in 0..PageFaults
    BY <1>a, <1>8 DEF EndJob, cookies
  <2>2. /\ job' \in [Jobs -> {"none", "running"} \cup Ends]
        /\ \A i \in Jobs : job[i] \in Ends \cup {"none"} => job'[i] = job[i]
    BY <1>0, <2>1 DEF Ends
  <2>3. PageTypeOK'
    BY <1>0, <2>1, <2>2 DEF PageTypeOK, Frame
  <2>4. FramesTrue'
    <3>1. \A k \in 1..Len(frame) : frame[k] \in Frame
      BY <1>0
    <3> QED
      BY <2>1, <2>2, <3>1 DEF FramesTrue, Frame, Ends
  <2>5. JobsMadeOnce' /\ BarTellsTruth'
    BY <1>0, <2>1, <2>2 DEF JobsMadeOnce, BarTellsTruth, BarTracksOwn, Jobs, Ends
  <2> QED
    BY <1>c, <1>f, <2>1, <2>3, <2>4, <2>5 DEF cookies
<1>9. ASSUME NEW j \in Jobs, PublishEnd(j) PROVE PageInv'
  <2>1. /\ UNCHANGED <<jar, quotaRead, quotaCookie, overtaken, stream, post, owner, job, bar>>
        /\ job[j] \in Ends
        /\ \/ frame' = frame
           \/ Len(frame) < FrameQueue /\ frame' = Append(frame, [type |-> job[j], job |-> j])
        /\ news' \in {[news EXCEPT ![j] = "queued"], [news EXCEPT ![j] = "lost"]}
        /\ pageFaults' \in 0..PageFaults
    BY <1>a, <1>9 DEF PublishEnd, HasRoomFor, cookies, jobs
  <2>2. frame' \in Seq(Frame) /\ Len(frame') <= FrameQueue /\ FramesTrue'
    <3>1. CASE frame' = Append(frame, [type |-> job[j], job |-> j]) /\ Len(frame) < FrameQueue
      BY <2>1, <3>1, FrameAppended DEF Frame
    <3> QED
      BY <1>b, <2>1, <3>1
  <2>3. PageTypeOK'
    BY <1>0, <2>1, <2>2 DEF PageTypeOK, Frame
  <2> QED
    BY <1>c, <1>d, <1>e, <1>f, <2>1, <2>2, <2>3 DEF cookies
<1>10. CASE Deliver
  <2> DEFINE f == Head(frame)
  <2>1. /\ UNCHANGED <<jar, quotaRead, quotaCookie, overtaken, stream, post, owner, job>>
        /\ frame # <<>> /\ frame' = Tail(frame) /\ bar' = Reduced(f)
        /\ news' = IF f.type = "progress" THEN news
                   ELSE [news EXCEPT ![f.job] = IF Generating(f.job) THEN "shown" ELSE "ignored"]
        /\ pageFaults' \in 0..PageFaults
    BY <1>a, <1>10 DEF Deliver, cookies, jobs
  <2>2. /\ f \in Frame /\ f = frame[1] /\ 1 \in 1..Len(frame)
        /\ frame' \in Seq(Frame) /\ Len(frame') = Len(frame) - 1
        /\ \A k \in 1..Len(frame') : frame'[k] = frame[k + 1] /\ k + 1 \in 1..Len(frame)
    BY <1>0, <2>1
  <2>3. Len(frame') <= FrameQueue /\ FramesTrue'
    BY <1>0, <2>1, <2>2, PageAssumption DEF FramesTrue
  <2>4. news' \in [Jobs -> {"none", "queued", "lost", "shown", "ignored"}]
    BY <1>0, <2>1, <2>2 DEF Frame
  <2>5. /\ bar' \in [status : {"idle", "generating", "finished", "failed", "timedout"},
                      job : OwnJobs \cup {NoJob}, eta : BOOLEAN]
        /\ bar'.job = bar.job /\ (bar'.status = "idle" => bar.status = "idle")
        /\ (bar.status = "idle" => bar'.status = "idle")
        /\ (bar'.status = "generating" => bar.status = "generating")
        /\ \/ bar'.status = bar.status
           \/ f.job = bar.job /\ f.type \in Ends /\ bar'.status = StatusOf(f.type)
    BY <1>0, <2>1, <2>2 DEF Reduced, Tracked, Generating, StatusOf, Frame, Ends
  <2>6. PageTypeOK'
    BY <1>0, <2>1, <2>2, <2>3, <2>4, <2>5 DEF PageTypeOK, Frame
  <2>7. BarTracksOwn'
    BY <2>1, <2>5 DEF BarTracksOwn
  <2>8. BarTellsTruth'
    <3>1. f.type \in Ends => job[f.job] = f.type
      BY <2>2 DEF FramesTrue
    <3> QED
      BY <2>1, <2>5, <3>1 DEF BarTellsTruth, StatusOf, Ends
  <2> QED
    BY <1>e, <1>f, <2>1, <2>3, <2>6, <2>7, <2>8 DEF cookies
<1>11. CASE TimerFires
  <2>1. /\ UNCHANGED <<jar, quotaRead, quotaCookie, overtaken, stream, post, owner, job, news, frame>>
        /\ bar.status = "generating" /\ bar' = [bar EXCEPT !.status = "timedout", !.eta = FALSE]
        /\ pageFaults' \in 0..PageFaults
    BY <1>a, <1>11 DEF TimerFires, TimerRuns, cookies, jobs
  <2>2. PageTypeOK' /\ BarTracksOwn' /\ BarTellsTruth'
    BY <1>0, <2>1, <1>b DEF PageTypeOK, Frame, BarTracksOwn, BarTellsTruth
  <2> QED
    BY <1>b, <1>e, <1>f, <2>1, <2>2 DEF cookies
<1> QED
  BY <1>1, <1>2, <1>3, <1>4, <1>5, <1>6, <1>7, <1>8, <1>9, <1>10, <1>11 DEF PageNext

LEMMA PageInvariant == PageSpec => []PageInv
BY PageStarts, PageKeeps, PTL DEF PageSpec

\* The bar never shows one job's end for another's, whatever two tabs create, whatever
\* frames are lost, and whenever the stream breaks.
THEOREM BarTruthful == PageSpec => []BarTellsTruth
<1>1. PageInv => BarTellsTruth
  BY DEF PageInv
<1> QED
  BY <1>1, PageInvariant, PTL

\* Waiting for the quota read before the stream is opened is enough: the page's stream
\* then has the identity under which its jobs are made, however often it reconnects.
THEOREM StreamHears == PageSpec => []StreamHearsOwnJobs
<1>1. PageInv => StreamHearsOwnJobs
  BY DEF PageInv, PageTypeOK, QuotaReadFirst, BarTracksOwn, StreamHearsOwnJobs, Jobs
<1> QED
  BY <1>1, PageInvariant, PTL

-----------------------------------------------------------------------------
(* Drain: every overdue row is polled *)

LEMMA LeastOne ==
  ASSUME NEW S \in SUBSET Nat, S # {}
  PROVE  \E m \in S : \A k \in S : m <= k
<1>1. PICK m \in S : \A k \in S : ~(<<k, m>> \in OpToRel(<, Nat))
  BY NatLessThanWellFounded, WFMin, Zenon
<1>2. \A k \in S : ~(k < m)
  BY <1>1, Zenon DEF OpToRel
<1> QED
  BY <1>2

\* The rows that a batch leaves out are those after as many older ones as it holds.
LEMMA BatchIsFull ==
  ASSUME NEW w \in Drainers, NEW m \in Selectable(w), m \notin Candidates(w),
         \A k \in Selectable(w) \ Candidates(w) : m <= k
  PROVE  /\ {q \in Selectable(w) : q < m} \subseteq Candidates(w)
         /\ IsFiniteSet({q \in Selectable(w) : q < m})
         /\ Cardinality({q \in Selectable(w) : q < m}) >= BatchSize
<1> DEFINE before == {q \in Selectable(w) : q < m}
<1>1. Selectable(w) \subseteq Nat /\ before \subseteq 1..NumRows /\ NumRows \in Nat
  BY DrainAssumption DEF Selectable, WaitingRows
<1>2. before \subseteq Candidates(w)
  <2> SUFFICES ASSUME NEW q \in before, q \notin Candidates(w) PROVE FALSE
    OBVIOUS
  <2>1. q \in Selectable(w) \ Candidates(w) /\ q < m
    OBVIOUS
  <2>2. m <= q /\ q \in Nat /\ m \in Nat
    BY <2>1, <1>1
  <2> QED  BY <2>1, <2>2
<1>3. IsFiniteSet(before) /\ Cardinality(before) \in Nat
  <2>1. IsFiniteSet(1..NumRows)
    BY <1>1, FS_Interval
  <2>2. IsFiniteSet(before)
    BY <1>1, <2>1, FS_Subset
  <2> HIDE DEF before
  <2> QED  BY <2>2, FS_CardinalityType
<1>4. ~(Cardinality(before) < BatchSize)
  BY DEF Candidates
<1>5. Cardinality(before) >= BatchSize
  <2> HIDE DEF before
  <2> QED  BY <1>3, <1>4, DrainAssumption
<1> QED  BY <1>2, <1>3, <1>5

\* A claim that comes back empty leaves an overdue row that it may select only behind
\* a batch of older ones, none of which is due.
LEMMA EmptyClaimHides ==
  ASSUME DrainTypeOK, NEW w \in Drainers, Claimed(w) = {},
         NEW r \in Selectable(w), phase[r] = "overdue"
  PROVE  Cardinality(HiddenBehind(r)) >= BatchSize
<1>1. \A q \in Candidates(w) : phase[q] # "overdue"
  <2> DEFINE due == {q \in Candidates(w) : phase[q] = "overdue"}
  <2> SUFFICES ASSUME due # {} PROVE FALSE
    OBVIOUS
  <2>1. due \in SUBSET Nat
    BY DEF Candidates, Selectable, WaitingRows
  <2>2. PICK m \in due : \A k \in due : m <= k
    BY <2>1, LeastOne
  <2>3. m \in Claimed(w)
    BY <2>2 DEF Claimed
  <2> QED  BY <2>3
<1>2. PICK m \in Selectable(w) \ Candidates(w) :
             \A k \in Selectable(w) \ Candidates(w) : m <= k
  <2>1. Selectable(w) \ Candidates(w) \in SUBSET Nat
    BY DEF Selectable, WaitingRows
  <2>2. Selectable(w) \ Candidates(w) # {}
    BY <1>1
  <2> QED  BY <2>1, <2>2, LeastOne
<1> DEFINE before == {q \in Selectable(w) : q < m}
<1>3. before \subseteq Candidates(w) /\ IsFiniteSet(before) /\ Cardinality(before) >= BatchSize
  BY <1>2, BatchIsFull
<1>4. m <= r /\ m \in Nat /\ r \in Nat /\ r - 1 \in Int
  BY <1>1, <1>2 DEF Selectable, WaitingRows
<1>5. before \subseteq HiddenBehind(r)
  <2> SUFFICES ASSUME NEW q \in before PROVE q \in 1..(r - 1) /\ phase[q] = "fresh"
    BY DEF HiddenBehind
  <2>1. q \in Selectable(w) /\ q < m /\ q \in WaitingRows /\ phase[q] \in {"fresh", "overdue"}
    BY DEF Selectable
  <2>2. phase[q] = "fresh"
    BY <1>1, <1>3, <2>1
  <2>3. q \in 1..(r - 1)
    BY <1>4, <2>1 DEF WaitingRows
  <2> QED  BY <2>2, <2>3
<1>6. IsFiniteSet(HiddenBehind(r))
  <2>1. HiddenBehind(r) \subseteq 1..(r - 1)
    BY DEF HiddenBehind
  <2>2. IsFiniteSet(1..(r - 1))
    BY <1>4, FS_Interval
  <2> QED  BY <2>1, <2>2, FS_Subset
<1>7. Cardinality(before) <= Cardinality(HiddenBehind(r))
      /\ Cardinality(before) \in Nat /\ Cardinality(HiddenBehind(r)) \in Nat
  BY <1>3, <1>5, <1>6, FS_Subset, FS_CardinalityType
<1>8. Cardinality(before) >= BatchSize
  BY <1>3
<1> HIDE DEF before
<1> QED  BY <1>7, <1>8, DrainAssumption

\* Only a worker that polls has a batch locked.
BatchesPolled == \A w \in Drainers : batch[w] # {} => stage[w] = "polling"
DrainInv == DrainTypeOK /\ BatchesPolled

LEMMA DrainStarts == DrainInit => DrainInv
BY DrainAssumption DEF DrainInit, DrainInv, DrainTypeOK, BatchesPolled, NoRow

LEMMA DrainKeeps == DrainInv /\ [DrainNext]_drainVars => DrainInv'
<1> SUFFICES ASSUME DrainInv, [DrainNext]_drainVars PROVE DrainInv'
  OBVIOUS
<1> USE DEF DrainInv, DrainTypeOK, BatchesPolled
<1>1. CASE UNCHANGED drainVars
  BY <1>1 DEF drainVars
<1>2. ASSUME NEW r \in WaitingRows, RowArrives(r) \/ RowFallsDue(r) \/ WebhookTakes(r)
      PROVE  DrainInv'
  BY <1>2 DEF RowArrives, RowFallsDue, WebhookTakes
<1>3. ASSUME NEW w \in Drainers, ClaimRow(w) PROVE DrainInv'
  <2>1. PICK r \in Claimed(w) : /\ polled' = [polled EXCEPT ![w] = r]
                                /\ examined' = [examined EXCEPT ![w] = @ \cup {r}]
    BY <1>3 DEF ClaimRow
  <2>2. r \in WaitingRows /\ Candidates(w) \subseteq WaitingRows
    BY <2>1 DEF Claimed, Candidates, Selectable
  <2> QED
    BY <1>3, <2>1, <2>2 DEF ClaimRow
<1>4. ASSUME NEW w \in Drainers, DrainReturns(w) PROVE DrainInv'
  BY <1>4 DEF DrainReturns
<1>5. ASSUME NEW w \in Drainers, PollRow(w) PROVE DrainInv'
  BY <1>5 DEF PollRow
<1>6. ASSUME NEW w \in Drainers, NextTick(w) PROVE DrainInv'
  BY <1>6 DEF NextTick
<1> QED
  BY <1>1, <1>2, <1>3, <1>4, <1>5, <1>6 DEF DrainNext, DrainStep

LEMMA DrainInvariant == DrainSpec => []DrainInv
BY DrainStarts, DrainKeeps, PTL DEF DrainSpec

\* When the last of any number of workers returns from its drain, every overdue row
\* has been polled by one of them in its tick, or stands behind a whole batch of older
\* rows that are not due: what the others' batches hid from one drain (SKIP LOCKED)
\* another has seen.
THEOREM OverduePolled == DrainSpec => OverdueIsPolled
<1> DEFINE Returned ==
      (\E w \in Drainers : stage[w] # "later") /\ (\A w \in Drainers : stage'[w] = "later")
      => \A r \in WaitingRows :
           phase[r] = "overdue" => \/ \E w \in Drainers : r \in examined[w]
                                  \/ Cardinality(HiddenBehind(r)) >= BatchSize
<1>1. ASSUME DrainInv, [DrainNext]_drainVars PROVE Returned
  <2> SUFFICES ASSUME NEW v \in Drainers, stage[v] # "later",
                      \A w \in Drainers : stage'[w] = "later",
                      NEW r \in WaitingRows, phase[r] = "overdue",
                      \A w \in Drainers : r \notin examined[w]
               PROVE  Cardinality(HiddenBehind(r)) >= BatchSize
    OBVIOUS
  <2>0. stage \in [Drainers -> {"draining", "polling", "later"}]
    BY <1>1 DEF DrainInv, DrainTypeOK
  <2>1. DrainReturns(v)
    <3>1. stage' # stage
      OBVIOUS
    <3>2. \A q \in WaitingRows : ~RowArrives(q) /\ ~RowFallsDue(q) /\ ~WebhookTakes(q)
      BY <3>1 DEF RowArrives, RowFallsDue, WebhookTakes
    <3>3. PICK w \in Drainers : DrainStep(w)
      BY <1>1, <3>1, <3>2 DEF DrainNext, drainVars
    <3>4. DrainReturns(w)
      BY <2>0, <3>3 DEF DrainStep, ClaimRow, PollRow, NextTick
    <3>5. w = v
      BY <2>0, <3>4 DEF DrainReturns
    <3> QED
      BY <3>4, <3>5
  <2>2. \A w \in Drainers : batch[w] = {}
    <3>1. \A w \in Drainers : stage[w] # "polling"
      BY <2>0, <2>1 DEF DrainReturns
    <3> QED
      BY <1>1, <3>1 DEF DrainInv, BatchesPolled
  <2>3. r \in Selectable(v)
    BY <2>2 DEF Selectable, Unlocked
  <2> QED
    BY <1>1, <2>1, <2>3, EmptyClaimHides DEF DrainReturns, DrainInv
<1>2. DrainInv /\ [DrainNext]_drainVars => [Returned]_drainVars
  BY <1>1
<1> QED
  BY <1>2, DrainInvariant, PTL DEF DrainSpec, OverdueIsPolled

-----------------------------------------------------------------------------
(* Types, and the parts side by side *)

(***************************************************************************)
(* The types.  What is published and what a flush is going to emit is a    *)
(* depth: "no depth" only travels with a pointer.                          *)
(***************************************************************************)
DepthsFlow ==
  /\ \A p \in Publishers : publisher[p].pc = "publish" => publisher[p].depth # NoDepth
  /\ coalescer.scheduled => coalescer.pending # NoDepth

DepthTypeInv == DepthTypeOK /\ DepthsFlow

\* Minus one is not a depth, and what GET /queue reads is within the bounds.
LEMMA ReadingsTyped ==
  ASSUME DepthTypeOK
  PROVE  /\ NoDepth \notin Depths /\ Waiting \in Depths
         /\ Snapshot \in [depth : Depths, position : 0..MaxRows]
         /\ Reads \in 0..(2 * MaxRows)
<1> DEFINE e == rows.enqueued
           p == rows.played
<1>1. e \in 0..MaxRows /\ p \in 0..MaxRows /\ e - p >= 0 /\ MaxRows \in Nat
  BY DepthAssumption DEF DepthTypeOK, Waiting
<1>2. Waiting \in Depths /\ NoDepth \notin Depths
  BY <1>1 DEF Waiting, Depths, NoDepth
<1>3. Reads \in 0..(2 * MaxRows)
  BY <1>1 DEF Reads
<1>4. OwnPosition \in 0..MaxRows
  BY <1>1, DepthAssumption DEF OwnPosition
<1> QED
  BY <1>2, <1>3, <1>4 DEF Snapshot

LEMMA NoFetchTyped ==
  ASSUME DepthTypeOK
  PROVE  NoFetch \in [pc : {"idle", "asked", "answered"}, latest : BOOLEAN,
                      answer : [depth : Depths, position : 0..MaxRows],
                      reads : 0..(2 * MaxRows)]
BY DepthAssumption DEF NoFetch, Depths

LEMMA DepthTypesStart == DepthInit => DepthTypeInv
<1> SUFFICES ASSUME DepthInit PROVE DepthTypeInv
  OBVIOUS
<1>1. NoFetch \in [pc : {"idle", "asked", "answered"}, latest : BOOLEAN,
                   answer : [depth : Depths, position : 0..MaxRows], reads : 0..(2 * MaxRows)]
  BY DepthAssumption DEF NoFetch, Depths
<1>2. rows \in [enqueued : 0..MaxRows, played : 0..MaxRows] /\ Waiting >= 0
  BY DepthAssumption DEF DepthInit, Waiting
<1>3. /\ publisher \in [Publishers -> [pc : {"idle", "count", "point", "publish"},
                                       depth : Depths \cup {NoDepth}]]
      /\ coalescer \in [pending : Depths \cup {NoDepth}, scheduled : BOOLEAN, window : BOOLEAN]
      /\ {lastKnown, emitted} \subseteq Depths \cup {NoDepth}
  BY DEF DepthInit, Resting, NewCoalescer
<1>4. depthQueue \in Seq(Depths) /\ Len(depthQueue) <= DepthQueueSize
  BY DepthAssumption DEF DepthInit
<1>5. shown \in [depth : Depths \cup {NoDepth}, position : 0..MaxRows]
  <2>1. 0 \in 0..MaxRows
    BY DepthAssumption
  <2> QED
    BY <2>1 DEF DepthInit
<1>6. tuned \in BOOLEAN
  BY DEF DepthInit
<1>7. /\ jobFrames \in 0..MaxJobFrames /\ refreshed \in 0..(2 * MaxRows)
      /\ depthFaults \in 0..DepthFaults
  BY DepthAssumption DEF DepthInit
<1>8. fetch \in [Fetches -> [pc : {"idle", "asked", "answered"}, latest : BOOLEAN,
                             answer : [depth : Depths, position : 0..MaxRows], reads : 0..(2 * MaxRows)]]
  BY <1>1 DEF DepthInit
<1>9. DepthTypeOK
  BY <1>2, <1>3, <1>4, <1>5, <1>6, <1>7, <1>8 DEF DepthTypeOK
<1> QED
  BY <1>9 DEF DepthTypeInv, DepthsFlow, DepthInit, Resting, NewCoalescer

\* What is handed to the listener is a depth.
LEMMA EmitTyped ==
  ASSUME DepthTypeOK, NEW d \in Depths, Emit(d)
  PROVE  emitted' \in Depths /\ depthQueue' \in Seq(Depths) /\ Len(depthQueue') <= DepthQueueSize
<1>1. depthQueue \in Seq(Depths) /\ Len(depthQueue) \in Nat /\ Len(depthQueue) <= DepthQueueSize
  BY DEF DepthTypeOK
<1>2. CASE depthQueue' = depthQueue
  BY <1>1, <1>2 DEF Emit
<1>3. CASE depthQueue' = Append(depthQueue, d) /\ Len(depthQueue) < DepthQueueSize
  <2>1. depthQueue' \in Seq(Depths) /\ Len(depthQueue') = Len(depthQueue) + 1
    BY <1>1, <1>3
  <2> QED
    BY <1>1, <1>3, <2>1, DepthAssumption DEF Emit
<1> QED
  BY <1>2, <1>3 DEF Emit

RelayTyped ==
  /\ {lastKnown, emitted} \subseteq Depths \cup {NoDepth}
  /\ coalescer \in [pending : Depths \cup {NoDepth}, scheduled : BOOLEAN, window : BOOLEAN]
  /\ depthQueue \in Seq(Depths) /\ Len(depthQueue) <= DepthQueueSize
  /\ coalescer.scheduled => coalescer.pending # NoDepth

LEMMA AcceptTyped ==
  ASSUME DepthTypeInv, NEW d \in Depths, Accept(d)
  PROVE  RelayTyped'
<1>1. /\ coalescer \in [pending : Depths \cup {NoDepth}, scheduled : BOOLEAN, window : BOOLEAN]
      /\ d # NoDepth /\ DepthTypeOK /\ lastKnown' = d /\ emitted \in Depths \cup {NoDepth}
      /\ depthQueue \in Seq(Depths) /\ Len(depthQueue) <= DepthQueueSize
  BY ReadingsTyped DEF DepthTypeInv, DepthTypeOK, Accept
<1>2. CASE coalescer' = Held(d) /\ UNCHANGED <<emitted, depthQueue>>
  BY <1>1, <1>2 DEF Held, RelayTyped
<1>3. CASE coalescer' = Opened /\ Emit(d) /\ ~coalescer.scheduled
  <2>1. coalescer' \in [pending : Depths \cup {NoDepth}, scheduled : BOOLEAN, window : BOOLEAN]
        /\ ~coalescer'.scheduled
    BY <1>1, <1>3 DEF Opened
  <2> QED
    BY <1>1, <1>3, <2>1, EmitTyped DEF RelayTyped
<1>4. CASE coalescer' = Scheduled(d) /\ UNCHANGED <<emitted, depthQueue>>
  BY <1>1, <1>4 DEF Scheduled, RelayTyped
<1> QED
  BY <1>2, <1>3, <1>4 DEF Accept

PageTyped ==
  /\ shown \in [depth : Depths \cup {NoDepth}, position : 0..MaxRows]
  /\ fetch \in [Fetches -> [pc : {"idle", "asked", "answered"}, latest : BOOLEAN,
                            answer : [depth : Depths, position : 0..MaxRows],
                            reads : 0..(2 * MaxRows)]]

LEMMA RefetchTyped ==
  ASSUME DepthTypeOK, Refetch
  PROVE  fetch' \in [Fetches -> [pc : {"idle", "asked", "answered"}, latest : BOOLEAN,
                                 answer : [depth : Depths, position : 0..MaxRows],
                                 reads : 0..(2 * MaxRows)]]
<1> DEFINE F == [pc : {"idle", "asked", "answered"}, latest : BOOLEAN,
                 answer : [depth : Depths, position : 0..MaxRows], reads : 0..(2 * MaxRows)]
<1>1. PICK n \in Fetches : Begin(n)
  BY DEF Refetch
<1>2. NoFetch \in F /\ fetch \in [Fetches -> F]
  BY NoFetchTyped DEF DepthTypeOK
<1>3. [NoFetch EXCEPT !.pc = "asked", !.latest = TRUE] \in F
  BY <1>2
<1>4. \A m \in Fetches : [fetch[m] EXCEPT !.latest = FALSE] \in F
  BY <1>2
<1> QED
  BY <1>1, <1>3, <1>4 DEF Begin

LEMMA SongChangeTyped ==
  ASSUME DepthTypeOK, NEW d \in Depths \cup {NoDepth}, OnSongChange(d)
  PROVE  PageTyped'
<1>1. WithDepth(d) \in [depth : Depths \cup {NoDepth}, position : 0..MaxRows]
  BY DEF WithDepth, DepthTypeOK
<1> QED
  BY <1>1, RefetchTyped DEF OnSongChange, PageTyped, DepthTypeOK

\* One publisher goes on to another step.
LEMMA PublisherTyped ==
  ASSUME DepthTypeInv, NEW p \in Publishers, NEW pc \in {"idle", "count", "point", "publish"},
         NEW d \in Depths \cup {NoDepth}, pc = "publish" => d # NoDepth, PublisherGoto(p, pc, d)
  PROVE  /\ publisher' \in [Publishers -> [pc : {"idle", "count", "point", "publish"},
                                           depth : Depths \cup {NoDepth}]]
         /\ \A q \in Publishers : publisher'[q].pc = "publish" => publisher'[q].depth # NoDepth
<1>1. publisher \in [Publishers -> [pc : {"idle", "count", "point", "publish"},
                                    depth : Depths \cup {NoDepth}]]
  BY DEF DepthTypeInv, DepthTypeOK
<1>2. publisher' = [publisher EXCEPT ![p] = [pc |-> pc, depth |-> d]]
  BY DEF PublisherGoto
<1>3. ASSUME NEW q \in Publishers, publisher'[q].pc = "publish"
      PROVE  publisher'[q].depth # NoDepth
  <2>1. CASE q = p
    BY <1>1, <1>2, <1>3, <2>1
  <2>2. CASE q # p
    BY <1>1, <1>2, <1>3, <2>2 DEF DepthTypeInv, DepthsFlow
  <2> QED
    BY <2>1, <2>2
<1> QED
  BY <1>1, <1>2, <1>3

RowsTyped ==
  /\ rows \in [enqueued : 0..MaxRows, played : 0..MaxRows] /\ Waiting >= 0
  /\ publisher \in [Publishers -> [pc : {"idle", "count", "point", "publish"},
                                   depth : Depths \cup {NoDepth}]]
  /\ \A p \in Publishers : publisher[p].pc = "publish" => publisher[p].depth # NoDepth

RestTyped ==
  /\ tuned \in BOOLEAN
  /\ jobFrames \in 0..MaxJobFrames /\ refreshed \in 0..(2 * MaxRows)
  /\ depthFaults \in 0..DepthFaults

LEMMA DepthTypeParts == DepthTypeInv <=> RowsTyped /\ RelayTyped /\ PageTyped /\ RestTyped
BY DEF DepthTypeInv, DepthTypeOK, DepthsFlow, RowsTyped, RelayTyped, PageTyped, RestTyped

LEMMA RowsKeepTypes ==
  ASSUME DepthTypeInv, [DepthNext]_depthVars
  PROVE  RowsTyped'
<1>0. RowsTyped /\ DepthTypeOK
  BY DepthTypeParts DEF DepthTypeInv
<1>1. CASE UNCHANGED <<rows, publisher>>
  BY <1>0, <1>1 DEF RowsTyped, Waiting
<1>2. ASSUME UNCHANGED rows, NEW p \in Publishers, NEW pc \in {"idle", "count", "point", "publish"},
             NEW d \in Depths \cup {NoDepth}, pc = "publish" => d # NoDepth,
             PublisherGoto(p, pc, d)
      PROVE  RowsTyped'
  BY <1>0, <1>2, PublisherTyped DEF RowsTyped, Waiting
<1>3. {"ingest", "coordinator", "watchdog"} \subseteq Publishers /\ NoDepth \in Depths \cup {NoDepth}
  BY DEF Publishers
<1>4. CASE EnqueueRow
  <2>1. rows' \in [enqueued : 0..MaxRows, played : 0..MaxRows] /\ Waiting' >= 0
    BY <1>0, <1>4, DepthAssumption DEF EnqueueRow, RowsTyped, Waiting
  <2> QED
    BY <1>3, <1>4, <2>1, PublisherTyped DEF EnqueueRow, RowsTyped
<1>5. CASE PlayRow
  <2>1. rows' \in [enqueued : 0..MaxRows, played : 0..MaxRows] /\ Waiting' >= 0
    BY <1>0, <1>5, DepthAssumption DEF PlayRow, RowsTyped, Waiting
  <2> QED
    BY <1>3, <1>5, <2>1, PublisherTyped DEF PlayRow, RowsTyped
<1>6. CASE PlayStatic \/ Tick
  BY <1>2, <1>3, <1>6 DEF PlayStatic, Tick
<1>7. ASSUME NEW p \in Publishers, Count(p) PROVE RowsTyped'
  <2>1. Waiting \in Depths /\ NoDepth \notin Depths /\ AfterCount(p) \in {"point", "publish"}
    BY <1>0, ReadingsTyped DEF AfterCount
  <2> QED
    BY <1>2, <1>7, <2>1 DEF Count
<1>8. ASSUME NEW p \in Publishers, PublishDepth(p) PROVE RowsTyped'
  BY <1>2, <1>3, <1>8 DEF PublishDepth
<1>9. CASE PublishPointerDepth
  <2> DEFINE d == publisher["coordinator"].depth
  <2>1. /\ d \in Depths \cup {NoDepth} /\ AfterPoint(d) \in {"idle", "publish"}
        /\ AfterPoint(d) = "publish" => d # NoDepth
    BY <1>0, <1>3 DEF RowsTyped, AfterPoint
  <2>2. PublisherGoto("coordinator", AfterPoint(d), d) /\ UNCHANGED rows
    BY <1>9 DEF PublishPointerDepth
  <2> HIDE DEF d
  <2> QED
    BY <1>2, <1>3, <2>1, <2>2
<1> QED
  BY <1>1, <1>4, <1>5, <1>6, <1>7, <1>8, <1>9 DEF DepthNext, depthVars, WindowEnds, Flush, TuneIn,
     SendDepth, HeartbeatFrame, OnOwnJob, TuneOut, ServeQueue, ApplyQueue, FailQueue

LEMMA RelayKeepsTypes ==
  ASSUME DepthTypeInv, [DepthNext]_depthVars
  PROVE  RelayTyped'
<1>0. RelayTyped /\ DepthTypeOK
  BY DepthTypeParts DEF DepthTypeInv
<1>1. CASE UNCHANGED <<relay, depthQueue>>
  BY <1>0, <1>1 DEF RelayTyped, relay
<1>2. ASSUME NEW p \in Publishers, PublishDepth(p) PROVE RelayTyped'
  <2>1. publisher[p].depth \in Depths
    BY <1>2 DEF PublishDepth, PublisherAt, DepthTypeInv, DepthTypeOK, DepthsFlow
  <2> QED
    BY <1>1, <1>2, <2>1, AcceptTyped DEF PublishDepth
<1>3. CASE WindowEnds
  BY <1>0, <1>3 DEF WindowEnds, RelayTyped, frames
<1>4. CASE Flush
  <2>1. coalescer.pending \in Depths
    BY <1>0, <1>4 DEF Flush, RelayTyped
  <2>2. Emit(coalescer.pending) /\ coalescer' = Flushed /\ lastKnown' = lastKnown
    BY <1>4 DEF Flush
  <2> QED
    BY <1>0, <2>1, <2>2, EmitTyped DEF RelayTyped, Flushed
<1>5. CASE SendDepth
  <2>1. depthQueue \in Seq(Depths) /\ depthQueue # <<>> /\ depthQueue' = Tail(depthQueue)
    BY <1>0, <1>5 DEF SendDepth, RelayTyped
  <2>2. depthQueue' \in Seq(Depths) /\ Len(depthQueue') = Len(depthQueue) - 1
    BY <2>1
  <2>3. Len(depthQueue') <= DepthQueueSize
    BY <1>0, <2>1, <2>2, DepthAssumption DEF RelayTyped
  <2> QED
    BY <1>0, <1>5, <2>2, <2>3 DEF SendDepth, RelayTyped, relay
<1>6. CASE TuneOut
  <2>1. depthQueue' \in Seq(Depths) /\ Len(depthQueue') <= DepthQueueSize
    BY <1>6, DepthAssumption DEF TuneOut
  <2>2. CASE UNCHANGED relay
    BY <1>0, <2>1, <2>2 DEF RelayTyped, relay
  <2>3. CASE lastKnown' = NoDepth /\ coalescer' = NewCoalescer /\ emitted' = NoDepth
    BY <2>1, <2>3 DEF RelayTyped, NewCoalescer
  <2> QED
    BY <1>6, <2>2, <2>3 DEF TuneOut
<1> QED
  BY <1>1, <1>2, <1>3, <1>4, <1>5, <1>6 DEF DepthNext, depthVars, frames, EnqueueRow, PlayRow, PlayStatic,
     Tick, Count, PublishPointerDepth, TuneIn, HeartbeatFrame, OnOwnJob, ServeQueue, ApplyQueue,
     FailQueue

LEMMA PageKeepsTypes ==
  ASSUME DepthTypeInv, [DepthNext]_depthVars
  PROVE  PageTyped' /\ refreshed' \in 0..(2 * MaxRows)
<1> DEFINE F == [pc : {"idle", "asked", "answered"}, latest : BOOLEAN,
                 answer : [depth : Depths, position : 0..MaxRows], reads : 0..(2 * MaxRows)]
<1>0. /\ PageTyped /\ DepthTypeOK /\ RowsTyped /\ RelayTyped /\ refreshed \in 0..(2 * MaxRows)
      /\ fetch \in [Fetches -> F] /\ NoFetch \in F
      /\ shown \in [depth : Depths \cup {NoDepth}, position : 0..MaxRows]
  BY DepthTypeParts, NoFetchTyped DEF DepthTypeInv, DepthTypeOK
<1>1. CASE UNCHANGED page
  BY <1>0, <1>1 DEF PageTyped, page
<1>2. ASSUME NEW d \in Depths \cup {NoDepth}, OnSongChange(d)
      PROVE  PageTyped' /\ refreshed' \in 0..(2 * MaxRows)
  BY <1>0, <1>2, SongChangeTyped DEF OnSongChange
<1>3. CASE PublishPointerDepth
  <2>1. publisher["coordinator"].depth \in Depths \cup {NoDepth}
    BY <1>0 DEF RowsTyped, Publishers
  <2> QED
    BY <1>1, <1>2, <1>3, <2>1 DEF PublishPointerDepth
<1>4. CASE TuneIn
  <2>1. lastKnown \in Depths \cup {NoDepth}
    BY <1>0 DEF RelayTyped
  <2> QED
    BY <1>2, <1>4, <2>1 DEF TuneIn
<1>5. CASE HeartbeatFrame
  BY <1>2, <1>5 DEF HeartbeatFrame
<1>6. CASE OnOwnJob
  BY <1>0, <1>6, RefetchTyped DEF OnOwnJob, PageTyped
<1>7. CASE SendDepth
  <2>1. depthQueue \in Seq(Depths) /\ depthQueue # <<>>
    BY <1>0, <1>7 DEF SendDepth, RelayTyped
  <2>2. Head(depthQueue) \in Depths
    BY <2>1
  <2> QED
    BY <1>0, <1>7, <2>2 DEF SendDepth, WithDepth, PageTyped
<1>8. ASSUME NEW n \in Fetches, ServeQueue(n)
      PROVE  PageTyped' /\ refreshed' \in 0..(2 * MaxRows)
  <2>1. Snapshot \in [depth : Depths, position : 0..MaxRows] /\ Reads \in 0..(2 * MaxRows)
    BY <1>0, ReadingsTyped
  <2>2. [fetch[n] EXCEPT !.pc = "answered", !.answer = Snapshot, !.reads = Reads] \in F
    BY <1>0, <2>1
  <2>3. fetch' \in [Fetches -> F]
    BY <1>0, <1>8, <2>2 DEF ServeQueue
  <2> QED
    BY <1>0, <1>8, <2>3 DEF ServeQueue, PageTyped
<1>9. ASSUME NEW n \in Fetches, ApplyQueue(n) \/ FailQueue(n)
      PROVE  PageTyped' /\ refreshed' \in 0..(2 * MaxRows)
  <2>1. fetch' = [fetch EXCEPT ![n] = NoFetch]
    BY <1>9 DEF ApplyQueue, FailQueue
  <2>2. fetch' \in [Fetches -> F]
    BY <1>0, <2>1
  <2>3. fetch[n].answer \in [depth : Depths, position : 0..MaxRows] /\ fetch[n].reads \in 0..(2 * MaxRows)
    BY <1>0
  <2>4. \/ UNCHANGED <<shown, refreshed>>
        \/ shown' = fetch[n].answer /\ refreshed' = fetch[n].reads
    BY <1>9 DEF ApplyQueue, FailQueue
  <2> QED
    BY <1>0, <2>2, <2>3, <2>4 DEF PageTyped
<1> QED
  BY <1>1, <1>3, <1>4, <1>5, <1>6, <1>7, <1>8, <1>9 DEF DepthNext, depthVars, EnqueueRow, PlayRow, PlayStatic,
     Tick, Count, PublishDepth, WindowEnds, Flush, TuneOut

LEMMA DepthTypesKeep == DepthTypeInv /\ [DepthNext]_depthVars => DepthTypeInv'
<1> SUFFICES ASSUME DepthTypeInv, [DepthNext]_depthVars PROVE DepthTypeInv'
  OBVIOUS
<1>1. RestTyped
  BY DepthTypeParts
<1>2. tuned' \in BOOLEAN /\ jobFrames' \in 0..MaxJobFrames
  <2>1. tuned' \in {tuned, TRUE, FALSE}
    BY DEF DepthNext, depthVars, frames, EnqueueRow, PlayRow, PlayStatic,
       Tick, Count, PublishDepth, PublishPointerDepth, OnSongChange, WindowEnds, Flush, TuneIn,
       SendDepth, HeartbeatFrame, OnOwnJob, ServeQueue, ApplyQueue, FailQueue, TuneOut
  <2>2. jobFrames' = jobFrames \/ (jobFrames < MaxJobFrames /\ jobFrames' = jobFrames + 1)
    BY DEF DepthNext, depthVars, page, EnqueueRow, PlayRow, PlayStatic,
       Tick, Count, PublishDepth, PublishPointerDepth, OnSongChange, WindowEnds, Flush, TuneIn,
       SendDepth, HeartbeatFrame, OnOwnJob, ServeQueue, ApplyQueue, FailQueue, TuneOut
  <2>3. tuned' \in BOOLEAN
    BY <1>1, <2>1 DEF RestTyped
  <2>4. jobFrames' \in 0..MaxJobFrames
    BY <1>1, <2>2, DepthAssumption DEF RestTyped
  <2> QED
    BY <2>3, <2>4
<1>3. depthFaults' \in 0..DepthFaults
  <2>1. depthFaults' = depthFaults \/ (depthFaults < DepthFaults /\ depthFaults' = depthFaults + 1)
    BY DEF DepthNext, depthVars, EnqueueRow, PlayRow, PlayStatic, Tick, Count, PublishDepth,
       PublishPointerDepth, WindowEnds, Flush, TuneIn, SendDepth, HeartbeatFrame, OnOwnJob,
       ServeQueue, ApplyQueue, FailQueue, TuneOut, DepthFault, NoDepthFault
  <2> QED
    BY <1>1, <2>1, DepthAssumption DEF RestTyped
<1>4. RestTyped'
  BY <1>2, <1>3, PageKeepsTypes DEF RestTyped
<1>5. DepthTypeInv' <=> RowsTyped' /\ RelayTyped' /\ PageTyped' /\ RestTyped'
  BY DepthTypeParts, PTL
<1> QED
  BY <1>4, <1>5, RowsKeepTypes, RelayKeepsTypes, PageKeepsTypes

\* The variables of the queue's depth keep their types: the listener's queue stays within
\* its bound (_QUEUE_MAXSIZE) however fast depths come, no more rows are played than were
\* enqueued, and a frame of that queue always carries a depth.
THEOREM DepthTypesHold == DepthSpec => []DepthTypeOK
<1>1. DepthTypeInv => DepthTypeOK
  BY DEF DepthTypeInv
<1> QED
  BY <1>1, DepthTypesStart, DepthTypesKeep, PTL DEF DepthSpec

-----------------------------------------------------------------------------
(* The types of the fan-out *)

(***************************************************************************)
(* What is published is the pointer that was committed: a version, never   *)
(* "no pointer".                                                           *)
(***************************************************************************)
PublishesVersions ==
  \A w \in Writers : writing[w].step # "idle" => writing[w].version \in Versions
FanoutTypeInv == FanoutTypeOK /\ PublishesVersions

ReaderPCs == {"idle", "redis", "from_redis", "postgres", "from_postgres", "write_back",
              "written", "answered"}
ReaderState == [pc : ReaderPCs, version : Pointers]
CacheEntry == [version : Pointers, fresh : BOOLEAN]
WriterState == [step : {"idle", "set", "publish"}, version : Pointers]

\* The three groups of variables that a step changes together.
SourceTyped ==
  /\ pg \in Pointers /\ redis \in Pointers
  /\ writing \in [Writers -> WriterState] /\ PublishesVersions
  /\ newest \in Pointers /\ late \subseteq Versions
  /\ feed \in Seq(Versions) /\ fanoutFaults \in 0..FanoutFaults
ReadersTyped == cache \in CacheEntry /\ reader \in [Readers -> ReaderState]
ListenersTyped ==
  /\ connected \in [Clients -> BOOLEAN] /\ queue \in [Clients -> Seq(Versions)]
  /\ \A c \in Clients : Len(queue[c]) <= QueueSize
  /\ current \in [Clients -> Pointers] /\ pushed \in [Clients -> BOOLEAN]
  /\ airing \in [Clients -> Pointers] /\ audible \in [Clients -> BOOLEAN]
  /\ missed \in [Clients -> BOOLEAN]

LEMMA FanoutTypeParts == FanoutTypeInv <=> SourceTyped /\ ReadersTyped /\ ListenersTyped
BY DEF FanoutTypeInv, FanoutTypeOK, SourceTyped, ReadersTyped, ListenersTyped, CacheEntry,
   ReaderState, ReaderPCs, WriterState

LEMMA FanoutTypesStart == FanoutInit => FanoutTypeInv
<1> SUFFICES ASSUME FanoutInit PROVE FanoutTypeInv
  OBVIOUS
<1>1. NoPointer \in Pointers /\ 0 \in 0..FanoutFaults /\ QueueSize \in Nat
  BY FanoutAssumption DEF Pointers
<1>2. SourceTyped
  BY <1>1 DEF FanoutInit, SourceTyped, PublishesVersions, NotWriting, WriterState
<1>3. ReadersTyped
  BY <1>1 DEF FanoutInit, ReadersTyped, CacheEntry, ReaderState, ReaderPCs, Idle
<1>4. /\ queue \in [Clients -> Seq(Versions)] /\ \A c \in Clients : Len(queue[c]) <= QueueSize
  BY <1>1 DEF FanoutInit
<1>5. ListenersTyped
  BY <1>1, <1>4 DEF FanoutInit, ListenersTyped
<1> QED
  BY <1>2, <1>3, <1>5, FanoutTypeParts

LEMMA SourceKeepsTypes ==
  ASSUME FanoutTypeInv, [FanoutNext]_fanoutVars
  PROVE  SourceTyped'
<1>0. /\ SourceTyped /\ reader \in [Readers -> ReaderState]
      /\ NoPointer \in Pointers /\ Versions \subseteq Pointers
  BY FanoutTypeParts DEF ReadersTyped, Pointers
<1>1. fanoutFaults' \in 0..FanoutFaults
  <2>1. \/ fanoutFaults' = fanoutFaults
        \/ fanoutFaults < FanoutFaults /\ fanoutFaults' = fanoutFaults + 1
    BY DEF FanoutNext, fanoutVars, Advance, SetPointer, PublishPointer, FailToWrite, LoseRedis,
       Relay, CacheExpires, ReaderNext, AskRedis, FromRedis, AskPostgres, FromPostgres,
       WriteBack, Written, Connect, Stream, Heartbeat, Disconnect, Ended, Refetched,
       NoFanoutFault, FanoutFault, CanFailFanout
  <2> QED
    BY <1>0, <2>1, FanoutAssumption DEF SourceTyped
<1>2. CASE UNCHANGED <<pointers, feed>>
  BY <1>0, <1>1, <1>2 DEF SourceTyped, PublishesVersions, pointers, published
<1>3. NotWriting \in WriterState /\ NotWriting.step = "idle"
  BY <1>0 DEF NotWriting, WriterState
<1>4. ASSUME NEW w \in Writers, NEW x \in WriterState, x.step # "idle" => x.version \in Versions,
             writing' = [writing EXCEPT ![w] = x],
             pg' \in Pointers, redis' \in Pointers, newest' \in Pointers,
             late' \subseteq Versions, feed' \in Seq(Versions)
      PROVE  SourceTyped'
  <2>1. \A u \in Writers : writing'[u] = IF u = w THEN x ELSE writing[u]
    BY <1>0, <1>4 DEF SourceTyped
  <2>2. PublishesVersions'
    BY <1>0, <1>4, <2>1 DEF SourceTyped, PublishesVersions
  <2>3. writing' \in [Writers -> WriterState]
    BY <1>0, <1>4 DEF SourceTyped
  <2> QED
    BY <1>1, <1>4, <2>2, <2>3 DEF SourceTyped
<1>5. ASSUME NEW w \in Writers, Advance(w) \/ SetPointer(w) \/ PublishPointer(w) \/ FailToWrite(w)
      PROVE  SourceTyped'
  <2>0. /\ pg \in Pointers /\ redis \in Pointers /\ newest \in Pointers
        /\ late \subseteq Versions /\ feed \in Seq(Versions) /\ writing[w] \in WriterState
        /\ writing[w].step # "idle" => writing[w].version \in Versions
    BY <1>0 DEF SourceTyped, PublishesVersions
  <2>1. CASE Advance(w)
    <3>1. pg \in 0..MaxVersion
      BY <2>0, FanoutAssumption DEF Pointers, Versions, NoPointer
    <3>2. pg + 1 \in Versions
      BY <2>1, <3>1, FanoutAssumption DEF Advance, Versions
    <3>3. [step |-> "set", version |-> pg + 1] \in WriterState
      BY <1>0, <3>2 DEF WriterState
    <3> QED
      BY <1>0, <1>4, <2>0, <2>1, <3>2, <3>3 DEF Advance, published
  <2>2. CASE SetPointer(w)
    <3> DEFINE x == [writing[w] EXCEPT !.step = "publish"]
    <3>1. x \in WriterState /\ x.version \in Versions
      BY <2>0, <2>2 DEF SetPointer, WriterState
    <3>2. writing' = [writing EXCEPT ![w] = x]
      BY <2>2 DEF SetPointer
    <3>3. writing[w].version \in Pointers
      BY <2>0 DEF WriterState
    <3> HIDE DEF x
    <3> QED
      BY <1>4, <2>0, <2>2, <3>1, <3>2, <3>3 DEF SetPointer, published
  <2>3. CASE PublishPointer(w)
    <3>1. writing[w].version \in Versions
      BY <2>0, <2>3 DEF PublishPointer
    <3>2. feed' \in Seq(Versions)
      BY <2>0, <2>3, <3>1 DEF PublishPointer
    <3>3. newest' \in Pointers /\ late' \subseteq Versions
      BY <1>0, <2>0, <2>3, <3>1 DEF PublishPointer
    <3> QED
      BY <1>3, <1>4, <2>0, <2>3, <3>2, <3>3 DEF PublishPointer
  <2>4. CASE FailToWrite(w)
    BY <1>3, <1>4, <2>0, <2>4 DEF FailToWrite, published
  <2> QED
    BY <1>5, <2>1, <2>2, <2>3, <2>4
<1>7. CASE LoseRedis
  BY <1>0, <1>1, <1>7 DEF LoseRedis, SourceTyped, PublishesVersions, published
<1>8. CASE Relay
  <2>1. feed' \in Seq(Versions)
    BY <1>0, <1>8 DEF Relay, SourceTyped
  <2> QED
    BY <1>0, <1>1, <1>8, <2>1 DEF Relay, pointers, published, SourceTyped, PublishesVersions
<1>9. ASSUME NEW x \in Readers, WriteBack(x) PROVE SourceTyped'
  <2>1. reader[x].version \in Pointers
    BY <1>0 DEF ReaderState
  <2> QED
    BY <1>0, <1>1, <1>9, <2>1 DEF WriteBack, SourceTyped, PublishesVersions, published
<1> QED
  BY <1>2, <1>5, <1>7, <1>8, <1>9 DEF FanoutNext, fanoutVars, CacheExpires,
     ReaderNext, AskRedis, FromRedis, AskPostgres, FromPostgres, Written, Connect, Stream,
     Heartbeat, Disconnect, Ended, Refetched

\* A reader goes on, and so do the listener's stream and player with what it found.
LEMMA ReaderGotoTyped ==
  ASSUME FanoutTypeInv, NEW x \in Readers, NEW pc \in ReaderPCs, NEW v \in Pointers,
         ReaderGoto(x, pc, v)
  PROVE  reader' \in [Readers -> ReaderState]
<1>1. reader \in [Readers -> ReaderState] /\ [pc |-> pc, version |-> v] \in ReaderState
  BY FanoutTypeParts DEF ReadersTyped, ReaderState
<1> QED
  BY <1>1 DEF ReaderGoto

LEMMA ApplyTyped ==
  ASSUME FanoutTypeInv, NEW c \in Clients, NEW v \in Pointers, Apply(c, v)
  PROVE  airing' \in [Clients -> Pointers] /\ audible' \in [Clients -> BOOLEAN]
<1>1. airing \in [Clients -> Pointers] /\ audible \in [Clients -> BOOLEAN]
  BY FanoutTypeParts DEF ListenersTyped
<1> QED
  BY <1>1 DEF Apply

LEMMA ResolveTyped ==
  ASSUME FanoutTypeInv, NEW x \in Readers, NEW v \in Pointers, Resolve(x, v)
  PROVE  reader' \in [Readers -> ReaderState] /\ ListenersTyped'
<1>0. /\ ListenersTyped /\ reader \in [Readers -> ReaderState] /\ x[1] \in Clients
  BY FanoutTypeParts DEF ReadersTyped, Readers
<1>1. CASE x[2] = "events" /\ reader' = [reader EXCEPT ![x] = Idle]
           /\ connected' = [connected EXCEPT ![x[1]] = TRUE]
           /\ current' = [current EXCEPT ![x[1]] = v]
           /\ Apply(x[1], v) /\ UNCHANGED <<queue, pushed, missed>>
  <2>1. Idle \in ReaderState
    BY DEF Idle, ReaderState, ReaderPCs, Pointers
  <2>2. reader' \in [Readers -> ReaderState]
    BY <1>0, <1>1, <2>1
  <2>3. airing' \in [Clients -> Pointers] /\ audible' \in [Clients -> BOOLEAN]
    BY <1>0, <1>1, ApplyTyped
  <2> QED
    BY <1>0, <1>1, <2>2, <2>3 DEF ListenersTyped
<1>2. CASE ReaderGoto(x, "answered", v) /\ UNCHANGED <<streams, airing, audible>>
  BY <1>0, <1>2, ReaderGotoTyped DEF ReaderPCs, ListenersTyped, streams
<1> QED
  BY <1>1, <1>2 DEF Resolve

LEMMA ReadersKeepTypes ==
  ASSUME FanoutTypeInv, NEW x \in Readers, ReaderNext(x)
  PROVE  ReadersTyped' /\ ListenersTyped'
<1>0. /\ SourceTyped /\ ReadersTyped /\ ListenersTyped
      /\ reader[x].version \in Pointers /\ NoPointer \in Pointers
      /\ cache \in CacheEntry /\ pg \in Pointers /\ redis \in Pointers
  BY FanoutTypeParts DEF SourceTyped, ReadersTyped, ReaderState, Pointers
<1>1. \A v \in Pointers : Cached(v) \in CacheEntry
  BY DEF Cached, CacheEntry
<1>2. CASE UNCHANGED <<streams, player>>
  <2>1. ListenersTyped'
    BY <1>0, <1>2 DEF ListenersTyped, streams, player
  <2>2. CASE AskRedis(x) \/ AskPostgres(x) \/ WriteBack(x)
    BY <1>0, <2>1, <2>2, ReaderGotoTyped DEF AskRedis, AskPostgres, WriteBack, ReaderPCs,
       ReadersTyped
  <2> QED
    BY <1>2, <2>1, <2>2, <1>0, <1>1, ResolveTyped, ReaderGotoTyped
       DEF ReaderNext, FromRedis, FromPostgres, Written, ReaderPCs, ReadersTyped
<1>3. CASE FromRedis(x)
  BY <1>0, <1>1, <1>3, ResolveTyped DEF FromRedis, ReadersTyped
<1>4. CASE FromPostgres(x)
  <2>1. CASE Resolve(x, NoPointer) /\ UNCHANGED cache
    BY <1>0, <2>1, ResolveTyped DEF ReadersTyped
  <2>2. CASE /\ cache' = Cached(reader[x].version)
             /\ ReaderGoto(x, "write_back", reader[x].version)
             /\ UNCHANGED <<streams, player>>
    BY <1>0, <1>1, <2>2, ReaderGotoTyped DEF ReaderPCs, ReadersTyped, ListenersTyped, streams,
       player
  <2> QED
    BY <1>4, <2>1, <2>2 DEF FromPostgres
<1>5. CASE Written(x)
  BY <1>0, <1>5, ResolveTyped DEF Written, ReadersTyped
<1> QED
  BY <1>2, <1>3, <1>4, <1>5 DEF ReaderNext, AskRedis, AskPostgres, WriteBack

\* The relay and the streams hand on versions, one at a time and within the bound.
LEMMA ListenersKeepTypes ==
  ASSUME FanoutTypeInv, [FanoutNext]_fanoutVars, \A x \in Readers : ~ReaderNext(x)
  PROVE  ReadersTyped' /\ ListenersTyped'
<1>0. /\ SourceTyped /\ ReadersTyped /\ ListenersTyped
      /\ NoPointer \in Pointers /\ Versions \subseteq Pointers
      /\ cache \in CacheEntry /\ reader \in [Readers -> ReaderState]
      /\ QueueSize \in Nat \ {0}
      /\ \A c \in Clients : \A r \in Routes : <<c, r>> \in Readers
  BY FanoutTypeParts, FanoutAssumption DEF ReadersTyped, Pointers, Readers
<1>1. CASE UNCHANGED <<cache, reader, streams, player>>
  BY <1>0, <1>1 DEF ReadersTyped, ListenersTyped, streams, player
<1>2. CASE LoseRedis \/ \E w \in Writers : FailToWrite(w)
  <2>1. MissedByAll /\ UNCHANGED <<cache, reader, connected, queue, current, pushed, player>>
    BY <1>2 DEF FailToWrite, LoseRedis
  <2>2. missed' \in [Clients -> BOOLEAN]
    BY <2>1 DEF MissedByAll
  <2> QED
    BY <1>0, <2>1, <2>2 DEF ReadersTyped, ListenersTyped, player
<1>3. CASE Relay
  <2>1. Head(feed) \in Versions
    BY <1>0, <1>3 DEF Relay, SourceTyped
  <2>2. ASSUME NEW c \in Clients
        PROVE  Enqueued(c, Head(feed)) \in Seq(Versions) /\ Len(Enqueued(c, Head(feed))) <= QueueSize
    <3>1. queue[c] \in Seq(Versions) /\ Len(queue[c]) <= QueueSize
      BY <1>0 DEF ListenersTyped
    <3>2. CASE connected[c] /\ Len(queue[c]) < QueueSize
      <4>1. /\ Append(queue[c], Head(feed)) \in Seq(Versions)
            /\ Len(Append(queue[c], Head(feed))) = Len(queue[c]) + 1
        BY <2>1, <3>1
      <4> QED
        BY <1>0, <3>1, <3>2, <4>1 DEF Enqueued
    <3> QED
      BY <3>1, <3>2 DEF Enqueued
  <2>3. queue' \in [Clients -> Seq(Versions)] /\ \A c \in Clients : Len(queue'[c]) <= QueueSize
    BY <1>3, <2>2 DEF Relay
  <2>4. missed' \in [Clients -> BOOLEAN]
    BY <1>3 DEF Relay
  <2>5. cache' \in CacheEntry
    BY <1>0, <1>3, <2>1 DEF Relay, Cached, CacheEntry
  <2> QED
    BY <1>0, <1>3, <2>3, <2>4, <2>5 DEF Relay, ReadersTyped, ListenersTyped, player
<1>4. CASE CacheExpires
  <2>1. cache' \in CacheEntry
    BY <1>0, <1>4 DEF CacheExpires, CacheEntry
  <2> QED
    BY <1>0, <1>4, <2>1 DEF CacheExpires, ReadersTyped, ListenersTyped, streams, player
<1>5. ASSUME NEW c \in Clients, Connect(c) PROVE ReadersTyped' /\ ListenersTyped'
  <2>1. <<c, "events">> \in Readers /\ cache.version \in Pointers
    BY <1>0 DEF Routes, CacheEntry
  <2>2. CASE Resolve(<<c, "events">>, cache.version)
    BY <1>0, <1>5, <2>1, <2>2, ResolveTyped DEF Connect, ReadersTyped
  <2>3. CASE ReaderGoto(<<c, "events">>, "redis", NoPointer) /\ UNCHANGED <<streams, player>>
    BY <1>0, <1>5, <2>1, <2>3, ReaderGotoTyped DEF Connect, ReaderPCs, ReadersTyped,
       ListenersTyped, streams, player
  <2> QED
    BY <1>5, <2>2, <2>3 DEF Connect
<1>6. ASSUME NEW c \in Clients, Stream(c) PROVE ReadersTyped' /\ ListenersTyped'
  <2>1. queue[c] \in Seq(Versions) /\ queue[c] # <<>> /\ Len(queue[c]) <= QueueSize
    BY <1>0, <1>6 DEF Stream, ListenersTyped
  <2>2. /\ Head(queue[c]) \in Versions /\ Tail(queue[c]) \in Seq(Versions)
        /\ Len(Tail(queue[c])) = Len(queue[c]) - 1
    BY <2>1
  <2>3. queue' \in [Clients -> Seq(Versions)] /\ \A e \in Clients : Len(queue'[e]) <= QueueSize
    BY <1>0, <1>6, <2>1, <2>2 DEF Stream, ListenersTyped
  <2>4. airing' \in [Clients -> Pointers] /\ audible' \in [Clients -> BOOLEAN]
    BY <1>0, <1>6, <2>2, ApplyTyped DEF Stream
  <2>5. current' \in [Clients -> Pointers] /\ pushed' \in [Clients -> BOOLEAN]
    BY <1>0, <1>6, <2>2 DEF Stream, ListenersTyped
  <2> QED
    BY <1>0, <1>6, <2>3, <2>4, <2>5 DEF Stream, ReadersTyped, ListenersTyped
<1>7. ASSUME NEW c \in Clients, Heartbeat(c) PROVE ReadersTyped' /\ ListenersTyped'
  <2>1. current[c] \in Pointers
    BY <1>0 DEF ListenersTyped
  <2>2. airing' \in [Clients -> Pointers] /\ audible' \in [Clients -> BOOLEAN]
    BY <1>7, <2>1, ApplyTyped DEF Heartbeat
  <2> QED
    BY <1>0, <1>7, <2>2 DEF Heartbeat, ReadersTyped, ListenersTyped, streams
<1>8. ASSUME NEW c \in Clients, Disconnect(c) PROVE ReadersTyped' /\ ListenersTyped'
  <2>1. queue' \in [Clients -> Seq(Versions)] /\ \A e \in Clients : Len(queue'[e]) <= QueueSize
    BY <1>0, <1>8 DEF Disconnect, ListenersTyped
  <2>2. /\ connected' \in [Clients -> BOOLEAN] /\ current' \in [Clients -> Pointers]
        /\ pushed' \in [Clients -> BOOLEAN] /\ missed' \in [Clients -> BOOLEAN]
    BY <1>0, <1>8 DEF Disconnect, ListenersTyped
  <2> QED
    BY <1>0, <1>8, <2>1, <2>2 DEF Disconnect, ReadersTyped, ListenersTyped, player
<1>9. ASSUME NEW c \in Clients, Ended(c) PROVE ReadersTyped' /\ ListenersTyped'
  <2>1. <<c, "now_playing">> \in Readers /\ cache.version \in Pointers
    BY <1>0 DEF Routes, CacheEntry
  <2>2. reader' \in [Readers -> ReaderState]
    BY <1>0, <1>9, <2>1, ReaderGotoTyped DEF Ended, ReaderPCs
  <2>3. audible' \in [Clients -> BOOLEAN]
    BY <1>0, <1>9 DEF Ended, ListenersTyped
  <2> QED
    BY <1>0, <1>9, <2>2, <2>3 DEF Ended, ReadersTyped, ListenersTyped, streams
<1>10. ASSUME NEW c \in Clients, Refetched(c) PROVE ReadersTyped' /\ ListenersTyped'
  <2> DEFINE x == <<c, "now_playing">>
  <2>1. x \in Readers
    BY <1>0 DEF Routes
  <2>2. reader[x].version \in Pointers /\ Idle \in ReaderState
    BY <1>0, <2>1 DEF ReaderState, ReaderPCs, Idle
  <2>3. reader' \in [Readers -> ReaderState]
    BY <1>0, <1>10, <2>2 DEF Refetched
  <2>4. airing' \in [Clients -> Pointers] /\ audible' \in [Clients -> BOOLEAN]
    BY <1>10, <2>2, ApplyTyped DEF Refetched
  <2> QED
    BY <1>0, <1>10, <2>3, <2>4 DEF Refetched, ReadersTyped, ListenersTyped, streams
<1> QED
  BY <1>1, <1>2, <1>3, <1>4, <1>5, <1>6, <1>7, <1>8, <1>9, <1>10
     DEF FanoutNext, fanoutVars, Advance, SetPointer, PublishPointer

LEMMA FanoutTypesKeep == FanoutTypeInv /\ [FanoutNext]_fanoutVars => FanoutTypeInv'
<1> SUFFICES ASSUME FanoutTypeInv, [FanoutNext]_fanoutVars PROVE FanoutTypeInv'
  OBVIOUS
<1>1. SourceTyped' /\ ReadersTyped' /\ ListenersTyped'
  BY SourceKeepsTypes, ReadersKeepTypes, ListenersKeepTypes
<1>2. FanoutTypeInv' <=> SourceTyped' /\ ReadersTyped' /\ ListenersTyped'
  BY FanoutTypeParts, PTL
<1> QED
  BY <1>1, <1>2

-----------------------------------------------------------------------------
(* The parts beside each other *)

\* In the composition every part behaves as it does alone.
LEMMA PartsAlone ==
  WebSpec => /\ QuotaSpec /\ FanoutSpec /\ PageSpec /\ PlayerSpec /\ DrainSpec
<1>1. WebInit => QuotaInit /\ FanoutInit /\ PageInit /\ PlayerInit /\ DrainInit
  BY DEF WebInit
<1>2. [WebNext]_webVars =>
        /\ [QuotaNext]_quotaVars /\ [FanoutNext]_fanoutVars
        /\ [PageNext]_pageVars /\ [PlayerNext]_playerVars /\ [DrainNext]_drainVars
  BY DEF WebNext, webVars
<1> QED
  BY <1>1, <1>2, PTL DEF WebSpec, QuotaSpec, FanoutSpec, PageSpec, PlayerSpec, DrainSpec

\* Every variable around the pipeline keeps its type: the counters of the quota
\* never fall below zero, no queue grows beyond its bound, and every event, answer and
\* counter in flight is a version or a frame that exists.
THEOREM WebTypesHold == WebSpec => []WebTypeOK
<1>1. QuotaSpec => []QuotaTypeOK
  <2>1. HandlersInv => QuotaTypeOK
    BY DEF HandlersInv
  <2> QED
    BY <2>1, HandlersStart, HandlersKeep, PTL DEF QuotaSpec
<1>2. FanoutSpec => []FanoutTypeOK
  <2>1. FanoutTypeInv => FanoutTypeOK
    BY DEF FanoutTypeInv
  <2> QED
    BY <2>1, FanoutTypesStart, FanoutTypesKeep, PTL DEF FanoutSpec
<1>3. PageSpec => []PageTypeOK
  <2>1. PageInv => PageTypeOK
    BY DEF PageInv
  <2> QED
    BY <2>1, PageInvariant, PTL
<1>4. PlayerSpec => []PlayerTypeOK
  <2>1. PlayerInv => PlayerTypeOK
    BY DEF PlayerInv
  <2> QED
    BY <2>1, PlayerStarts, PlayerTypesKeep, PTL DEF PlayerSpec
<1>5. DrainSpec => []DrainTypeOK
  <2>1. DrainInv => DrainTypeOK
    BY DEF DrainInv
  <2> QED
    BY <2>1, DrainInvariant, PTL
<1>6. QuotaTypeOK /\ FanoutTypeOK /\ PageTypeOK /\ PlayerTypeOK /\ DrainTypeOK
        => WebTypeOK
  BY DEF WebTypeOK
<1> QED
  BY <1>1, <1>2, <1>3, <1>4, <1>5, <1>6, PartsAlone, PTL

\* Side by side the parts keep every promise that each keeps alone: nothing one of them
\* does reaches another's state.
THEOREM WebIsSafe ==
  WebSpec =>
    /\ [](/\ CountersMatchJobs /\ NoSlotWithoutJob /\ OverAdmissionBounded
          /\ BarTellsTruth /\ StreamHearsOwnJobs /\ PlaysTheFeed)
    /\ StreamMovesForward /\ OverdueIsPolled
BY PartsAlone, CountersMatch, SlotsHaveJobs, OverAdmission, StreamNeverGoesBack,
   BarTruthful, StreamHears, ListenerHearsTheFeed, OverduePolled, PTL
=============================================================================

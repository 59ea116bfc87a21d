------------------------------- MODULE Player -------------------------------
(***************************************************************************)
(* The page's audio (app/Player.tsx over lib/sync.ts, fed by lib/radio.ts):*)
(* two <audio> buffers of which one is active, the pointer the page holds, *)
(* the local play/pause intent, and the crossfade of an interrupt, which   *)
(* pauses the buffer it faded out when it is done, whatever it plays then. *)
(*                                                                         *)
(* Playbacks are numbered as the station airs them; 0 is the idle station. *)
(* Positions and volumes are left out.                                     *)
(***************************************************************************)
EXTENDS Integers

CONSTANTS
  MaxPlayback,   \* bound: the playbacks of the station
  MaxRamps       \* bound: the outgoing ramps of one buffer that run at a time

ASSUME PlayerAssumption == MaxPlayback \in Nat /\ MaxRamps \in Nat

VARIABLES
  air,        \* the playback the station airs
  past,       \* the playbacks whose song has played out by the server's clock
  feedState,       \* RadioApp's feed.state, the `nowPlaying` of the player
  answers,    \* the answers to the re-fetch of `ended` that are on their way
  src,        \* src[b]: the playback buffer b has loaded
  playing,    \* playing[b]: buffer b is neither paused nor at its end
  active,     \* activeBufferRef
  prev,       \* prevPlaybackIdRef and prevPointerRef
  listening,  \* userPlayingRef
  ramps,      \* ramps[b]: the outgoing ramps of b that have not called onDone
  silenced    \* history: the end of a ramp paused the active buffer in its song

buffers == <<src, playing, active, ramps, silenced>>
playerVars == <<air, past, feedState, answers, prev, listening, buffers>>

Quiet == 0
Playbacks == 1..MaxPlayback
Buffers == {"a", "b"}

\* nextPreloadSlot
Other(b) == IF b = "a" THEN "b" ELSE "a"

PlayerInit ==
  /\ air = Quiet /\ past = {} /\ feedState = Quiet /\ answers = {}
  /\ src = [b \in Buffers |-> Quiet]
  /\ playing = [b \in Buffers |-> FALSE]
  /\ active = "a" /\ prev = Quiet /\ listening = FALSE
  /\ ramps = [b \in Buffers |-> 0] /\ silenced = FALSE

PlayerTypeOK ==
  /\ air \in 0..MaxPlayback /\ past \subseteq 1..air
  /\ {feedState, prev} \cup answers \subseteq Playbacks \cup {Quiet}
  /\ src \in [Buffers -> Playbacks \cup {Quiet}] /\ playing \in [Buffers -> BOOLEAN]
  /\ active \in Buffers /\ listening \in BOOLEAN
  /\ ramps \in [Buffers -> 0..MaxRamps] /\ silenced \in BOOLEAN

(***************************************************************************)
(* The station and its clock.                                              *)
(***************************************************************************)
\* At a boundary, or as an interrupt.
Airs ==
  /\ air < MaxPlayback
  /\ air' = air + 1
  /\ UNCHANGED <<past, feedState, answers, prev, listening, buffers>>

PlaysOut(p) ==
  /\ p \in 1..air /\ p \notin past
  /\ past' = past \cup {p}
  /\ UNCHANGED <<air, feedState, answers, prev, listening, buffers>>

(***************************************************************************)
(* applyPlaying.                                                           *)
(***************************************************************************)
\* isInterruptArrival: the outgoing song has time left, and somebody listens.
Crossfades == listening /\ prev # Quiet /\ prev \notin past

\* The outgoing buffer starts a ramp, in a crossfade.
StartsRamp ==
  IF Crossfades
  THEN ramps[active] < MaxRamps /\ ramps' = [ramps EXCEPT ![active] = @ + 1]
  ELSE UNCHANGED ramps

\* Mutated: the buffers change places only for somebody who listens.
LoadIfListening(p) ==
  /\ src' = [src EXCEPT ![Other(active)] = p]
  /\ playing' = [playing EXCEPT ![Other(active)] = listening,
                                ![active] = @ /\ (listening => Crossfades)]
  /\ StartsRamp /\ silenced' = FALSE
  /\ active' = IF listening THEN Other(active) ELSE active

\* The inactive buffer takes the new song and becomes the active one, with no look at
\* a ramp that still runs on it; the outgoing one is paused at a cut, and left to its
\* ramp in a crossfade.
Load(p) ==
  /\ src' = [src EXCEPT ![Other(active)] = p]
  /\ playing' = [playing EXCEPT ![Other(active)] = listening,
                                ![active] = @ /\ (listening => Crossfades)]
  /\ StartsRamp /\ silenced' = FALSE
  /\ active' = Other(active)

\* The effect of Player on a new feed state (reduceFeed): idle forgets the pointer,
\* a re-send of the same playback changes nothing (shouldReanchorOnPointer).
Feed(p) ==
  /\ feedState' = p /\ prev' = p
  /\ IF p \in {Quiet, prev} THEN UNCHANGED buffers ELSE Load(p)

\* A frame of GET /events: the push of a song change, a heartbeat, a reconnect.
FrameArrives ==
  /\ Feed(air)
  /\ UNCHANGED <<air, past, answers, listening>>

\* onRefetched, perhaps after a frame that overtook it.
AnswerArrives ==
  /\ \E p \in answers : Feed(p) /\ answers' = answers \ {p}
  /\ UNCHANGED <<air, past, listening>>

(***************************************************************************)
(* The buffers' own events, and the button.                                *)
(***************************************************************************)
\* handleEnded: the active buffer's end asks GET /now-playing, whose cache may be one
\* playback behind; the request may fail.
SongEnds(b) ==
  /\ playing[b] /\ src[b] \in past
  /\ playing' = [playing EXCEPT ![b] = FALSE]
  /\ answers' \in IF b = active THEN {answers, answers \cup {air}, answers \cup {air - 1}}
                  ELSE {answers}
  /\ UNCHANGED <<air, past, feedState, src, active, prev, listening, ramps, silenced>>

\* rampVolume's onDone, whatever the buffer plays by then.
FadeEnds(b) ==
  /\ ramps[b] > 0
  /\ ramps' = [ramps EXCEPT ![b] = @ - 1]
  /\ playing' = [playing EXCEPT ![b] = FALSE]
  /\ silenced' = (silenced \/ (b = active /\ playing[b]))
  /\ UNCHANGED <<air, past, feedState, answers, src, active, prev, listening>>

\* handleToggle: the button does nothing while the station is idle; a pause stops
\* both buffers; Play starts the active one, at the offset of the live song.
Toggle ==
  /\ feedState # Quiet
  /\ playing' = IF listening THEN [b \in Buffers |-> FALSE]
                ELSE [playing EXCEPT ![active] = TRUE]
  /\ listening' = ~listening /\ silenced' = FALSE
  /\ UNCHANGED <<air, past, feedState, answers, src, active, prev, ramps>>

PlayerNext ==
  \/ Airs \/ FrameArrives \/ AnswerArrives \/ Toggle
  \/ \E p \in Playbacks : PlaysOut(p)
  \/ \E b \in Buffers : SongEnds(b) \/ FadeEnds(b)

PlayerSpec == PlayerInit /\ [][PlayerNext]_playerVars

(***************************************************************************)
(* Properties.                                                             *)
(***************************************************************************)
\* Whoever listens hears the song the page shows, from the active buffer, unless the
\* end of an earlier crossfade has paused it (two song changes within one crossfade;
\* Play, or the next song, starts it again); the other buffer plays only until it has
\* faded out; whoever does not listen hears nothing; and the active buffer holds the
\* song a Play would start (Player.tsx: pauses, frames sent again, interrupts,
\* boundaries and late answers in any order).
PlaysTheFeed ==
  /\ feedState # Quiet => src[active] = feedState
  /\ listening /\ feedState \notin past \cup {Quiet} => playing[active] \/ silenced
  /\ playing[Other(active)] => ramps[Other(active)] > 0
  /\ ~listening => \A b \in Buffers : ~playing[b]
=============================================================================

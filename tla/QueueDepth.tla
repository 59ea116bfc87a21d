----------------------------- MODULE QueueDepth -----------------------------
(***************************************************************************)
(* The "N waiting" line of a listener.  The ingest loop, the coordinator   *)
(* and the watchdog count the waiting rows of playback_queue and publish   *)
(* the count (radio/queue_depth.py); a web instance's relay coalesces what *)
(* it hears and puts it into a bounded queue, from which GET /events sends *)
(* queue-depth frames; song-change frames carry the depth of the last      *)
(* advance; the page (lib/queue.ts) shows what it is sent and reads GET    *)
(* /queue for the place of its own song.                                   *)
(*                                                                         *)
(* One listener of one instance, who owns row OwnRow: listeners share the  *)
(* coalescer and nothing else.  Redis subscriptions are FIFO, and the time *)
(* a message spends in one is no different from a later publication: the   *)
(* relay takes a message in the step that publishes it.  How the pointer   *)
(* of a song-change frame travels is module PointerFanout's subject.       *)
(***************************************************************************)
EXTENDS Integers, Sequences, FiniteSets

CONSTANTS
  MaxRows,         \* bound: the rows enqueued in a run
  OwnRow,          \* the row of the listener's own song
  DepthQueueSize,  \* _QUEUE_MAXSIZE, plus the frame whose get() is pending
  MaxFetches,      \* bound: GET /queue requests of the page in flight
  MaxJobFrames,    \* bound: job-progress and job-ready frames of the listener
  DepthFaults      \* bound: failed counts, publications and requests, restarts

ASSUME DepthAssumption ==
  /\ MaxRows \in Nat /\ OwnRow \in Nat \ {0} /\ DepthQueueSize \in Nat \ {0}
  /\ MaxFetches \in Nat \ {0}
  /\ MaxJobFrames \in Nat /\ DepthFaults \in Nat

VARIABLES
  rows,        \* playback_queue: rows enqueued and rows played so far
  publisher,   \* publisher[p]: where p is, and the depth it counted
  lastKnown,   \* QueueDepthBroadcaster._last_known_depth
  coalescer,   \* _Coalescer: pending, flush scheduled, inside the window
  depthQueue,  \* the listener's depth queue
  tuned,       \* the listener's stream is registered
  shown,       \* the page's queue state: depth and own position
  fetch,       \* fetch[n]: a GET /queue of the page
  jobFrames,   \* the frames of its own jobs the page has had
  emitted,     \* history: the last depth the instance handed to _emit
  refreshed,   \* history: the row count the last applied answer was read at
  depthFaults

relay == <<lastKnown, coalescer, emitted>>
frames == <<depthQueue, tuned>>
page == <<shown, fetch, jobFrames, refreshed>>
depthVars == <<rows, publisher, relay, frames, page, depthFaults>>

NoDepth == -1
Depths == 0..MaxRows
Fetches == 1..MaxFetches
Publishers == {"ingest", "coordinator", "watchdog"}

DepthFault == depthFaults < DepthFaults /\ depthFaults' = depthFaults + 1
NoDepthFault == UNCHANGED depthFaults

\* count_waiting_depth, and the rank get_queue_status gives the caller's row.
Waiting == rows.enqueued - rows.played
OwnPosition == IF OwnRow \in (rows.played + 1)..rows.enqueued
               THEN OwnRow - rows.played ELSE 0
Snapshot == [depth |-> Waiting, position |-> OwnPosition]
Reads == rows.enqueued + rows.played

Resting == [pc |-> "idle", depth |-> NoDepth]
NoFetch == [pc |-> "idle", latest |-> FALSE, answer |-> [depth |-> 0, position |-> 0],
            reads |-> 0]
NewCoalescer == [pending |-> NoDepth, scheduled |-> FALSE, window |-> FALSE]

DepthInit ==
  /\ rows = [enqueued |-> 0, played |-> 0]
  /\ publisher = [p \in Publishers |-> Resting]
  /\ lastKnown = NoDepth /\ coalescer = NewCoalescer
  /\ depthQueue = <<>> /\ tuned = FALSE
  /\ shown = [depth |-> NoDepth, position |-> 0]
  /\ fetch = [n \in Fetches |-> NoFetch]
  /\ jobFrames = 0 /\ emitted = NoDepth /\ refreshed = 0
  /\ depthFaults = 0

(***************************************************************************)
(* The three publishers: change the queue, count it, publish the count.    *)
(* The steps are awaits, so counts of two publishers can cross.            *)
(***************************************************************************)
PublisherAt(p, pc) == publisher[p].pc = pc
PublisherGoto(p, pc, d) == publisher' = [publisher EXCEPT ![p] = [pc |-> pc, depth |-> d]]

\* _finalize_ready has committed the row of a READY job.
EnqueueRow ==
  /\ PublisherAt("ingest", "idle") /\ rows.enqueued < MaxRows
  /\ rows' = [rows EXCEPT !.enqueued = @ + 1]
  /\ PublisherGoto("ingest", "count", NoDepth)
  /\ NoDepthFault
  /\ UNCHANGED <<relay, frames, page>>

\* advance has committed the pop of the oldest waiting row.
PlayRow ==
  /\ PublisherAt("coordinator", "idle") /\ Waiting > 0
  /\ rows' = [rows EXCEPT !.played = @ + 1]
  /\ PublisherGoto("coordinator", "count", NoDepth)
  /\ NoDepthFault
  /\ UNCHANGED <<relay, frames, page>>

\* No row waits: a filler was started, at a boundary or first of all, and the pointer
\* goes out with a count as well.
PlayStatic ==
  /\ PublisherAt("coordinator", "idle") /\ Waiting = 0
  /\ PublisherGoto("coordinator", "count", NoDepth)
  /\ NoDepthFault
  /\ UNCHANGED <<rows, relay, frames, page>>

\* _safe_reconcile_queue_depth begins every watchdog tick.
Tick ==
  /\ PublisherAt("watchdog", "idle")
  /\ PublisherGoto("watchdog", "count", NoDepth)
  /\ NoDepthFault
  /\ UNCHANGED <<rows, relay, frames, page>>

AfterCount(p) == IF p = "coordinator" THEN "point" ELSE "publish"

\* A failed count ends the publication, except of the pointer, which goes out
\* without a depth.
Count(p) ==
  /\ PublisherAt(p, "count")
  /\ \/ PublisherGoto(p, AfterCount(p), Waiting) /\ NoDepthFault
     \/ p = "coordinator" /\ PublisherGoto(p, "point", NoDepth) /\ DepthFault
     \/ p # "coordinator" /\ PublisherGoto(p, "idle", NoDepth) /\ DepthFault
  /\ UNCHANGED <<rows, relay, frames, page>>

(***************************************************************************)
(* The relay and its coalescer.                                            *)
(***************************************************************************)
\* Mutated: a queue without a bound; a depth that is not repeated.
EmitUnbounded(d) ==
  /\ emitted' = d
  /\ depthQueue' = IF tuned THEN Append(depthQueue, d) ELSE depthQueue
EmitChanges(d) ==
  /\ emitted' = d
  /\ depthQueue' = IF tuned /\ Len(depthQueue) < DepthQueueSize /\ d # emitted
                   THEN Append(depthQueue, d) ELSE depthQueue

\* _emit: the frame is dropped for a listener whose queue is full.
Emit(d) ==
  /\ emitted' = d
  /\ depthQueue' = IF tuned /\ Len(depthQueue) < DepthQueueSize
                   THEN Append(depthQueue, d) ELSE depthQueue

\* Mutated: the value that scheduled the flush is the one it emits.
HeldFirst(d) == coalescer

\* _Coalescer.offer while a flush is scheduled, and while none is.
Held(d) == [coalescer EXCEPT !.pending = d]
Scheduled(d) == [coalescer EXCEPT !.pending = d, !.scheduled = TRUE]
Opened == [coalescer EXCEPT !.pending = NoDepth, !.window = TRUE]

\* _accept.
Accept(d) ==
  /\ lastKnown' = d
  /\ \/ /\ coalescer.scheduled
        /\ coalescer' = Held(d)
        /\ UNCHANGED <<emitted, depthQueue>>
     \/ /\ ~coalescer.scheduled /\ ~coalescer.window
        /\ coalescer' = Opened
        /\ Emit(d)
     \/ /\ ~coalescer.scheduled /\ coalescer.window
        /\ coalescer' = Scheduled(d)
        /\ UNCHANGED <<emitted, depthQueue>>

\* safe_publish_queue_depth: the relay takes the message, or Redis loses it.
PublishDepth(p) ==
  /\ PublisherAt(p, "publish")
  /\ \/ Accept(publisher[p].depth) /\ NoDepthFault
     \/ DepthFault /\ UNCHANGED <<relay, depthQueue>>
  /\ PublisherGoto(p, "idle", NoDepth)
  /\ UNCHANGED <<rows, tuned, page>>

\* coalesce_seconds have passed since the last emit.
WindowEnds ==
  /\ coalescer.window
  /\ coalescer' = [coalescer EXCEPT !.window = FALSE]
  /\ NoDepthFault
  /\ UNCHANGED <<rows, publisher, lastKnown, emitted, frames, page>>

Flushed == [pending |-> NoDepth, scheduled |-> FALSE, window |-> TRUE]

\* _scheduled_flush.
Flush ==
  /\ coalescer.scheduled /\ ~coalescer.window
  /\ coalescer' = Flushed
  /\ Emit(coalescer.pending)
  /\ NoDepthFault
  /\ UNCHANGED <<rows, publisher, lastKnown, tuned, page>>

(***************************************************************************)
(* The page.                                                               *)
(***************************************************************************)
\* onDepth: a frame without a depth keeps the last one.
WithDepth(d) == IF d = NoDepth THEN shown ELSE [shown EXCEPT !.depth = d]

\* refreshQueue: queueGuard.begin() makes every earlier request stale.
Begin(n) ==
  fetch' = [m \in Fetches |-> IF m = n THEN [NoFetch EXCEPT !.pc = "asked", !.latest = TRUE]
                                       ELSE [fetch[m] EXCEPT !.latest = FALSE]]
Free(n) == fetch[n].pc = "idle"
Refetch == \E n \in Fetches : /\ Free(n) /\ \A m \in Fetches : Free(m) => n <= m
                              /\ Begin(n)

HasPosition == shown.position # 0

\* onSongChange.
OnSongChange(d) ==
  /\ shown' = WithDepth(d)
  /\ IF HasPosition THEN Refetch ELSE UNCHANGED fetch
  /\ UNCHANGED <<jobFrames, refreshed>>

AfterPoint(d) == IF d = NoDepth THEN "idle" ELSE "publish"

\* The pointer goes out, and with it a song-change frame for the listener, unless
\* Redis fails or the listener's queue is full.
PublishPointerDepth ==
  LET d == publisher["coordinator"].depth
  IN  /\ PublisherAt("coordinator", "point")
      /\ \/ tuned /\ OnSongChange(d) /\ NoDepthFault
         \/ ~tuned /\ NoDepthFault /\ UNCHANGED page
         \/ DepthFault /\ UNCHANGED page
      /\ PublisherGoto("coordinator", AfterPoint(d), d)
      /\ UNCHANGED <<rows, relay, frames>>

\* The listener's own job-progress or job-ready.
OnOwnJob ==
  /\ tuned /\ jobFrames < MaxJobFrames
  /\ jobFrames' = jobFrames + 1
  /\ Refetch
  /\ NoDepthFault
  /\ UNCHANGED <<rows, publisher, relay, frames, shown, refreshed>>

\* The connect frame: the freshest depth, else that of the pointer the cache
\* holds, counted at some advance, or none when it came from Postgres.
TuneIn ==
  /\ ~tuned
  /\ tuned' = TRUE
  /\ IF lastKnown # NoDepth THEN OnSongChange(lastKnown)
     ELSE \E d \in Depths \cup {NoDepth} : OnSongChange(d)
  /\ NoDepthFault
  /\ UNCHANGED <<rows, publisher, relay, depthQueue>>

SendDepth ==
  /\ depthQueue # <<>>
  /\ depthQueue' = Tail(depthQueue)
  /\ shown' = WithDepth(Head(depthQueue))
  /\ NoDepthFault
  /\ UNCHANGED <<rows, publisher, relay, tuned, fetch,
                 jobFrames, refreshed>>

\* A heartbeat repeats the pointer without its depth.  It comes after an idle
\* period, within which a request of the page is taken to be answered.
HeartbeatFrame ==
  /\ tuned /\ depthQueue = <<>>
  /\ \A n \in Fetches : Free(n)
  /\ OnSongChange(NoDepth)
  /\ NoDepthFault
  /\ UNCHANGED <<rows, publisher, relay, frames>>

\* GET /queue: depth and positions come from one statement.
ServeQueue(n) ==
  /\ fetch[n].pc = "asked"
  /\ fetch' = [fetch EXCEPT ![n] = [@ EXCEPT !.pc = "answered", !.answer = Snapshot,
                                             !.reads = Reads]]
  /\ NoDepthFault
  /\ UNCHANGED <<rows, publisher, relay, frames, shown, jobFrames,
                 refreshed>>

\* Mutated: every answer counts.
IsCurrentAlways(n) == TRUE

IsCurrent(n) == fetch[n].latest

ApplyQueue(n) ==
  /\ fetch[n].pc = "answered"
  /\ IF IsCurrent(n)
     THEN shown' = fetch[n].answer /\ refreshed' = fetch[n].reads
     ELSE UNCHANGED <<shown, refreshed>>
  /\ UNCHANGED jobFrames
  /\ fetch' = [fetch EXCEPT ![n] = NoFetch]
  /\ NoDepthFault
  /\ UNCHANGED <<rows, publisher, relay, frames>>

\* The proxy answers 503: the page keeps what it shows.
FailQueue(n) ==
  /\ fetch[n].pc \in {"asked", "answered"}
  /\ fetch' = [fetch EXCEPT ![n] = NoFetch]
  /\ DepthFault
  /\ UNCHANGED <<rows, publisher, relay, frames, shown, jobFrames,
                 refreshed>>

\* The stream breaks, or the whole instance restarts with a new coalescer.
TuneOut ==
  /\ tuned
  /\ tuned' = FALSE
  /\ depthQueue' = <<>>
  /\ \/ UNCHANGED relay
     \/ lastKnown' = NoDepth /\ coalescer' = NewCoalescer /\ emitted' = NoDepth
  /\ DepthFault
  /\ UNCHANGED <<rows, publisher, page>>

DepthNext ==
  \/ EnqueueRow \/ PlayRow \/ PlayStatic \/ Tick \/ PublishPointerDepth
  \/ \E p \in Publishers : Count(p) \/ PublishDepth(p)
  \/ WindowEnds \/ Flush
  \/ TuneIn \/ SendDepth \/ HeartbeatFrame \/ OnOwnJob \/ TuneOut
  \/ \E n \in Fetches : ServeQueue(n) \/ ApplyQueue(n) \/ FailQueue(n)

DepthSpec == DepthInit /\ [][DepthNext]_depthVars

\* The watchdog ticks and gets on, timers fire, and the stream is resumed and
\* connected again.  Nothing is asked of the other publishers and of GET /queue.
DepthFairness ==
  /\ WF_depthVars(Tick) /\ WF_depthVars(Count("watchdog") \/ PublishDepth("watchdog"))
  /\ WF_depthVars(WindowEnds) /\ WF_depthVars(Flush)
  /\ WF_depthVars(TuneIn) /\ WF_depthVars(SendDepth)

FairDepthSpec == DepthSpec /\ DepthFairness

(***************************************************************************)
(* Properties.                                                             *)
(***************************************************************************)
DepthTypeOK ==
  /\ rows \in [enqueued : 0..MaxRows, played : 0..MaxRows] /\ Waiting >= 0
  /\ publisher \in [Publishers -> [pc : {"idle", "count", "point", "publish"},
                                   depth : Depths \cup {NoDepth}]]
  /\ {lastKnown, emitted} \subseteq Depths \cup {NoDepth}
  /\ coalescer \in [pending : Depths \cup {NoDepth}, scheduled : BOOLEAN, window : BOOLEAN]
  /\ depthQueue \in Seq(Depths) /\ Len(depthQueue) <= DepthQueueSize
  /\ tuned \in BOOLEAN
  /\ shown \in [depth : Depths \cup {NoDepth}, position : 0..MaxRows]
  /\ fetch \in [Fetches -> [pc : {"idle", "asked", "answered"}, latest : BOOLEAN,
                            answer : [depth : Depths, position : 0..MaxRows],
                            reads : 0..(2 * MaxRows)]]
  /\ jobFrames \in 0..MaxJobFrames /\ refreshed \in 0..(2 * MaxRows)
  /\ depthFaults \in 0..DepthFaults

\* Coalescing drops values and never the last one: what the instance knows has
\* been handed to the listeners, or a scheduled flush is going to hand out
\* exactly that, whatever came while the flush was waiting.
LastDepthSurvives ==
  lastKnown # emitted =>
    coalescer.scheduled /\ coalescer.pending = lastKnown

\* What GET /queue answers is applied in the order in which the queue was read,
\* however the requests overtake each other.
RefreshesInOrder == [][refreshed' >= refreshed]_depthVars

\* Crossed counts, lost publications, full queues, restarts and slow answers are
\* all made good by the watchdog's tick: the listener's count is right in the end.
DepthHeals == <>[](tuned => shown.depth = Waiting)
=============================================================================

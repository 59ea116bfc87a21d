# SongForge: TLA+ verification

SongForge is a radio station whose listeners commission songs. A create request
becomes a row of the `jobs` table; worker loops take the row through an external
generation API, a webhook and an ingest into object storage; the finished song
joins a queue, and a radio coordinator airs that queue to everyone; web instances
push what is on to the listeners' pages. This directory holds TLA+ modules
translated from `src/backend/src/songforge` and `src/frontend`, TLC configurations
that check them on small instances, and proofs that TLAPS checks for every value
of the constants.

    tlc -workers 2 -config pipeline_two_workers.cfg MCJobPipeline.tla
    tlc -workers 2 -config radio_two_leaders.cfg MCRadio.tla
    tlc -workers 2 -config web.cfg MCWeb.tla
    tlapm JobPipelineProofs.tla

`PROJECT.json` lists the runs, the source lines of every definition, a mutant
that breaks each property, the hazards and the theorems.

## 1. Inventory

Paths are relative to `src/backend/src/songforge/`.

| component | state | operations | talks to |
|---|---|---|---|
| jobs table (`models.py`) | rows with `state`, `task_id`, `song_id`, `seq`, `available_at`, `ingest_attempts`, `failure_handled_at` | insert, claim `FOR UPDATE SKIP LOCKED`, update | every other one |
| create route (`web/routes/create.py`) | none | bot check, quota check, durable insert, quota charge, NOTIFY | jobs table, daily quota |
| dispatch loop (`worker/dispatch.py`, `jobs/dispatch.py`) | a job in hand | claim, acquire, API call, release, reconcile on a 429, commit | jobs table, semaphore, API |
| generation semaphore (`jobs/semaphore.py`) | a global and a per-user Redis counter | `acquire` (two legs), `release` (two legs), `reconcile*` (decrease only) | dispatch, webhook, ingest, watchdog |
| generation webhook (`web/routes/webhook.py`) | none | audio, failure and early deliveries | jobs table, semaphore |
| ingest loop (`worker/ingest.py`, `jobs/ingest.py`) | a job in hand, its row locked | claim, self-heal, download, put, finalize, requeue or fail | jobs table, storage, playback queue, semaphore |
| watchdog (`worker/watchdog.py`, `jobs/watchdog.py`) | position in its tick, the rows its first drain has examined, two counts | five sweeps, release, refund, reconcile, depth republish | jobs table, semaphore, quota, API, listeners |
| daily quota (`web/rate_limit.py`) | Redis counters per identity and UTC day | check, charge, refund | create, watchdog |
| playback queue (`radio/queue.py`) | rows in order of readiness | enqueue, pop, depth | ingest, radio |
| radio coordinator (`radio/coordinator.py`, `worker/radio_coordinator.py`) | the `radio_state` row (versioned), recent history, an advisory lock | lead, initialize, boundary advance, interrupt, static pick | playback queue, Redis, pointer cache |
| now-playing fan-out (`radio/pointer_cache.py`, `radio/pointer_broadcaster.py`, `web/routes/events.py`, `web/routes/now_playing.py`) | local cache with an age, Redis copy, a bounded queue per client, the pointer each stream holds | read through, write back, publish, relay, heartbeat | coordinator, listeners |
| queue depth and user events (`radio/queue_depth.py`, `radio/user_events.py`, `web/routes/queue.py`) | last known depth, a pending flush, a bounded queue per client and per identity | count, publish, coalesce, flush, relay | ingest, radio, watchdog, listeners |
| read-only routes, web shell, configuration, metrics, boot, simulator | none that decides anything | | |
| frontend page (`src/frontend`) | identity cookie, progress bar with its deadline, queue line, two audio buffers | quota read, create, apply a frame, re-fetch, pause, crossfade | the event stream, the routes |
| legacy Flask radio (`src/app`) | an in-process queue | superseded by the backend | |

How the pipeline's parts interact: the **jobs table is the only hand-over**
between loops (NOTIFY only shortens a poll). Each loop claims the oldest suitable
row with `SKIP LOCKED`. Dispatch commits its claim and so gives the lock up for
the length of the API call; ingest keeps the lock until the end. A **slot** is
taken by dispatch, travels with the row, and is given back by whichever
component ends the job, after its commit and best effort. A refund follows the
`failure_handled_at` stamp the same way.

What is hard here, and what makes each component correct:

* **dispatch**: its last commit is an `UPDATE` by primary key, with no look at
  what the row has become since the claim. No two loops may drive one job, and a
  job that has ended must not come back.
* **semaphore**: the two legs are separate calls, releases may be lost in part,
  and a reconcile uses counts that are old by the time it applies them. A counter
  never shows a slot nobody holds beyond what a fault leaked, a leak heals, and only
  a watchdog gives away a slot that somebody holds: up to then every user's cap
  holds. (The global cap holds only while nobody reconciles: finding 1.)
* **webhook**: deliveries are lost, duplicated, late, or early. Each only ever
  moves a waiting job.
* **ingest**: a crash may fall between the upload and the commit. One queue row
  per job; READY implies queued, in `songs`, and in storage.
* **watchdog**: it presumes death by age, polls while others work, and runs in
  every worker at once. Every job ends, every failure is handled, no job is
  refunded or paid for twice.
* **quota**: the charge and the refund fall on the same day and neither is applied
  twice; the check is read-only, so creates may race past it, by a bounded number.
* **radio**: the advisory lock is held by a connection that nobody looks at again,
  so two workers may believe they lead; a notification may fall between two waits;
  the next song is chosen on what was read before. Each queued song airs exactly
  once, none overtaking another that waits, a user's song is never cut, and something is always on.
* **fan-out**: reads through three levels write back what they found when they get
  there, publications get lost, a slow client's queue overflows, and a worker that has lost the
  lead may publish after its successor. A stream that has had a push goes back to an
  earlier song only if that one was itself published late; stale caches heal.
* **queue depth**: three publishers count and publish in steps that cross, the
  coalescer drops all but one value of a burst, answers overtake each other. The last
  value of a burst is sent, and the shown count is right in the end.
* **page**: its stream must run under the identity its job will get, although the
  identity may be minted by either of two requests; frames of other tabs and late
  answers must not move its bar; the bar must end. Of two audio buffers the one that
  plays must be the one whose song is shown, through pauses and crossfades.

## 2. Modules

| module | models | correspondence |
|---|---|---|
| `JobStore` | the jobs table | `row[j]` is the committed row of the job with `seq` j; `locked` the rows an open transaction holds or has flushed; `Claims(j, S)` is `ORDER BY seq LIMIT 1 FOR UPDATE SKIP LOCKED` |
| `Semaphore` | the Lua scripts and `RedisSemaphore` | `BelowCap`, `Decrement`, `DecreaseTo` are the three scripts; `SafeRelease` is every `_safe_release*` wrapper |
| `Dispatch` | the dispatch loop | `disp[d].pc` is the await at which loop d stands; an action per await; `CommitResult` is the blind `UPDATE` |
| `Webhook` | the webhook route | one action for each delivery that changes a row, and the release after it |
| `Ingest` | the ingest loop, storage, songs, playback queue | `ing[i].enqueue` is the answer to `_finalize_ready`'s pre-check, used at the commit |
| `Watchdog` | the tick | `swp[s].stage` walks through `Stages`; `owes` is what follows the commit just made |
| `JobPipeline` | all of the above interleaved | `Next`, fairness, every property, the refinement mapping |
| `JobLifecycle` | abstract: what becomes of a job | accept, deliver, lapse or fail, notice, refund |
| `MCJobPipeline` | instances for TLC | owners of jobs, symmetry of loops |
| `RadioCoordinator` | the radio leader's loop in every worker, `radio_state`, `playback_queue`, the Redis history and pointer key, the advisory lock | `co[c].pc` is the await at which worker c stands, `co[c].version` and `mode` what it read and why it is moving the pointer; `Swap` is the version compare-and-swap; a row popped `FOR UPDATE` is held by a worker at `cas_user` |
| `Station` | abstract: what listeners hear | songs join a line, one thing is on, it ends, a filler or a song follows |
| `MCRadio` | instances for TLC | symmetry of workers and of fillers |
| `Quota` | `RateLimiter` around `create_job` and the refund | `request[r].pc` is the await at which the handler stands; `count` the Redis counters by scope, identity and UTC day; `taken`, `returned` and `strays` record what was charged and refunded |
| `Drain` | the tick's first drain, row by row | `batch[w]` is what one claim's `FOR UPDATE` locks, `examined[w]` the ids that `_drain_waiting_overdue` excludes; `phase[r]` the row as this drain sees it |
| `PointerFanout` | the pointer from the coordinator's commit to a player | a pointer is its version; `reader[<<c, route>>]` is a `get_now_playing_cached` in progress; `writing[w]` is the write of worker w's coordinator; `queue[c]`, `current[c]` and `pushed[c]` belong to the stream of c, `airing[c]` to its player |
| `QueueDepth` | the "N waiting" line | `publisher[p]` is between its count and its publication; `coalescer` is `_Coalescer`; `fetch[n]` a `GET /queue` of the page, `shown` what the page shows |
| `Page` | identity, create, stream and progress bar of one page | `jar` is the cookie jar, `quotaRead` and `post[j]` the requests, `frame` the bounded queue of the identity's stream, `bar` is `GenerationProgress`; another tab of the browser makes `TabJobs` |
| `Player` | the two audio buffers | `active`, `prev`, `listening` are the refs of `Player.tsx`; `ramps` counts the fades of a buffer whose `onDone` is still to come, `silenced` records that one of them paused the active buffer |
| `MCWeb`, `MCFanout` | instances for TLC | `focus`, section 3 |
| `JobPipelineProofs`, `OutcomeProofs`, `DriverProofs`, `SlotProofs` | proofs about the pipeline | each extends the one before it; section 5 |
| `RadioProofs`, `QuotaProofs`, `FanoutProofs`, `WebProofs` | proofs about the radio and the parts around the pipeline | section 5 |

The pipeline and the radio meet in `playback_queue`: an ingest commit appends a row
(`Ingest!IngestCommit`), which for the radio is `Enqueue`; what ingest promises of a
row (`OneQueueRowPerJob`, `ReadyMeansPlayable`) is what the radio takes for granted.
The parts around them meet them at one event each: a failure stamp of the watchdog is
`Quota!HandleFailure`; a swap of the radio is `PointerFanout!Advance`, `QueueDepth!PlayRow`
and `Player!Airs`; an end of a job is `Page!EndJob`. They are separate modules because
nothing flows back: neither a quota counter nor a listener decides what the pipeline
or the radio does.

A step of the model ends where the code awaits something that lets others see or
change shared state. Time is abstract: a row's age decides only whether a sweep
*may* take it, and `available` stands for `available_at <= now`. Abstractions
that a reader should know of:

* `release` is one step unless a fault hits it; a fault may fall before the first
  leg or between the two. The user leg is therefore not seen half way in a run
  without faults. The two legs of `acquire` are separate steps.
* The per-user corrections of one reconcile are one step; reading the two counts,
  correcting the global counter and correcting the users' are four.
* `sweep_waiting_overdue` polls the API with the row locked, so poll and commit
  are one step.
* Count and correction on dispatch's 429 path run in the session that holds the
  job's pending `UPDATE`: `CountActive` flushes and locks the row, as autoflush
  does, until the commit.
* `IngestCrash` also stands for the catch-all of `jobs/ingest.py` (line 364). After
  `session.rollback()` the job's attributes are expired, and reading
  `ingest_attempts` in an `AsyncSession` outside an await raises; so in production
  that path leaves the row as it was. (The unit tests hand in a `Job` that belongs
  to no session and do not meet this.)
* `MaxFaults` bounds crashes and Redis errors together, `MaxCalls` the tasks the
  API creates for one job. Both bounds are guards, and both are constants the
  theorems do not restrict.
* Prompts, titles, urls, metrics and logging are left out, and in the pipeline
  notifications as well: they are best effort everywhere and nothing reads them
  back. The radio's `song_ready` is modelled, because it sets an event that the
  loop clears.
* In the radio, `over` stands for `ends_at <= now`; a coordinator's sleep ends when the
  boundary it read has passed. The `UPDATE` and the commit of an advance are one
  step (between them nothing is visible), and the history's `LPUSH` and `LTRIM`
  are one. `advance` takes the current song from the row as its session has read
  it; the model looks at the row itself, which differs only if the swap is
  going to be lost. A library, once seeded, does not shrink.
* `MaxVersion` ends a run by starting no more fillers at boundaries; user songs and
  interrupts are not bounded by it.
* Subscriptions of Redis are FIFO. In `PointerFanout` a publication waits in `feed`
  until the relay takes it; in `QueueDepth` and `Page` the relay takes it in the step
  that publishes it, as a later publication is no different there.
* In `PointerFanout` every worker writes for itself; that one commits while another has
  not published yet takes a lost lock, and counts as a fault. What two do to the row
  is `RadioCoordinator`'s subject. A client's bounded queue counts the frame whose `get()` is pending.
* In `Page` the timer fires only after the news of the tracked job has been published and
  was lost or ignored: `PROGRESS_TIMEOUT_MS` covers the job's deadline, a watchdog tick and
  a grace period.
* `IngestCommit` is one step, as it is one transaction: READY, the `songs` row and the queue
  row are seen together or not at all.
* In `Drain` the rows are numbered by `updated_at`, which a poll does not touch.

## 3. Runs

The pipeline's are `MCJobPipeline` with one to three jobs, the radio's `MCRadio`, the
others' `MCWeb`, `QueueDepth` and `MCFanout`. `CHECK_DEADLOCK` is off: once every job has ended and
the bounds are used up, the table may really rest, the radio does at `MaxVersion`, and
so does a page whose jobs have ended.

| run | instance | shows |
|---|---|---|
| `two_workers` | 1 job, 2 dispatch loops, 1 ingest loop, 2 watchdogs, 2 tasks, 2 faults, deadlines that may fall within a call | `TypeOK`, `RefundedAtMostOnce`, `NoPhantomSlot`, `OneDriverPerJob`, `NoRecharge`; `ImplementsLifecycle`: the pipeline refines `JobLifecycle` |
| `slow_dispatch` | 1 job, 2 dispatch and 2 ingest loops, no timing assumption | `OneQueueRowPerJob`, `ReadyMeansPlayable` although a job is driven twice and gets two tasks; `OnlyWatchdogCredits` |
| `caps` | 3 jobs of two users, caps of 2 and 1, 2 dispatch loops, no watchdog, no fault | `UserCapRespected` |
| `liveness` | 1 job, one loop each, 1 fault, fairness | `EveryJobEnds`, `EveryFailureHandled`, `SlotsHeal` |
| `stale_reconcile` | 2 jobs, cap of 1, with a watchdog | `GlobalCapRespected` is violated (finding 1) |
| `deadline_mid_call` | 1 job, deadlines that may fall within a call | `FailedIsFinal` is violated (finding 2) |
| `radio_two_leaders` | 2 workers, 2 queued songs, 2 fillers, a window of 1, 2 faults | `ImplementsStation`: the radio refines `Station`; `AiredInOrder`, `NoFillerTwice` |
| `radio_liveness` | 2 workers, 1 queued song, a library of 1 filler within the window, 2 faults, fairness | `EverySongAirs`, `NeverSilent`, `RadioTypeOK` |
| `radio_outage` | 1 worker, 1 fault, Redis need not come back | `NeverSilent` is violated (finding 3) |
| `web` | the five parts below, each from its start | `WebTypeOK`; `OverAdmissionBounded`, `CountersMatchJobs`, `NoSlotWithoutJob`; `StreamMovesForward`, `FairPush`, `FairNowPlaying`; `BarTellsTruth`, `StreamHearsOwnJobs`, `FairBar`; `PlaysTheFeed`; `OverdueIsPolled`, `FairDrain` |
| `queue_depth` | 1 row (the listener's own), 3 publishers, a queue of 1, 2 requests, 1 job frame, 1 fault | `LastDepthSurvives`, `RefreshesInOrder`, `DepthHeals`, `DepthTypeOK` |
| `heartbeat` | 1 client, a queue of 1, 2 song changes, no fault | `HeartbeatHeals` is violated (finding 4) |

Why the bounds are enough to be interesting. Every race here is between two
actors over one row, or between two jobs over one cap, so two loops of a kind
with one job, and two or three jobs with one loop, reach each. Two tasks for a
job are what a re-dispatch needs; one or two faults reach a crash at every step
and a second one in the recovery from it. Each property is also checked against
a mutant of the code (`PROJECT.json`, `mutants`) that breaks it within the same
bounds. In the radio, two faults are a lost lock, which makes two leaders, and a
crash of either; two songs are what an order needs; a window of one with two
fillers makes the choice of the next one matter, and a library within its window
makes `pick_static` fall back, with and without a current filler. `caps` has no
watchdog because with one the property fails: only a watchdog lowers a user's
counter to a count (`OnlyWatchdogCredits`, which `slow_dispatch` checks with two
dispatch loops, a watchdog and no timing assumption, says so of every step).

`web` checks five modules that share no variable. Its `focus`, chosen at the start,
says which of them moves; the others keep their initial state. This is five runs in
one, and loses nothing, since the state of one part says nothing of another's; a
liveness property is conditional on the fairness of its own part. Its bounds:

| focus | bounds | what they reach |
|---|---|---|
| quota | 2 requests, 2 cookies behind one address, caps of 1, 1 midnight, 1 fault | two creates past one check; cookie and address counter that differ; a job made on one day and refunded on the next; a refund before, after and without its charge; a crash or error at each await |
| fanout | 2 workers, 1 client with 2 routes, 2 song changes, a queue of 1, 1 fault | a write-back that passes a newer pointer, a pointer published after a newer one, a full queue, a reconnect between two changes, an eviction, a lost publication |
| page | 1 own job and 1 of another tab, a queue of 1, 1 fault | an identity minted by either of two requests, frames of the other tab, a lost last frame, an answer after the timer |
| player | 3 songs, 2 ramps of a buffer at a time | a boundary, an interrupt and a late re-fetch over both buffers, with pauses between, and a song change, or two, while a ramp runs |
| drain | 3 rows, 2 workers, a batch of 2 | one worker's batch that hides rows from the other; a row that falls due behind one that does not, and behind a whole batch that does not |

The listeners of an instance share its cache and its coalescer and nothing else, and
jobs of one identity only its queue, so a second client or row adds interleavings and
no new meeting of two pieces of state. `queue_depth` is a run of its own for
its size: its one fault is a failed count, a lost publication, a failed request, a broken stream
or a restart with a flush scheduled; the three publishers' counts cross, a burst falls inside
the coalescer's window, and an answer overtakes an older one. `heartbeat` has one as it states
what a comment says and the code does not do.

### Timing assumptions

Two constants state what the default settings give.

* `LeaseCoversCall` (pipeline): a `SUBMITTING` row older than the lease (120 s) has no live
  dispatch loop behind it. The API call times out after 30 s.
  `slow_dispatch` does without it.
* `IntervalCoversDrain` (`Drain`): the poll interval (30 s) outlasts the drains of the
  other workers. Without it two workers in lock-step can hide a row from each other for
  ever, each with its batch locked when the other looks.

Nothing is assumed about deadlines: a job may pass its deadline (300 s from its create)
while a dispatch loop is inside the API call for it, since it may have waited that long
behind a cap. `JobLifecycle` calls such a job *lapsed*: its failure is noticed, and
perhaps refunded, and the answer of the call may still bring it back (finding 2).

Three properties say what holds where the plainer statement does not:

* `StreamMovesForward`. No relay, stream or player compares versions, so a worker that lost
  the lead after its commit and publishes after its successor takes every stream back to its
  pointer until the next change. `late` holds the pointers published after a newer one, and
  a stream goes back only to one of these: the way from Redis to the page reorders nothing.
* `PlaysTheFeed`. `rampVolume`'s `onDone` pauses the buffer that it faded out
  whatever that buffer plays by then (`Player.tsx:226`); if the buffer has become the
  active one again, the page falls silent for the rest of that song. That takes a second change
  of song within a crossfade (1.5 s): an answer of the re-fetch on `ended` that comes from a stale
  cache and brings the old song back for a moment, or a tab in the background, where
  `requestAnimationFrame` stands still and the ramp with it. `silenced` records it until
  the next song or the button, and is the only way for a listener to hear nothing.
* `OverdueIsPolled`. The docstring of `_drain_waiting_overdue` (`worker/watchdog.py:214`)
  speaks of every row that is overdue; but rows that are *not* due fill a batch as well, and
  an overdue one behind a whole batch (20) of older ones is not seen until they move on.
  Only such a row, says the property, is left when the last drain returns. The default
  global cap of 1 keeps far below a batch.

In the radio, rows of `playback_queue` become visible in any order: ids come from an
identity column at the insert, and two ingest loops may commit the other way round.
`AiredInOrder` says that a row never airs before an older one that was visible when it was
taken; `late` holds the pairs in which the older one was not.

### Fairness

`run_dispatch`, `run_ingest` and `run_watchdog` are loops that poll and that
start over after any exception; time passes; a handler that has committed goes
on. Weak fairness of each follows. Nothing is owed by creates, webhooks or
faults: a webhook that never comes is the case the watchdog exists for. Two
stronger assumptions are about speed. A row that a drain has failed only comes
back through an API call and a backoff, so a drain whose claim is empty again
and again does end, and a claim that is possible again and again is made
(strong fairness of `NextStage` and `Expire`). And rows are not locked at each
of the instants at which the expired sweep looks (`TicksMeetRows`); without it
`SKIP LOCKED` may pass a row over on every tick for ever.

For the radio: `run_radio_coordinator` goes on after any exception (weak fairness of
each worker's steps), the clock reaches `ends_at`, and boot seeds the library.
Notifications are owed nothing: `EverySongAirs` holds because a boundary looks at
the queue whether or not it was woken. `radio_liveness` adds that Redis comes back;
`radio_outage` shows that it has to.

For the parts around them: in the fan-out, the coordinator finishes a write it began, the
relay and every read go on, a cache entry grows old, a client connects again, and a
stream sends what it holds, heartbeats included; song changes and Redis are owed
nothing. In the depth only the watchdog's republish, the coalescer's timers and the
stream are fair: the other two publishers and `GET /queue` may stop for ever. In the
page, jobs end (`EveryJobEnds`) and are published, the stream is resumed and a timer
fires; a request may never be answered. In the drain, each watchdog goes on, since every
awaited lookup has a timeout. `FairNowPlaying` supposes that the Redis key agrees with
Postgres from some time on: only the next song change mends a `SET` that was lost.

## 4. Findings

1. **A reconcile can take away a slot that is in use** (`stale_reconcile`,
   `worker/watchdog.py:173`). The tick counts the active rows, a job is then
   claimed, takes its slot and calls the API, and `decrease_to` lowers the
   counter to the old count. The next job is dispatched over the cap. The comment
   calls this window "harmless"; it is in the other direction, where the counter
   is too high, that the next tick mends it.
   Dispatch has the same window of its own: on a 429 it releases its slot, counts the
   active rows and lowers the global counter to that count (`jobs/dispatch.py:157`, 93-94),
   and another worker may claim a job and take its slot between the two. The run finds
   that one instead with `Sweepers = {}` and `Dispatchers = {d1, d2}`, without any fault.
   Even a fresh count is too low while a job that has ended still owes its release: that
   slot is then freed twice, so that with a cap of 3 one dispatch loop suffices. Dispatch
   lowers only the global leg, which is why the users' caps survive it.
2. **A failed job can come back to life** (`deadline_mid_call`,
   `worker/dispatch.py:87`). A job that passes its deadline during its API call is
   failed, refunded and announced as failed; dispatch then writes
   `WAITING_FOR_WEBHOOK` over `FAILED`. A song that has been refunded can go on the air.

3. **A Redis outage silences the station** (`radio_outage`, `radio/coordinator.py:268`).
   The pointer write and the publish are best effort, and the comments say that an
   outage must never fail an advance; but the anti-repeat history is read before
   the swap, and written after it, without a guard. Every static advance then raises,
   backs off and raises again. The spec's station "never goes silent". User songs
   still get through, as their branch does not look at the history.
4. **A heartbeat repeats the past** (`heartbeat`, `web/routes/events.py:206`). A frame that
   finds a client's queue full is dropped. The comment on the queue's bound says that the
   client heals on the next heartbeat; but the heartbeat repeats what the stream took
   from that same queue last, and knows of nothing newer. When the player's own re-fetch
   at the end of its song finds the right pointer, the next heartbeat takes it back to
   the old one. Only a reconnect or the next song change heals.

Smaller things met while modelling, which no run states as a property:

* A create that overtakes the page's quota read carries no cookie, so both requests mint
  an identity, and the stream may hear nothing of the job. The bar then ends by its
  timer. (`StreamHearsOwnJobs` excludes it by name: `overtaken`.)
* A NOTIFY that fails after the row's commit gives the page an error for a job that runs.
* A `GET /queue` that was read before a push and answered after it overwrites the newer
  depth until the next tick.
* A row that a webhook is waiting to update stays locked for the length of a poll: the
  webhook's lookup blocks on the batch of the drain.
* Depth frames of the tick (every 30 s) restart the stream's wait for its heartbeat (30 s as
  well), so that a stream may rarely have a heartbeat. No property here relies on more than
  the fairness of heartbeats on idle streams.
* "If you were charged, your credits have been refunded" (`GenerationProgress.tsx:17`, which
  `progress.ts:27` calls accurate) is also shown when the job is READY and its last frame was
  dropped: `timedout` tells nothing of the job.

## 5. Proofs

TLAPS proves every safety property and every refinement that a run checks, for all
values of the constants. What is assumed beyond that is said below at each theorem.

### The pipeline

`JobPipelineProofs` proves `Spec => []IInv` for any number of jobs, users,
loops, tasks and faults, and any value of the timing constants.
`IInv` is `TypeOK` with three facts without which it is not inductive:

* `LoopsHaveJobs`: a loop that is not idle has a job, and a result to be stored
  its task;
* `TasksStored`: a row past dispatch has a `task_id` (ingest keys the song by it);
* `LocksExclusive`: a locked row has one holder, and the row that ingest holds
  stays `INGEST_PENDING` until ingest itself commits. This is the heart of it:
  it needs that every writer, dispatch's blind `UPDATE` included, waits for the lock.

The proof has one lemma per component and one step per action. On top of it,
without any timing assumption, `OutcomeProofs` proves

* `RefundAtMostOnce` (`RefundInv`): the stamp is never taken off a row, and is set before
  the refund, so a row without it has neither been refunded nor has a watchdog that owes
  the refund; the lock makes the stamping watchdog unique;
* `QueueRowOnce` and `ReadyPlayable` (`QueueInv`): the answer of the enqueue pre-check is
  still true at the commit, as only the holder of the job's row inserts for that job,
  and the object that a commit refers to is in storage.

`DriverProofs` is about who drives a job, under `LeaseCoversCall`. `DriverInv` says that a
driven job is `SUBMITTING`, or was failed at its deadline meanwhile, that its loop is the
only one that has it, and that no task is stored for it yet: nothing but the loop's own
`UPDATE` or a lease that has run out takes the row back to `QUEUED`. Hence `OneDriver` and
`NeverRecharged`. `PipelineRefinesLifecycle` maps each action to a step of `JobLifecycle` or
none. A job that is `FAILED` while a loop drives it is *lapsed*, one that nobody drives has
*failed*, and only from the first does the blind `UPDATE` lead back (`Turns`); it never meets
`READY` (`ReadyKept`), and whatever is queued for airing stays `READY` (`LifecycleInv`).

`SlotProofs` counts. The holders of slots are a sum of five cardinalities (dispatch loops, waiting
rows, ingest loops, watchdogs and webhook handlers that still owe a release); a step moves one member at most,
and `CountBounds` says what that does to a count.

* `SlotsAccountedFor` (`NoPhantomSlot`, under `LeaseCoversCall`): the global counter shows
  at most one slot per fault more than are held. `SlotInv` adds that a webhook handler owes a
  release only for a job that has ended and has no driver, and that a watchdog does not count
  while it owes one.
* `CreditsAreWatchdogs` (`OnlyWatchdogCredits`, no timing assumption): the gap between a
  user's holders and the user's counter widens only when a watchdog applies an old count,
  sweeps a `SUBMITTING` row or expires one. It needs `ReleasesFailures`: a loop
  that gives its slot back has no task to store.
* `UserCapsHold` (`UserCapRespected`): as long as no watchdog step takes a slot off a user's
  counter that is held, no user has more jobs in flight than the cap. The hypothesis,
  `[][~TakesHeldSlot]_vars`, excludes one of the three steps above only if, after it, more of a
  user's slots are held than counted; ticks that complete and correct leaked slots are all in.
  It cannot be dropped: finding 1.

### The radio

`RadioProofs` proves `RadioSpec => []RadioInv` for any number of workers, queue rows,
fillers and faults. `RadioInv` adds to the types what makes a stale leader harmless:

* `Knows`: a coordinator's version is never ahead of the row's; between the read and the
  swap, *if the versions agree*, the reason for the move still holds (at a boundary,
  the song is over; for an interrupt, a filler is on). It is kept because every
  move makes a new version, so anything that could spoil the reason also makes the
  swap fail (`KnowledgeKept`).
* `OneHolderPerRow`: no two coordinators have popped the same row, and the one that has
  still finds it unplayed.
* `AbsentIsSilent`: before the first initialization nothing is on.

From it follow `RadioTypeCorrect`, `RadioRefinesStation` (each step of a coordinator,
of the clock and of a crash is a step of `Station` or none) and `AirsInOrder`:
whoever holds a row holds the oldest that waits, and an older one that becomes visible
after that is recorded as late in the step in which it appears (`InOrder`). `FillersVary` (`NoFillerTwice`) needs
`HistoryInv`: while nothing has failed, Redis is up and the lock is held by whoever acts, so the filler
that is on is the first of the history, or about to be recorded, whenever the next is picked; and a
window smaller than the library leaves something to pick (a count again, `WindowBounded`).

### Around them

`QuotaProofs` compares what a counter shows with the legs (request, scope) that were charged
to it. `HandlersInv` fixes a request's day before it is charged and lets a leg be given back
once; `CountersInv` bounds every counter from both sides, the days to come included, and gives
`CountersMatch` and `SlotsHaveJobs`. For `OverAdmission` this is not enough: a create that
is past the check will be charged without another look. `AdmissionInv` adds these (`Due`) to what the
counter shows; when the last of them passes, the counter is below its cap and the
others were in flight with it.

`FanoutProofs` proves `StreamNeverGoesBack` (`StreamMovesForward`) for any number of clients,
workers, song changes, faults and any bound of the queues. Its invariant is an order along the way of
a pointer: from its publication through the subscription and a client's queue to its stream
nothing overtakes (`FeedInOrder`, `QueueInOrder`), and a stream that has had a push holds
nothing newer than what is still on that way, but for what was published late
(`PushedIsBehind`). Caches, Redis and readers
do not occur in it but for `ConnectsOnce`: what they hold reaches a stream only at its start.

`WebProofs` has the rest:

* `ListenerHearsTheFeed`, for any number of songs and ramps. Besides the property itself its
  invariant says that the player's `prev` is what the page shows (`KnowsItsPointer`), so that
  a frame of the same song is the one that leaves the buffers alone.
* `LastDepthIsNeverLost`. `LastDepthSurvives` needs the other half
  (`CoalescerOK`): while a flush is scheduled its value is the last one known, and while none
  is, the last one known has been handed out. Nothing of the publishers is used, so it
  holds for any order of counts, losses and restarts.
* `RefreshesNeverGoBack`: the one request that is the latest (`OneIsLatest`) has read the queue
  no earlier than the answer the page was last refreshed with (`LatestIsNewest`), since the
  queue's history only grows. `DepthTypesHold` needs that "no depth" travels only with a
  pointer (`DepthsFlow`).
* `BarTruthful` and `StreamHears`, for any jobs, tabs, queue bound and faults, from `PageInv`: the ends on
  their way are those of their jobs (`FramesTrue`), and before the quota read is
  answered nothing was sent, while after it the jar holds the identity of every POST and of
  the stream for good (`QuotaReadFirst`).
* `OverduePolled`, for any number of rows and workers and any batch. A claim that finds
  nothing, when nobody else's batch is locked, has looked at the oldest rows this drain has
  not examined; an overdue one that is not among them stands behind a whole batch of rows that
  are not due. When the last drain returns nobody polls (`DrainInv`).
* `WebTypesHold` and `WebIsSafe`: in `MCWeb` every part behaves as it does alone (`PartsAlone`),
  so that what is said above of these parts, and the types, hold of the composition that the run
  checks, without a hypothesis. The fan-out's types need that only a committed version is
  published (`PublishesVersions`).

### Assumptions and limits

Assumed are the constants' types and that loops, requests, fillers and workers are finite in
number: `JobStoreAssumption`, `SemaphoreAssumption`, `DispatchAssumption`, `IngestAssumption`,
`WatchdogAssumption`, `RadioAssumption`, `QuotaAssumption`, `FanoutAssumption`,
`DepthAssumption`, `PageAssumption`, `PlayerAssumption`, `DrainAssumption`. TLC evaluates them in
the runs of their modules. `LeaseCoversCall` (of `OneDriver`, `NeverRecharged`,
`PipelineRefinesLifecycle` and `SlotsAccountedFor`) and `[][~TakesHeldSlot]_vars` (of
`UserCapsHold`) are hypotheses of theorems, never assumptions of a module.

Only model-checked is liveness, which is out of the prover's reach: `EveryJobEnds`,
`EveryFailureHandled`, `SlotsHeal`, `EverySongAirs`, `NeverSilent`, `FairPush`, `FairNowPlaying`,
`DepthHeals`, `FairBar` and `FairDrain`. The cap on all jobs, `GlobalCapRespected`, is refuted
(finding 1) and has no theorem, nor has `FailedIsFinal` (finding 2).

## 6. Not modelled, and what is left

Not modelled:

* the web shell, configuration, metrics, boot checks and seeding, and the generation
  simulator: I/O and wiring without protocol (settings are the modules' constants);
* the download and health routes, which read and redirect;
* signed-in accounts and `RateLimiter.consume`: `resolve_identity` never makes an account
  and no route calls `consume`;
* of the frontend, positions, drift correction, volumes, the download history and
  rendering; of the API client, request shapes and the parsing of bodies;
* the legacy Flask application, which nothing starts any more (`src/Procfile` launches the
  `songforge` package).

Left to do, in this order:

1. A semaphore whose release has two steps, implementing the one used here.
2. A bound in place of the refuted global cap: how far reconciles can push the jobs in
   flight beyond it.
3. The safety half of the liveness arguments: that at every state short of the goal some fair
   step is still to come, which the prover can be asked without fairness.

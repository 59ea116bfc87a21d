---------------------------- MODULE JobPipeline -----------------------------
(***************************************************************************)
(* The generation pipeline: creates, dispatch loops, webhook deliveries,   *)
(* ingest loops and watchdogs, interleaved over the jobs table and the     *)
(* Redis semaphore.  A worker process runs one loop of each kind; loops    *)
(* fail independently here, and a process crash is a crash of each.        *)
(***************************************************************************)
EXTENDS Webhook, Ingest, Watchdog

vars == <<storeVars, slotVars, disp, hookOwes, ingestVars, watchdogVars>>

Init ==
  /\ StoreInit /\ SlotInit /\ DispatchInit /\ WebhookInit /\ IngestInit
  /\ WatchdogInit

Clock(j) ==
  BackoffElapses(j) /\ UNCHANGED <<slotVars, disp, hookOwes, ingestVars, watchdogVars>>
Deadline == DeadlinePasses /\ UNCHANGED <<hookOwes, ingestVars>>
Create(j) ==
  CreateJob(j) /\ UNCHANGED <<slotVars, disp, hookOwes, ingestVars, watchdogVars>>
Dispatch(d) == DispatchStep(d) /\ UNCHANGED <<hookOwes, ingestVars, watchdogVars>>
DispatchFault(d) == DispatchCrash(d) /\ UNCHANGED <<hookOwes, ingestVars, watchdogVars>>
Webhook(j) == WebhookDelivery(j) /\ UNCHANGED <<disp, ingestVars, watchdogVars>>
WebhookTail(j) == WebhookRelease(j) /\ UNCHANGED <<disp, ingestVars, watchdogVars>>
IngestLoop(i) == IngestStep(i) /\ UNCHANGED <<disp, hookOwes, watchdogVars>>
IngestFault(i) == IngestCrash(i) /\ UNCHANGED <<disp, hookOwes, watchdogVars>>
WatchdogTick(s) == SweeperStep(s) /\ UNCHANGED <<hookOwes, ingestVars>>
WatchdogFault(s) == SweeperCrash(s) /\ UNCHANGED <<hookOwes, ingestVars>>

Next ==
  \/ Deadline
  \/ \E j \in Jobs : Create(j) \/ Clock(j) \/ Webhook(j) \/ WebhookTail(j)
  \/ \E d \in Dispatchers : Dispatch(d) \/ DispatchFault(d)
  \/ \E i \in Ingesters : IngestLoop(i) \/ IngestFault(i)
  \/ \E s \in Sweepers : WatchdogTick(s) \/ WatchdogFault(s)

Spec == Init /\ [][Next]_vars

(***************************************************************************)
(* Fairness.  The loops run under a supervisor and poll (5 s, 30 s), time  *)
(* passes, and a request handler that has committed goes on: weak fairness *)
(* for each.  Creates, webhooks and faults owe us nothing.                 *)
(*                                                                         *)
(* Two timing facts are stated as assumptions.  Within a drain the next    *)
(* claim follows at once, while a row the drain has failed comes back only *)
(* through an HTTP call and a backoff: a claim that is possible again and  *)
(* again is made, and a drain that is empty again and again ends (strong   *)
(* fairness).  And a row is locked only now and then, so that the expired  *)
(* sweep does not meet it locked on every tick (TicksMeetRows).            *)
(***************************************************************************)
TicksMeetRows ==
  \A s \in Sweepers, j \in Jobs : []<>(Sweeping(s, "expired") /\ j \notin locked)

Fairness ==
  /\ WF_vars(Deadline)
  /\ \A j \in Jobs : WF_vars(Clock(j)) /\ WF_vars(WebhookTail(j))
  /\ \A d \in Dispatchers : WF_vars(Dispatch(d))
  /\ \A i \in Ingesters : WF_vars(IngestLoop(i))
  /\ TicksMeetRows
  /\ \A s \in Sweepers :
       /\ WF_vars(WatchdogTick(s))
       /\ SF_vars(WatchdogTick(s) /\ NextStage(s))
       /\ \A j \in Jobs : SF_vars(WatchdogTick(s) /\ Expire(s, j))

FairSpec == Spec /\ Fairness

TypeOK ==
  /\ StoreTypeOK /\ SlotTypeOK /\ DispatchTypeOK /\ WebhookTypeOK /\ IngestTypeOK
  /\ WatchdogTypeOK

-----------------------------------------------------------------------------
(* Safety *)

\* A job's song is queued for airing at most once, whatever crashes and re-claims
\* happen: playback_queue has no unique constraint on job_id, so this rests on
\* _finalize_ready's pre-check and on the row lock that ingest holds around it.
OneQueueRowPerJob ==
  \A k, m \in DOMAIN playback : playback[k].job = playback[m].job => k = m

\* READY and enqueued are one commit, and nothing reaches the radio without its
\* audio: a READY job has a playback row, every playback row a songs row, and
\* every songs row its object in storage, at every point a crash can hit.
ReadyMeansPlayable ==
  /\ \A j \in InState({"READY"}) : \E k \in DOMAIN playback : playback[k].job = j
  /\ \A k \in DOMAIN playback : playback[k].song \in songs
  /\ songs \subseteq storage

\* The failure_handled_at stamp makes the refund happen at most once for a job,
\* with several watchdogs, crashes, and jobs that fail more than once.
RefundedAtMostOnce == \A j \in Jobs : refunds[j] <= 1

\* Two dispatch loops never drive one job at the same time: between a claim and
\* its blind final UPDATE nobody else brings the row back to QUEUED (this is what
\* the lease's age gate is for).
OneDriverPerJob ==
  \A d, e \in Dispatchers : disp[d].job = disp[e].job /\ disp[d].pc # "idle" => d = e

\* Slots in use, wherever their release is owed: a dispatch loop, a row past
\* dispatch, a handler between its commit and its release.
Holders ==
  Cardinality({d \in Dispatchers : disp[d].pc \in {"acquire_user", "rollback"} \/ HoldsSlot(d)})
  + Cardinality(InState({"WAITING_FOR_WEBHOOK", "INGEST_PENDING"}))
  + Cardinality(hookOwes)
  + Cardinality({i \in Ingesters : ing[i].pc = "release"})
  + Cardinality({s \in Sweepers : swp[s].owes = "release"})

\* "This tick can only ever un-leak a slot, never credit one early": the counter
\* never shows a slot that nobody holds, except one leaked per fault.
NoPhantomSlot == slots <= Holders + faults

\* The generation API is never asked again for a job whose handles are stored: the
\* recovery of a lost webhook (or a stuck ingest) does not pay for a second song.
NoRecharge ==
  [][\A j \in Jobs : calls'[j] > calls[j] => row[j].task_id = NoTask]_vars

\* FAILED is never left: the user was told, and refunded.
FailedIsFinal ==
  [][\A j \in Jobs : row[j].state = "FAILED" => row'[j].state = "FAILED"]_vars

\* Jobs the API is working on: a loop inside the call, or a stored, waiting task.
InFlight ==
  {disp[d].job : d \in {e \in Dispatchers :
     disp[e].pc = "call" \/ (disp[e].pc = "commit" /\ disp[e].result = "created")}}
  \cup InState({"WAITING_FOR_WEBHOOK"})

\* The global cap the semaphore exists for, on the work in flight and not on its
\* counter: "the global cap is never exceeded".
GlobalCapRespected == Cardinality(InFlight) <= GlobalCap

\* The same of the cap of each user.
UserCapRespected ==
  \A u \in Users : Cardinality({j \in InFlight : Owner[j] = u}) <= UserCap

\* The slots of user u in use, wherever their release is owed.
UserHolders(u) ==
  Cardinality({d \in Dispatchers : HoldsSlot(d) /\ User(d) = u})
  + Cardinality({j \in InState({"WAITING_FOR_WEBHOOK", "INGEST_PENDING"}) : Owner[j] = u})
  + Cardinality({j \in hookOwes : Owner[j] = u})
  + Cardinality({i \in Ingesters : ing[i].pc = "release" /\ Owner[ing[i].job] = u})
  + Cardinality({s \in Sweepers : swp[s].owes = "release" /\ Owner[swp[s].job] = u})

\* What the watchdog does that may free a slot somebody still holds: its reconcile,
\* and the release for a dispatcher that it presumes dead.
WatchdogCredits ==
  \E s \in Sweepers :
    \/ CorrectUserSlots(s) \/ SweepSubmitting(s)
    \/ \E j \in Jobs : Expire(s, j) /\ row[j].state = "SUBMITTING"

\* A user's slot is handed out twice by the watchdog only: no other release path,
\* crash or late write takes a slot off the counter that somebody still holds.
OnlyWatchdogCredits ==
  [][\A u \in Users :
       UserHolders(u)' - userSlots'[u] > UserHolders(u) - userSlots[u] => WatchdogCredits]_vars

-----------------------------------------------------------------------------
(* Refinement *)

\* A job that FAILED while a dispatch loop held it has lapsed: that loop's final
\* UPDATE, which looks at nothing, decides what it becomes.
Phase(j) ==
  CASE row[j].state = "ABSENT" -> "none"
    [] row[j].state = "READY" -> "ready"
    [] row[j].state = "FAILED" -> IF Driven(j) THEN "lapsed" ELSE "failed"
    [] OTHER -> "pending"

Lifecycle == INSTANCE JobLifecycle WITH
  phase <- [j \in Jobs |-> Phase(j)],
  station <- [k \in DOMAIN playback |-> playback[k].job],
  noticed <- {j \in Jobs : row[j].failure_handled},
  refunded <- {j \in Jobs : refunds[j] > 0}

\* All that concurrency, retrying, sweeping and crashing adds nothing to the life of
\* a job: it is queued for airing exactly when it becomes READY, its failure is
\* noticed once and refunded at most once and only then, and READY and FAILED are
\* final, but for a deadline that passes while a dispatch loop asks the API.
ImplementsLifecycle == Lifecycle!LifecycleSpec

-----------------------------------------------------------------------------
(* Liveness *)

\* No job outlives its deadline: every accepted job ends.
EveryJobEnds ==
  \A j \in Jobs : row[j].state = "QUEUED" ~> row[j].state \in TerminalStates

\* Every failure is handled (stamped; refunded and told unless a fault hits then),
\* unless the job comes back to life.
EveryFailureHandled ==
  \A j \in Jobs : row[j].state = "FAILED" ~>
                    (row[j].failure_handled \/ row[j].state # "FAILED")

\* Nothing is going on: no job under way, no dispatch or release in progress.
Quiet ==
  /\ InState(NonTerminalStates) = {}
  /\ \A d \in Dispatchers : disp[d].pc = "idle"
  /\ hookOwes = {} /\ \A i \in Ingesters : ing[i].pc = "idle"

\* A leaked slot heals: once the pipeline is quiet, the reconcile brings every
\* counter back to 0 whatever was lost, so capacity never shrinks for good.
SlotsHeal ==
  Quiet ~> (~Quiet \/ (slots = 0 /\ \A u \in Users : userSlots[u] = 0))
=============================================================================

---------------------------- MODULE OutcomeProofs ----------------------------
(***************************************************************************)
(* What a job's owner gets out of it, for any number of loops and faults   *)
(* and without either timing assumption: one airing, with its audio, or    *)
(* one refund.                                                             *)
(*                                                                         *)
(* OneQueueRowPerJob and ReadyMeansPlayable: what the finalize step        *)
(* learned about playback_queue is still true when its transaction         *)
(* commits, because only the holder of the job's row inserts for that job; *)
(* and what it commits refers only to an object that is in storage.        *)
(*                                                                         *)
(* RefundedAtMostOnce: the failure_handled_at stamp is committed before    *)
(* the refund and never taken back, so the watchdog that set it is the     *)
(* only one that can owe, or have paid, the job's refund.                  *)
(***************************************************************************)
EXTENDS JobPipelineProofs

-----------------------------------------------------------------------------
(* The airing *)

Enqueued(j) == \E k \in DOMAIN playback : playback[k].job = j

\* What loop i will do on commit is still right, and its object is in storage.
PreCheckHolds(i) ==
  ing[i].pc = "commit" => (ing[i].enqueue <=> ~Enqueued(ing[i].job))
ObjectStored(i) == ing[i].pc \in {"finalize", "commit"} => MySong(i) \in storage

QueueInv ==
  /\ OneQueueRowPerJob
  /\ ReadyMeansPlayable
  /\ \A i \in Ingesters : PreCheckHolds(i) /\ ObjectStored(i)

\* Only an ingest commit makes a row READY.
LEMMA ReadyComesFromIngest ==
  ASSUME IInv, [Next]_vars, NEW j \in Jobs, row'[j].state = "READY",
         \A i \in Ingesters : ~IngestCommit(i)
  PROVE  row[j].state = "READY"
<1> USE DEF IInv
<1>0. row \in [Jobs -> Row]
  BY DEF TypeOK, StoreTypeOK
<1>1. CASE UNCHANGED <<row, locked>>
  BY <1>1
<1>2. ASSUME NEW k \in Jobs, EntryWrite(k) PROVE row[j].state = "READY"
  <2>1. \/ row' = [row EXCEPT ![k].available = TRUE]
        \/ \E x \in {"QUEUED", "INGEST_PENDING", "FAILED"} :
             row' = [row EXCEPT ![k].state = x]
    BY <1>2 DEF EntryWrite, Create, CreateJob, Clock, BackoffElapses, Webhook,
       WebhookDelivery, WebhookAudio, WebhookFailure
  <2> QED
    BY <1>0, <2>1 DEF Row
<1>3. ASSUME NEW d \in Dispatchers, DispatchWrite(d) PROVE row[j].state = "READY"
  <2>1. CASE Claim(d)
    BY <1>0, <2>1 DEF Claim, Row
  <2>2. CASE CountActive(d) \/ DispatchCrash(d)
    BY <2>2 DEF CountActive, DispatchCrash
  <2>3. CASE CommitResult(d)
    <3>1. \A r \in Row : Written(r, disp[d].result, disp[d].task).state # "READY"
      BY DEF Written, Row
    <3> QED
      BY <1>0, <2>3, <3>1 DEF CommitResult
  <2> QED
    BY <1>3, <2>1, <2>2, <2>3 DEF DispatchWrite
<1>4. ASSUME NEW i \in Ingesters, IngestWrite(i) PROVE row[j].state = "READY"
  <2>1. CASE IngestClaim(i) \/ IngestCrash(i)
    BY <2>1 DEF IngestClaim, IngestCrash
  <2>2. CASE IngestGiveUp(i)
    <3> DEFINE m == ing[i].job
    <3>1. m \in Jobs /\ row[m] \in Row /\ row[m].state = "INGEST_PENDING"
      BY <1>0, <2>2 DEF IngestGiveUp, LoopsHaveJobs, LocksExclusive, HoldsRow
    <3>2. PICK r \in {RequeueOrFail(row[m]), [row[m] EXCEPT !.state = "FAILED"]} :
            row' = [row EXCEPT ![m] = r]
      BY <2>2 DEF IngestGiveUp
    <3>3. r.state # "READY"
      BY <3>1, <3>2 DEF RequeueOrFail, Row
    <3> QED
      BY <1>0, <3>1, <3>2, <3>3
  <2> QED
    BY <1>4, <2>1, <2>2 DEF IngestWrite
<1>5. ASSUME NEW s \in Sweepers, SweepWrite(s) PROVE row[j].state = "READY"
  BY <1>0, <1>5, SweepWrites
<1> QED
  BY <1>1, <1>2, <1>3, <1>4, <1>5, RowSteps

\* Storage, songs and the queue are written by the ingest loop alone.
LEMMA OnlyIngestWritesSongs ==
  ASSUME [Next]_vars, \A i \in Ingesters : ~(IngestLoop(i) \/ IngestFault(i))
  PROVE  UNCHANGED ingestVars
<1>1. CASE UNCHANGED vars \/ Deadline
  BY <1>1 DEF vars, Deadline
<1>2. ASSUME NEW j \in Jobs, Create(j) \/ Clock(j) \/ Webhook(j) \/ WebhookTail(j)
      PROVE  UNCHANGED ingestVars
  BY <1>2 DEF Create, Clock, Webhook, WebhookTail
<1>3. ASSUME NEW d \in Dispatchers, Dispatch(d) \/ DispatchFault(d)
      PROVE  UNCHANGED ingestVars
  BY <1>3 DEF Dispatch, DispatchFault
<1>4. ASSUME NEW s \in Sweepers, WatchdogTick(s) \/ WatchdogFault(s)
      PROVE  UNCHANGED ingestVars
  BY <1>4 DEF WatchdogTick, WatchdogFault
<1> QED
  BY <1>1, <1>2, <1>3, <1>4 DEF Next

\* The commit: one more queue row when the pre-check said so, and then the job has one.
LEMMA CommitEnqueues ==
  ASSUME IInv, QueueInv, NEW i \in Ingesters, IngestCommit(i)
  PROVE  /\ OneQueueRowPerJob'
         /\ \A j \in Jobs : Enqueued(j)' <=> Enqueued(j) \/ j = ing[i].job
         /\ \A k \in DOMAIN playback' : playback'[k].song \in songs'
<1> DEFINE m == ing[i].job
           e == [job |-> m, song |-> MySong(i)]
           Entry == [job : Jobs, song : Songs]
<1>0. playback \in Seq(Entry)
  BY DEF IInv, TypeOK, IngestTypeOK
<1>1. songs' = songs \cup {MySong(i)} /\ ing[i].pc = "commit"
  BY DEF IngestCommit
<1>2. CASE ing[i].enqueue
  <2>1. playback' = Append(playback, e)
    BY <1>2 DEF IngestCommit
  <2>2. /\ Len(playback) \in Nat
        /\ DOMAIN playback = 1..Len(playback)
        /\ DOMAIN playback' = 1..(Len(playback) + 1)
        /\ \A k \in 1..Len(playback) : playback'[k] = playback[k]
        /\ playback'[Len(playback) + 1] = e
    BY <1>0, <2>1
  <2>3. \A k \in DOMAIN playback : playback[k].job # m
    BY <1>1, <1>2 DEF QueueInv, PreCheckHolds, Enqueued
  <2>4. \A k \in DOMAIN playback' : k \in DOMAIN playback \/ k = Len(playback) + 1
    BY <2>2
  <2>5. e.job = m /\ e.song = MySong(i)
    OBVIOUS
  <2> HIDE DEF e, m
  <2>6. OneQueueRowPerJob'
    <3> SUFFICES ASSUME NEW k \in DOMAIN playback', NEW n \in DOMAIN playback',
                        playback'[k].job = playback'[n].job
                 PROVE  k = n
      BY DEF OneQueueRowPerJob
    <3>1. CASE k \in DOMAIN playback /\ n \in DOMAIN playback
      BY <2>2, <3>1 DEF QueueInv, OneQueueRowPerJob
    <3>2. CASE k = Len(playback) + 1 \/ n = Len(playback) + 1
      BY <2>2, <2>3, <2>4, <2>5, <3>2
    <3> QED
      BY <2>4, <3>1, <3>2
  <2>7. \A j \in Jobs : Enqueued(j)' <=> Enqueued(j) \/ j = m
    BY <2>2, <2>4, <2>5 DEF Enqueued
  <2>8. \A k \in DOMAIN playback' : playback'[k].song \in songs'
    BY <1>1, <2>2, <2>4, <2>5 DEF QueueInv, ReadyMeansPlayable
  <2> QED
    BY <2>6, <2>7, <2>8 DEF m
<1>3. CASE ~ing[i].enqueue
  <2>1. playback' = playback /\ Enqueued(m)
    BY <1>1, <1>3 DEF IngestCommit, QueueInv, PreCheckHolds
  <2> QED
    BY <1>1, <2>1 DEF QueueInv, OneQueueRowPerJob, ReadyMeansPlayable, Enqueued
<1> QED
  BY <1>2, <1>3

\* A step of one ingest loop leaves the others, and the rows they hold, alone.
LEMMA OtherIngestersKept ==
  ASSUME IInv, [Next]_vars, NEW i \in Ingesters, IngestLoop(i) \/ IngestFault(i),
         NEW k \in Ingesters, k # i
  PROVE  /\ ing'[k] = ing[k]
         /\ ~IngestWrite(k)
         /\ HoldsRow(k) => MySong(k)' = MySong(k)
<1>0. ing \in [Ingesters -> [pc : IngestPCs, job : Jobs \cup {NoJob}, enqueue : BOOLEAN]]
  BY DEF IInv, TypeOK, IngestTypeOK
<1>1. ing'[k] = ing[k]
  BY <1>0 DEF IngestLoop, IngestFault, IngestStep, IngestClaim, IngestFetch,
     IngestPut, IngestFinalize, IngestCommit, IngestGiveUp, IngestRelease, IngestCrash,
     GotoIngest
<1>2. ~IngestWrite(k)
  BY <1>0, <1>1 DEF IngestWrite, IngestClaim, IngestCommit, IngestGiveUp,
     IngestCrash, HoldsRow, GotoIngest, IdleIngest
<1>3. HoldsRow(k) => MySong(k)' = MySong(k)
  BY <1>1, <1>2, HeldRowsKept DEF MySong, Song
<1> QED
  BY <1>1, <1>2, <1>3

LEMMA QueueInvIngest ==
  ASSUME IInv, QueueInv, [Next]_vars, NEW i \in Ingesters, IngestLoop(i) \/ IngestFault(i)
  PROVE  QueueInv'
<1> DEFINE m == ing[i].job
<1>0. /\ ing \in [Ingesters -> [pc : IngestPCs, job : Jobs \cup {NoJob}, enqueue : BOOLEAN]]
      /\ row \in [Jobs -> Row]
      /\ ing[i].pc # "idle" => m \in Jobs
  BY DEF IInv, TypeOK, StoreTypeOK, IngestTypeOK, LoopsHaveJobs
<1>1. ASSUME NEW k \in Ingesters, k # i
      PROVE  /\ ing'[k] = ing[k]
             /\ ~IngestCommit(k)
             /\ ing[k].pc \in {"finalize", "commit"} => MySong(k)' = MySong(k)
  BY <1>1, OtherIngestersKept DEF IngestWrite, HoldsRow
<1>2. CASE IngestCommit(i)
  <2>1. /\ ing'[i].pc = "release" /\ MySong(i) \in storage /\ storage' = storage
        /\ songs' = songs \cup {MySong(i)} /\ m \in Jobs
    BY <1>0, <1>2 DEF IngestCommit, GotoIngest, QueueInv, ObjectStored
  <2>2. \A j \in Jobs : row'[j].state = "READY" => row[j].state = "READY" \/ j = m
    BY <1>0, <1>2 DEF IngestCommit
  <2>3. ReadyMeansPlayable'
    <3>1. \A j \in Jobs : row'[j].state = "READY" => Enqueued(j)'
      BY <1>2, <2>2, CommitEnqueues DEF QueueInv, ReadyMeansPlayable, InState, Enqueued
    <3>2. songs' \subseteq storage'
      BY <2>1 DEF QueueInv, ReadyMeansPlayable
    <3> QED
      BY <1>2, <3>1, <3>2, CommitEnqueues DEF ReadyMeansPlayable, InState, Enqueued
  <2>4. ASSUME NEW k \in Ingesters PROVE PreCheckHolds(k)'
    <3> SUFFICES ASSUME ing'[k].pc = "commit" PROVE PreCheckHolds(k)'
      BY DEF PreCheckHolds
    <3>1. k # i /\ ing'[k] = ing[k] /\ ing[k].pc = "commit"
      BY <1>1, <2>1
    <3>2. ing[k].job \in Jobs /\ ing[k].job # m
      BY <1>2, <3>1 DEF IInv, LoopsHaveJobs, LocksExclusive, HoldsRow, IngestCommit
    <3>3. Enqueued(ing[k].job)' <=> Enqueued(ing[k].job)
      BY <1>2, <3>1, <3>2, CommitEnqueues DEF Enqueued
    <3>4. ing[k].enqueue <=> ~Enqueued(ing[k].job)
      BY <3>1 DEF QueueInv, PreCheckHolds
    <3>5. Enqueued(ing[k].job)' <=> \E n \in DOMAIN playback' : playback'[n].job = ing'[k].job
      BY <3>1 DEF Enqueued
    <3> QED
      BY <3>1, <3>3, <3>4, <3>5 DEF PreCheckHolds, Enqueued
  <2>5. ASSUME NEW k \in Ingesters PROVE ObjectStored(k)'
    BY <1>1, <2>1, <2>5 DEF QueueInv, ObjectStored
  <2> QED
    BY <1>2, <2>3, <2>4, <2>5, CommitEnqueues DEF QueueInv
<1>3. CASE ~IngestCommit(i)
  <2>1. /\ UNCHANGED <<songs, playback>> /\ storage \subseteq storage'
        /\ \A j \in Jobs : row'[j].state = "READY" => row[j].state = "READY"
    <3>1. UNCHANGED <<songs, playback>> /\ storage \subseteq storage'
      BY <1>3 DEF IngestLoop, IngestFault, IngestStep, IngestClaim, IngestFetch, IngestPut,
         IngestFinalize, IngestGiveUp, IngestRelease, IngestCrash
    <3> QED
      BY <1>1, <1>3, <3>1, ReadyComesFromIngest
  <2>2. OneQueueRowPerJob' /\ ReadyMeansPlayable'
    BY <2>1 DEF QueueInv, OneQueueRowPerJob, ReadyMeansPlayable, InState
  <2>3. \A j : Enqueued(j)' <=> Enqueued(j)
    BY <2>1 DEF Enqueued
  <2>4. /\ ing'[i].pc = "commit" => (ing'[i].enqueue <=> ~Enqueued(ing'[i].job))
        /\ ObjectStored(i)'
    <3>1. CASE IngestFinalize(i)
      <4>1. ing'[i] = [ing[i] EXCEPT !.pc = "commit",
                         !.enqueue = \A k \in DOMAIN playback : playback[k].job # m]
        BY <1>0, <3>1 DEF IngestFinalize
      <4>2. /\ ing'[i].job = m
            /\ ing'[i].enqueue = (\A k \in DOMAIN playback : playback[k].job # m)
        BY <1>0, <4>1
      <4>3. MySong(i)' = MySong(i) /\ MySong(i) \in storage /\ storage' = storage
        BY <3>1, <4>2 DEF IngestFinalize, MySong, Song, storeVars, QueueInv,
           ObjectStored
      <4> QED
        BY <4>2, <4>3 DEF Enqueued, ObjectStored
    <3>2. CASE IngestFetch(i)
      <4>1. /\ ing'[i].pc = IF MySong(i) \in storage THEN "finalize" ELSE "put"
            /\ ing'[i].job = m /\ UNCHANGED <<row, storage>>
        BY <1>0, <3>2 DEF IngestFetch, GotoIngest, storeVars
      <4> QED
        BY <4>1 DEF MySong, Song, ObjectStored
    <3>3. CASE IngestPut(i)
      <4>1. /\ ing'[i].pc = "finalize" /\ ing'[i].job = m
            /\ row' = row /\ storage' = storage \cup {MySong(i)}
        BY <1>0, <3>3 DEF IngestPut, GotoIngest, storeVars
      <4> QED
        BY <4>1 DEF MySong, Song, ObjectStored
    <3>4. CASE IngestClaim(i) \/ IngestGiveUp(i) \/ IngestRelease(i) \/ IngestCrash(i)
      <4>1. ing'[i].pc \in {"claimed", "release", "idle"}
        BY <1>0, <3>4 DEF IngestClaim, IngestGiveUp, IngestRelease, IngestCrash, IdleIngest
      <4> QED
        BY <4>1 DEF ObjectStored
    <3> QED
      BY <1>3, <3>1, <3>2, <3>3, <3>4 DEF IngestLoop, IngestFault, IngestStep
  <2>5. ASSUME NEW k \in Ingesters, k # i
        PROVE  PreCheckHolds(k)' /\ ObjectStored(k)'
    BY <1>1, <2>1, <2>5 DEF QueueInv, PreCheckHolds, ObjectStored, Enqueued
  <2>6. \A k \in Ingesters : PreCheckHolds(k)' /\ ObjectStored(k)'
    <3>1. PreCheckHolds(i)'
      BY <2>1, <2>4 DEF PreCheckHolds, Enqueued
    <3> QED
      BY <2>4, <2>5, <3>1
  <2> QED
    BY <2>2, <2>6 DEF QueueInv
<1> QED
  BY <1>2, <1>3

LEMMA QueueInvPreserved == IInv /\ QueueInv /\ [Next]_vars => QueueInv'
<1> SUFFICES ASSUME IInv, QueueInv, [Next]_vars,
                    \A i \in Ingesters : ~(IngestLoop(i) \/ IngestFault(i))
             PROVE  QueueInv'
  BY QueueInvIngest
<1>0. ing \in [Ingesters -> [pc : IngestPCs, job : Jobs \cup {NoJob}, enqueue : BOOLEAN]]
  BY DEF IInv, TypeOK, IngestTypeOK
<1>1. UNCHANGED <<ing, storage, songs, playback>>
  BY OnlyIngestWritesSongs DEF ingestVars
<1>2. \A i \in Ingesters : ~IngestWrite(i) /\ ~IngestCommit(i)
  BY <1>0, <1>1 DEF IngestWrite, IngestClaim, IngestCommit, IngestGiveUp, IngestCrash,
     HoldsRow, GotoIngest, IdleIngest
<1>3. \A j \in Jobs : row'[j].state = "READY" => row[j].state = "READY"
  BY <1>2, ReadyComesFromIngest
<1>4. \A i \in Ingesters : HoldsRow(i) => MySong(i)' = MySong(i)
  BY <1>1, <1>2, HeldRowsKept DEF MySong, Song
<1> QED
  BY <1>1, <1>3, <1>4 DEF QueueInv, OneQueueRowPerJob, ReadyMeansPlayable, InState,
     Enqueued, HoldsRow, PreCheckHolds, ObjectStored

LEMMA QueueInvInit == Init => QueueInv
BY DEF Init, StoreInit, NewRow, IngestInit, IdleIngest, QueueInv, OneQueueRowPerJob,
   ReadyMeansPlayable, InState, PreCheckHolds, ObjectStored

LEMMA QueueInvariant == Spec => []QueueInv
BY InductiveInvariant, QueueInvInit, QueueInvPreserved, PTL DEF Spec

\* However many ingest loops, crashes and re-claims there are, a job's song goes into
\* playback_queue at most once, although the table has no unique constraint on job_id.
THEOREM QueueRowOnce == Spec => []OneQueueRowPerJob
<1>1. QueueInv => OneQueueRowPerJob
  BY DEF QueueInv
<1> QED
  BY <1>1, QueueInvariant, PTL

\* At every point a crash can hit, a READY job is in the queue and what the queue
\* refers to has its songs row and its object in storage.
THEOREM ReadyPlayable == Spec => []ReadyMeansPlayable
<1>1. QueueInv => ReadyMeansPlayable
  BY DEF QueueInv
<1> QED
  BY <1>1, QueueInvariant, PTL

-----------------------------------------------------------------------------
(* The refund *)

OwesRefund(s, j) == swp[s].owes = "refund" /\ swp[s].job = j

RefundInv ==
  /\ RefundedAtMostOnce
  /\ \A j \in Jobs : refunds[j] > 0 => row[j].failure_handled
  /\ \A s \in Sweepers, j \in Jobs :
       OwesRefund(s, j) => row[j].failure_handled /\ refunds[j] = 0
  /\ \A s, t \in Sweepers, j \in Jobs : OwesRefund(s, j) /\ OwesRefund(t, j) => s = t

\* No component ever takes the stamp off a row.
LEMMA StampKept ==
  ASSUME IInv, [Next]_vars, NEW j \in Jobs, row[j].failure_handled
  PROVE  row'[j].failure_handled
<1> USE DEF IInv
<1>0. row \in [Jobs -> Row]
  BY DEF TypeOK, StoreTypeOK
<1>1. CASE UNCHANGED <<row, locked>>
  BY <1>1
<1>2. ASSUME NEW k \in Jobs, EntryWrite(k) PROVE row'[j].failure_handled
  <2>1. \/ row' = [row EXCEPT ![k].available = TRUE]
        \/ \E x \in {"QUEUED", "INGEST_PENDING", "FAILED"} :
             row' = [row EXCEPT ![k].state = x]
    BY <1>2 DEF EntryWrite, Create, CreateJob, Clock, BackoffElapses, Webhook,
       WebhookDelivery, WebhookAudio, WebhookFailure
  <2> QED
    BY <1>0, <2>1 DEF Row
<1>3. ASSUME NEW d \in Dispatchers, DispatchWrite(d) PROVE row'[j].failure_handled
  <2>1. CASE Claim(d)
    BY <1>0, <2>1 DEF Claim, Row
  <2>2. CASE CountActive(d) \/ DispatchCrash(d)
    BY <2>2 DEF CountActive, DispatchCrash
  <2>3. CASE CommitResult(d)
    <3>1. \A r \in Row : Written(r, disp[d].result, disp[d].task).failure_handled
                           = r.failure_handled
      BY DEF Written, Row
    <3> QED
      BY <1>0, <2>3, <3>1 DEF CommitResult
  <2> QED
    BY <1>3, <2>1, <2>2, <2>3 DEF DispatchWrite
<1>4. ASSUME NEW i \in Ingesters, IngestWrite(i) PROVE row'[j].failure_handled
  <2>1. CASE IngestClaim(i) \/ IngestCrash(i)
    BY <2>1 DEF IngestClaim, IngestCrash
  <2>2. CASE IngestCommit(i)
    BY <1>0, <2>2 DEF IngestCommit, Row
  <2>3. CASE IngestGiveUp(i)
    <3>1. \A r \in Row : /\ RequeueOrFail(r).failure_handled = r.failure_handled
                         /\ [r EXCEPT !.state = "FAILED"].failure_handled = r.failure_handled
      BY DEF RequeueOrFail, Row
    <3>2. PICK r \in {RequeueOrFail(row[ing[i].job]), [row[ing[i].job] EXCEPT !.state = "FAILED"]} :
            row' = [row EXCEPT ![ing[i].job] = r]
      BY <2>3 DEF IngestGiveUp
    <3>3. ing[i].job \in Jobs /\ row[ing[i].job] \in Row
      BY <1>0, <2>3 DEF IngestGiveUp, LoopsHaveJobs
    <3>4. r.failure_handled = row[ing[i].job].failure_handled
      BY <3>1, <3>2, <3>3
    <3> QED
      BY <1>0, <3>2, <3>3, <3>4
  <2> QED
    BY <1>4, <2>1, <2>2, <2>3 DEF IngestWrite
<1>5. ASSUME NEW s \in Sweepers, SweepWrite(s) PROVE row'[j].failure_handled
  BY <1>0, <1>5, SweepWrites
<1> QED
  BY <1>1, <1>2, <1>3, <1>4, <1>5, RowSteps

\* Refunds, and the debts that lead to them, come only from these steps.
LEMMA RefundSteps ==
  ASSUME IInv, [Next]_vars
  PROVE  \/ refunds' = refunds /\ \A s \in Sweepers, j \in Jobs :
                                    OwesRefund(s, j)' => OwesRefund(s, j)
         \/ \E s \in Sweepers : SweepFailures(s) \/ SweeperRefund(s)
<1> USE DEF IInv
<1>0. swp \in [Sweepers -> Tick]
  BY DEF TypeOK, WatchdogTypeOK, Tick
<1>1. CASE UNCHANGED vars \/ Deadline
  BY <1>1 DEF vars, watchdogVars, Deadline, DeadlinePasses, OwesRefund
<1>2. ASSUME NEW j \in Jobs, Create(j) \/ Clock(j) \/ Webhook(j) \/ WebhookTail(j)
      PROVE  UNCHANGED <<refunds, swp>>
  BY <1>2 DEF Create, Clock, Webhook, WebhookTail, watchdogVars
<1>3. ASSUME NEW d \in Dispatchers, Dispatch(d) \/ DispatchFault(d)
      PROVE  UNCHANGED <<refunds, swp>>
  BY <1>3 DEF Dispatch, DispatchFault, watchdogVars
<1>4. ASSUME NEW i \in Ingesters, IngestLoop(i) \/ IngestFault(i)
      PROVE  UNCHANGED <<refunds, swp>>
  BY <1>4 DEF IngestLoop, IngestFault, watchdogVars
<1>5. ASSUME NEW s \in Sweepers, WatchdogTick(s) \/ WatchdogFault(s),
             ~SweepFailures(s), ~SweeperRefund(s)
      PROVE  refunds' = refunds /\ \A t \in Sweepers, j \in Jobs :
                                     OwesRefund(t, j)' => OwesRefund(t, j)
  <2>1. ASSUME NEW j \in Jobs, NEW r, NEW owes \in {"none", "release"}, Sweep(s, j, r, owes)
        PROVE  refunds' = refunds /\ \A t \in Sweepers, k \in Jobs :
                                       OwesRefund(t, k)' => OwesRefund(t, k)
    BY <1>0, <2>1 DEF Sweep, OwesRefund, Tick
  <2>2. CASE SweepWaiting(s) \/ SweepSubmitting(s) \/ SweepIngest(s) \/ SweepExpired(s)
    BY <2>1, <2>2 DEF SweepWaiting, SweepSubmitting, SweepIngest, SweepExpired, Expire,
       InState, Stuck
  <2>3. CASE SweeperRelease(s) \/ SweeperCrash(s)
    <3>1. refunds' = refunds /\ swp'[s].owes = "none"
          /\ \A t \in Sweepers : t # s => swp'[t] = swp[t]
      BY <1>0, <2>3 DEF SweeperRelease, SweeperCrash, TickStart, Tick
    <3> QED
      BY <3>1 DEF OwesRefund
  <2>4. CASE NextStage(s) \/ Reconcile(s)
    <3>1. /\ refunds' = refunds
          /\ \/ swp'[s].owes = "none"
             \/ swp'[s].owes = swp[s].owes /\ swp'[s].job = swp[s].job
          /\ \A t \in Sweepers : t # s => swp'[t] = swp[t]
      <4>1. CASE NextStage(s) \/ CorrectSlots(s)
        BY <1>0, <4>1 DEF NextStage, CorrectSlots, Tick
      <4>2. CASE ReadCount(s) \/ ReadCountByUser(s)
        BY <1>0, <4>2 DEF ReadCount, ReadCountByUser, Tick
      <4>3. CASE CorrectUserSlots(s)
        <5>1. refunds' = refunds /\ swp' = [swp EXCEPT ![s] = TickStart]
          BY <4>3 DEF CorrectUserSlots
        <5>2. swp'[s] = TickStart /\ \A t \in Sweepers : t # s => swp'[t] = swp[t]
          BY <1>0, <5>1
        <5>3. TickStart.owes = "none"
          BY DEF TickStart
        <5> QED
          BY <5>1, <5>2, <5>3
      <4> QED
        BY <2>4, <4>1, <4>2, <4>3 DEF Reconcile
    <3> QED
      BY <3>1 DEF OwesRefund
  <2> QED
    BY <1>5, <2>2, <2>3, <2>4 DEF WatchdogTick, WatchdogFault, SweeperStep
<1> QED
  BY <1>1, <1>2, <1>3, <1>4, <1>5 DEF Next, OwesRefund

LEMMA RefundInvPreserved == IInv /\ RefundInv /\ [Next]_vars => RefundInv'
<1> SUFFICES ASSUME IInv, RefundInv, [Next]_vars PROVE RefundInv'
  OBVIOUS
<1> USE DEF RefundInv, RefundedAtMostOnce
<1>0. /\ swp \in [Sweepers -> Tick]
      /\ refunds \in [Jobs -> Nat]
      /\ row \in [Jobs -> Row]
  BY DEF IInv, TypeOK, StoreTypeOK, WatchdogTypeOK, Tick
<1>1. \A j \in Jobs : row[j].failure_handled => row'[j].failure_handled
  BY StampKept
<1>2. CASE refunds' = refunds /\ \A s \in Sweepers, j \in Jobs :
                                   OwesRefund(s, j)' => OwesRefund(s, j)
  BY <1>1, <1>2
<1>3. ASSUME NEW s \in Sweepers, SweepFailures(s) PROVE RefundInv'
  <2>1. PICK j \in Jobs :
          /\ ~row[j].failure_handled
          /\ row' = [row EXCEPT ![j] = [row[j] EXCEPT !.failure_handled = TRUE]]
          /\ swp' = [swp EXCEPT ![s].owes = "refund", ![s].job = j]
          /\ refunds' = refunds
    BY <1>3 DEF SweepFailures, Sweep, Claims, Unhandled, InState
  <2>2. row'[j].failure_handled
    BY <1>0, <2>1 DEF Row
  <2>3. refunds[j] = 0 /\ \A t \in Sweepers : ~OwesRefund(t, j)
    BY <1>0, <2>1
  <2>4. /\ \A k \in Jobs : OwesRefund(s, k)' => k = j
        /\ \A t \in Sweepers, k \in Jobs : t # s => (OwesRefund(t, k)' <=> OwesRefund(t, k))
    BY <1>0, <2>1 DEF OwesRefund, Tick
  <2> QED
    BY <1>1, <2>1, <2>2, <2>3, <2>4
<1>4. ASSUME NEW s \in Sweepers, SweeperRefund(s) PROVE RefundInv'
  <2> DEFINE j == swp[s].job
  <2>1. j \in Jobs /\ OwesRefund(s, j)
    BY <1>4 DEF SweeperRefund, IInv, LoopsHaveJobs, OwesRefund
  <2>2. row' = row /\ refunds' \in {refunds, [refunds EXCEPT ![j] = @ + 1]}
    BY <1>4 DEF SweeperRefund
  <2>3. refunds[j] = 0 /\ row[j].failure_handled
    BY <2>1
  <2>4. /\ \A k \in Jobs : ~OwesRefund(s, k)'
        /\ \A t \in Sweepers, k \in Jobs : t # s => (OwesRefund(t, k)' <=> OwesRefund(t, k))
    BY <1>0, <1>4 DEF SweeperRefund, OwesRefund, Tick
  <2>5. \A t \in Sweepers, k \in Jobs : OwesRefund(t, k)' => OwesRefund(t, k) /\ k # j
    BY <2>1, <2>4
  <2>6. \A k \in Jobs : k # j => refunds'[k] = refunds[k]
    BY <1>0, <2>2
  <2>7. refunds'[j] \in {0, 1}
    BY <1>0, <2>1, <2>2, <2>3
  <2> QED
    BY <1>0, <2>1, <2>2, <2>3, <2>4, <2>5, <2>6, <2>7
<1> QED
  BY <1>2, <1>3, <1>4, RefundSteps

LEMMA RefundInvariant == Spec => []RefundInv
<1>1. Init => RefundInv
  BY DEF Init, WatchdogInit, TickStart, RefundInv, RefundedAtMostOnce, OwesRefund
<1>2. IInv /\ RefundInv /\ [Next]_vars => RefundInv'
  BY RefundInvPreserved
<1> QED
  BY <1>1, <1>2, InductiveInvariant, PTL DEF Spec

\* A failed job's quota is given back at most once, whichever watchdogs find the
\* failure, wherever they crash, and even if the job comes back and fails again.
THEOREM RefundAtMostOnce == Spec => []RefundedAtMostOnce
<1>1. RefundInv => RefundedAtMostOnce
  BY DEF RefundInv
<1> QED
  BY <1>1, RefundInvariant, PTL
=============================================================================

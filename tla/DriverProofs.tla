---------------------------- MODULE DriverProofs -----------------------------
(***************************************************************************)
(* Who drives a job, for any number of loops, jobs and faults, while the   *)
(* SUBMITTING lease outlasts a live dispatch (LeaseCoversCall).  Between   *)
(* the commit of a claim and the blind UPDATE that ends it a dispatch loop *)
(* holds no lock: what keeps its job from a second loop is that nothing    *)
(* but that UPDATE, or a lease that has run out, brings the row back to    *)
(* QUEUED.                                                                 *)
(***************************************************************************)
EXTENDS OutcomeProofs

-----------------------------------------------------------------------------
(* How the state of a row changes *)

Kept(j) == row'[j].state = row[j].state /\ row'[j].task_id = row[j].task_id
Becomes(j, from, to) ==
  row[j].state \in from /\ row'[j].state = to /\ row'[j].task_id = row[j].task_id

\* The ways a row moves that are not a dispatch loop's.
Moves(j) ==
  \/ Becomes(j, {"ABSENT"}, "QUEUED")
  \/ Becomes(j, {"WAITING_FOR_WEBHOOK"}, "INGEST_PENDING")
  \/ Becomes(j, {"INGEST_PENDING"}, "READY") /\ \E i \in Ingesters : IngestCommit(i)
  \/ Becomes(j, {"WAITING_FOR_WEBHOOK", "INGEST_PENDING"}, "FAILED")
  \/ Becomes(j, {"SUBMITTING"}, "QUEUED") /\ j \in Stuck
  \/ Becomes(j, NonTerminalStates, "FAILED") /\ j \in Expirable

ClaimsRow(d, j) ==
  /\ Becomes(j, {"QUEUED"}, "SUBMITTING")
  /\ disp[d].pc = "idle" /\ disp'[d].pc = "acquire" /\ disp'[d].job = j
  /\ \A k \in Jobs : k # j => row'[k] = row[k]

LEMMA ClaimStep ==
  ASSUME IInv, NEW d \in Dispatchers, Claim(d)
  PROVE  \E j \in Jobs : ClaimsRow(d, j)
<1>1. PICK j \in Jobs :
        /\ row[j].state = "QUEUED"
        /\ row' = [row EXCEPT ![j].state = "SUBMITTING"]
        /\ disp' = [disp EXCEPT ![d] = [IdleDispatch EXCEPT !.pc = "acquire", !.job = j]]
  BY DEF Claim, Claims, InState
<1>2. row \in [Jobs -> Row] /\ disp[d].pc = "idle"
  BY DEF IInv, TypeOK, StoreTypeOK, Claim
<1>3. disp'[d] = [IdleDispatch EXCEPT !.pc = "acquire", !.job = j]
  BY <1>1 DEF IInv, TypeOK, DispatchTypeOK
<1>4. disp'[d].pc = "acquire" /\ disp'[d].job = j
  BY <1>3 DEF IdleDispatch
<1>5. Becomes(j, {"QUEUED"}, "SUBMITTING") /\ \A k \in Jobs : k # j => row'[k] = row[k]
  BY <1>1, <1>2 DEF Becomes, Row
<1> QED
  BY <1>2, <1>4, <1>5 DEF ClaimsRow

LEMMA EntryMoves ==
  ASSUME IInv, NEW k \in Jobs, EntryWrite(k), NEW j \in Jobs
  PROVE  Kept(j) \/ Moves(j)
<1>0. row \in [Jobs -> Row]
  BY DEF IInv, TypeOK, StoreTypeOK
<1>1. CASE Create(k)
  BY <1>0, <1>1 DEF Create, CreateJob, Kept, Moves, Becomes, Row
<1>2. CASE Clock(k)
  BY <1>0, <1>2 DEF Clock, BackoffElapses, Kept, Row
<1>3. CASE Webhook(k)
  <2>1. /\ row[k].state = "WAITING_FOR_WEBHOOK"
        /\ \E x \in {"INGEST_PENDING", "FAILED"} : row' = [row EXCEPT ![k].state = x]
    BY <1>3 DEF Webhook, WebhookDelivery, WebhookAudio, WebhookFailure, Deliverable
  <2> QED
    BY <1>0, <2>1 DEF Kept, Moves, Becomes, Row
<1> QED
  BY <1>1, <1>2, <1>3 DEF EntryWrite

LEMMA IngestMoves ==
  ASSUME IInv, NEW i \in Ingesters, IngestWrite(i), NEW j \in Jobs
  PROVE  Kept(j) \/ Moves(j)
<1> DEFINE m == ing[i].job
<1>0. row \in [Jobs -> Row]
  BY DEF IInv, TypeOK, StoreTypeOK
<1>1. CASE IngestClaim(i) \/ IngestCrash(i)
  BY <1>1 DEF IngestClaim, IngestCrash, Kept
<1>2. CASE IngestCommit(i)
  <2>1. /\ row[m].state = "INGEST_PENDING" /\ m \in Jobs
        /\ row' = [row EXCEPT ![m].state = "READY", ![m].song_id = row[m].task_id]
    BY <1>2 DEF IngestCommit, IInv, LoopsHaveJobs, LocksExclusive, HoldsRow
  <2>2. row' = [row EXCEPT ![m] = [row[m] EXCEPT !.state = "READY", !.song_id = row[m].task_id]]
    BY <1>0, <2>1
  <2>3. LET r == [row[m] EXCEPT !.state = "READY", !.song_id = row[m].task_id]
        IN  r.state = "READY" /\ r.task_id = row[m].task_id
    BY <1>0, <2>1 DEF Row
  <2> QED
    BY <1>0, <1>2, <2>1, <2>2, <2>3 DEF Kept, Moves, Becomes
<1>3. CASE IngestGiveUp(i)
  <2>1. PICK r \in {RequeueOrFail(row[m]), [row[m] EXCEPT !.state = "FAILED"]} :
          row' = [row EXCEPT ![m] = r]
    BY <1>3 DEF IngestGiveUp
  <2>2. m \in Jobs /\ row[m] \in Row /\ row[m].state = "INGEST_PENDING"
    BY <1>0, <1>3 DEF IngestGiveUp, IInv, LoopsHaveJobs, LocksExclusive, HoldsRow
  <2>3. r.task_id = row[m].task_id /\ r.state \in {"INGEST_PENDING", "FAILED"}
    BY <2>1, <2>2 DEF RequeueOrFail, Row
  <2> QED
    BY <1>0, <2>1, <2>2, <2>3 DEF Kept, Moves, Becomes
<1> QED
  BY <1>1, <1>2, <1>3 DEF IngestWrite

LEMMA SweepMoves ==
  ASSUME IInv, NEW s \in Sweepers, SweepWrite(s), NEW j \in Jobs
  PROVE  Kept(j) \/ Moves(j)
<1>0. row \in [Jobs -> Row]
  BY DEF IInv, TypeOK, StoreTypeOK
<1>1. CASE SweepWaiting(s)
  <2>1. PICK k \in Jobs : /\ row[k].state = "WAITING_FOR_WEBHOOK"
                          /\ \/ row' = [row EXCEPT ![k] = [row[k] EXCEPT !.state = "INGEST_PENDING"]]
                             \/ row' = [row EXCEPT ![k] = Failed(row[k])]
    BY <1>1 DEF SweepWaiting, InState, Sweep
  <2> QED
    BY <1>0, <2>1 DEF Kept, Moves, Becomes, Failed, Row
<1>2. CASE SweepSubmitting(s)
  <2>1. PICK k \in Stuck :
          row' = [row EXCEPT ![k] = [row[k] EXCEPT !.state = "QUEUED", !.available = TRUE]]
    BY <1>2 DEF SweepSubmitting, Sweep
  <2>2. k \in Jobs /\ row[k].state = "SUBMITTING"
    BY DEF Stuck, InState
  <2>3. LET r == [row[k] EXCEPT !.state = "QUEUED", !.available = TRUE]
        IN  r.state = "QUEUED" /\ r.task_id = row[k].task_id
    BY <1>0, <2>2 DEF Row
  <2> QED
    BY <1>0, <2>1, <2>2, <2>3 DEF Kept, Moves, Becomes
<1>3. CASE SweepIngest(s)
  <2>1. PICK k \in Jobs : /\ row[k].state = "INGEST_PENDING"
                          /\ \/ row' = [row EXCEPT ![k] = [row[k] EXCEPT !.available = TRUE]]
                             \/ row' = [row EXCEPT ![k] = Failed(row[k])]
    BY <1>3 DEF SweepIngest, InState, Sweep
  <2> QED
    BY <1>0, <2>1 DEF Kept, Moves, Becomes, Failed, Row
<1>4. CASE SweepExpired(s)
  <2>1. PICK k \in Jobs : k \in Expirable /\ row' = [row EXCEPT ![k] = Failed(row[k])]
    BY <1>4 DEF SweepExpired, Expire, Claims, Sweep
  <2>2. row[k].state \in NonTerminalStates
    BY <2>1 DEF Expirable, InState
  <2> QED
    BY <1>0, <2>1, <2>2 DEF Kept, Moves, Becomes, Failed, Row
<1>5. CASE SweepFailures(s)
  <2>1. PICK k \in Jobs : row' = [row EXCEPT ![k] = [row[k] EXCEPT !.failure_handled = TRUE]]
    BY <1>5 DEF SweepFailures, Sweep
  <2> QED
    BY <1>0, <2>1 DEF Kept, Row
<1> QED
  BY <1>1, <1>2, <1>3, <1>4, <1>5 DEF SweepWrite

\* Every step, seen from one row.
LEMMA StateSteps ==
  ASSUME IInv, [Next]_vars, NEW j \in Jobs
  PROVE  \/ Kept(j)
         \/ Moves(j)
         \/ \E d \in Dispatchers : Claim(d) /\ ClaimsRow(d, j)
         \/ \E d \in Dispatchers : CommitResult(d) /\ disp[d].job = j
<1>0. row \in [Jobs -> Row]
  BY DEF IInv, TypeOK, StoreTypeOK
<1>1. ASSUME NEW d \in Dispatchers, DispatchWrite(d)
      PROVE  \/ Kept(j)
             \/ Claim(d) /\ ClaimsRow(d, j)
             \/ CommitResult(d) /\ disp[d].job = j
  <2>1. CASE Claim(d)
    BY <2>1, ClaimStep DEF Kept, ClaimsRow
  <2>2. CASE CountActive(d) \/ DispatchCrash(d)
    BY <2>2 DEF CountActive, DispatchCrash, Kept
  <2>3. CASE CommitResult(d)
    BY <1>0, <2>3 DEF CommitResult, Kept
  <2> QED
    BY <1>1, <2>1, <2>2, <2>3 DEF DispatchWrite
<1> QED
  BY <1>1, EntryMoves, IngestMoves, SweepMoves, RowSteps DEF Kept

-----------------------------------------------------------------------------
(* One loop drives a job *)

Driving(d) == disp[d].pc # "idle"

\* A driven job is SUBMITTING, or was failed at its deadline meanwhile; its loop is
\* the only one that has it, and its task is not known yet.
DriverInv ==
  /\ OneDriverPerJob
  /\ \A d \in Dispatchers : ~Driving(d) => disp[d].job = NoJob
  /\ \A d \in Dispatchers : Driving(d) =>
       row[disp[d].job].state \in {"SUBMITTING", "FAILED"} /\ row[disp[d].job].task_id = NoTask
  /\ \A j \in Jobs : row[j].state \in {"ABSENT", "QUEUED", "SUBMITTING"} =>
                       row[j].task_id = NoTask

\* A dispatch loop takes a job by a claim, lets it go in one step, and keeps it
\* in between; only its first and its last step write the row.
LEMMA DriverSteps ==
  ASSUME IInv, NEW d \in Dispatchers, Dispatch(d) \/ DispatchFault(d)
  PROVE  /\ \A e \in Dispatchers : e # d => disp'[e] = disp[e]
         /\ \/ \E j \in Jobs : ClaimsRow(d, j)
            \/ Driving(d) /\ disp'[d] = IdleDispatch /\ (CommitResult(d) \/ row' = row)
            \/ Driving(d) /\ Driving(d)' /\ disp'[d].job = disp[d].job /\ row' = row
<1>0. disp \in [Dispatchers -> [pc : DispatchPCs, job : Jobs \cup {NoJob},
                   result : Results \cup {"none"}, task : Tasks \cup {NoTask}, count : Nat]]
  BY DEF IInv, TypeOK, DispatchTypeOK
<1>1. \A e \in Dispatchers : e # d => disp'[e] = disp[e]
  BY <1>0 DEF Dispatch, DispatchFault, DispatchStep, Claim, AcquireGlobal,
     AcquireUser, RollBackGlobal, CallApi, DispatchRelease, CountActive, CorrectGlobal,
     CommitResult, DispatchCrash, Goto, GotoWith
<1>2. CASE Claim(d)
  BY <1>1, <1>2, ClaimStep
<1>3. CASE CommitResult(d) \/ DispatchCrash(d)
  BY <1>0, <1>1, <1>3 DEF CommitResult, DispatchCrash, Driving
<1>4. CASE AcquireGlobal(d) \/ AcquireUser(d) \/ RollBackGlobal(d)
  BY <1>0, <1>1, <1>4 DEF AcquireGlobal, AcquireUser, RollBackGlobal, Goto, GotoWith,
     Driving, storeVars
<1>5. CASE CallApi(d)
  BY <1>0, <1>1, <1>5 DEF CallApi, GotoWith, Driving
<1>6. CASE DispatchRelease(d) \/ CountActive(d) \/ CorrectGlobal(d)
  BY <1>0, <1>1, <1>6 DEF DispatchRelease, CountActive, CorrectGlobal, Goto, Driving
<1> QED
  BY <1>2, <1>3, <1>4, <1>5, <1>6 DEF Dispatch, DispatchFault, DispatchStep

\* The row of a driven job only ever passes its deadline: the lease keeps the
\* watchdog from requeueing it, and no other loop claims it.
LEMMA DrivenRowKept ==
  ASSUME LeaseCoversCall, IInv, DriverInv, [Next]_vars, NEW d \in Dispatchers, Driving(d),
         ~CommitResult(d)
  PROVE  LET j == disp[d].job
         IN  /\ row'[j].task_id = NoTask
             /\ \/ row'[j].state = row[j].state
                \/ row'[j].state = "FAILED" /\ j \in Expirable
<1> DEFINE j == disp[d].job
<1>1. j \in Jobs /\ row[j].state \in {"SUBMITTING", "FAILED"} /\ row[j].task_id = NoTask
  BY DEF IInv, LoopsHaveJobs, DriverInv, Driving
<1>2. CASE Kept(j)
  BY <1>1, <1>2 DEF Kept
<1>3. CASE Moves(j)
  <2>1. j \notin Stuck
    BY DEF Stuck, Driven
  <2> QED
    BY <1>1, <1>3, <2>1 DEF Moves, Becomes
<1>4. ASSUME NEW e \in Dispatchers, ClaimsRow(e, j) PROVE FALSE
  BY <1>1, <1>4 DEF ClaimsRow, Becomes
<1>5. ASSUME NEW e \in Dispatchers, CommitResult(e), disp[e].job = j PROVE FALSE
  <2>1. disp[e].pc # "idle"
    BY <1>5 DEF CommitResult
  <2> QED
    BY <1>5, <2>1 DEF DriverInv, OneDriverPerJob
<1> QED
  BY <1>1, <1>2, <1>3, <1>4, <1>5, StateSteps

\* A blind UPDATE stores a task only together with WAITING_FOR_WEBHOOK.
LEMMA WrittenTask ==
  ASSUME NEW r \in Row, NEW result, NEW task
  PROVE  LET w == Written(r, result, task)
         IN  \/ w.state = "WAITING_FOR_WEBHOOK"
             \/ w.state \in {"QUEUED", "FAILED"} /\ w.task_id = r.task_id
BY DEF Written, Row

LEMMA HandlesKept ==
  ASSUME IInv, DriverInv, [Next]_vars, NEW j \in Jobs,
         row'[j].state \in {"ABSENT", "QUEUED", "SUBMITTING"}
  PROVE  row'[j].task_id = NoTask
<1>0. row \in [Jobs -> Row]
  BY DEF IInv, TypeOK, StoreTypeOK
<1>1. CASE Kept(j)
  BY <1>1 DEF Kept, DriverInv
<1>2. CASE Moves(j)
  BY <1>2 DEF Moves, Becomes, DriverInv
<1>3. ASSUME NEW d \in Dispatchers, ClaimsRow(d, j) PROVE row'[j].task_id = NoTask
  BY <1>3 DEF ClaimsRow, Becomes, DriverInv
<1>4. ASSUME NEW d \in Dispatchers, CommitResult(d), disp[d].job = j
      PROVE  row'[j].task_id = NoTask
  <2>1. row'[j] = Written(row[j], disp[d].result, disp[d].task)
    BY <1>0, <1>4 DEF CommitResult
  <2>2. row[j].task_id = NoTask
    BY <1>4 DEF CommitResult, DriverInv, Driving
  <2> QED
    BY <1>0, <2>1, <2>2, WrittenTask
<1> QED
  BY <1>1, <1>2, <1>3, <1>4, StateSteps

LEMMA DriverInvPreserved ==
  ASSUME LeaseCoversCall, IInv, DriverInv, [Next]_vars
  PROVE  DriverInv'
<1>1. \A j \in Jobs : row'[j].state \in {"ABSENT", "QUEUED", "SUBMITTING"} =>
                        row'[j].task_id = NoTask
  BY HandlesKept
<1>2. \A d \in Dispatchers : Driving(d) /\ ~CommitResult(d) =>
        row'[disp[d].job].state \in {"SUBMITTING", "FAILED"} /\ row'[disp[d].job].task_id = NoTask
  BY DrivenRowKept DEF DriverInv
<1>3. CASE UNCHANGED disp
  <2>1. \A d \in Dispatchers : Driving(d) => ~CommitResult(d)
    <3> SUFFICES ASSUME NEW d \in Dispatchers, CommitResult(d) PROVE FALSE
      OBVIOUS
    <3>1. disp'[d].pc = "idle" /\ disp[d].pc = "commit"
      BY DEF CommitResult, IInv, TypeOK, DispatchTypeOK, IdleDispatch
    <3> QED
      BY <1>3, <3>1
  <2> QED
    BY <1>1, <1>2, <1>3, <2>1 DEF DriverInv, OneDriverPerJob, Driving
<1>4. ASSUME NEW d \in Dispatchers, Dispatch(d) \/ DispatchFault(d)
      PROVE  DriverInv'
  <2>1. \A e \in Dispatchers : e # d => disp'[e] = disp[e]
    BY <1>4, DriverSteps
  <2>2. \A e \in Dispatchers : e # d => ~CommitResult(e)
    <3> SUFFICES ASSUME NEW e \in Dispatchers, e # d, CommitResult(e) PROVE FALSE
      OBVIOUS
    <3>1. disp'[e].pc = "idle" /\ disp[e].pc = "commit"
      BY DEF CommitResult, IInv, TypeOK, DispatchTypeOK, IdleDispatch
    <3> QED
      BY <2>1, <3>1
  <2>3. CASE \E j \in Jobs : ClaimsRow(d, j)
    <3>1. PICK j \in Jobs : ClaimsRow(d, j)
      BY <2>3
    <3>2. /\ row[j].state = "QUEUED" /\ disp'[d].job = j /\ Driving(d)'
          /\ row'[j].state = "SUBMITTING"
      BY <3>1 DEF ClaimsRow, Becomes, Driving
    <3>3. \A e \in Dispatchers : Driving(e) => disp[e].job # j
      BY <3>2 DEF DriverInv
    <3>4. ASSUME NEW e \in Dispatchers, disp'[e].pc # "idle"
          PROVE  /\ row'[disp'[e].job].state \in {"SUBMITTING", "FAILED"}
                 /\ row'[disp'[e].job].task_id = NoTask
      BY <1>1, <1>2, <2>1, <2>2, <3>2, <3>4 DEF Driving
    <3>5. \A e \in Dispatchers : e # d => disp'[e].job # j
      BY <2>1, <3>2, <3>3 DEF DriverInv, Driving, Jobs, NoJob
    <3>6. OneDriverPerJob'
      BY <2>1, <3>2, <3>5 DEF DriverInv, OneDriverPerJob
    <3> QED
      BY <1>1, <2>1, <3>2, <3>4, <3>6 DEF DriverInv, Driving
  <2>4. CASE disp'[d] = IdleDispatch
    <3>1. ~Driving(d)' /\ disp'[d].job = NoJob
      BY <2>4 DEF IdleDispatch, Driving
    <3>2. \A e \in Dispatchers : Driving(e) => disp[e].job # NoJob
      BY DEF IInv, LoopsHaveJobs, Driving, Jobs, NoJob
    <3> QED
      BY <1>1, <1>2, <2>1, <2>2, <3>1, <3>2 DEF DriverInv, OneDriverPerJob, Driving
  <2>5. CASE Driving(d) /\ Driving(d)' /\ disp'[d].job = disp[d].job
    <3>1. ~CommitResult(d)
      <4> SUFFICES ASSUME CommitResult(d) PROVE FALSE
        OBVIOUS
      <4>1. disp'[d].pc = "idle"
        BY DEF CommitResult, IInv, TypeOK, DispatchTypeOK, IdleDispatch
      <4> QED
        BY <2>5, <4>1 DEF Driving
    <3> QED
      BY <1>1, <1>2, <2>1, <2>2, <2>5, <3>1 DEF DriverInv, OneDriverPerJob, Driving
  <2> QED
    BY <1>4, <2>3, <2>4, <2>5, DriverSteps
<1> QED
  BY <1>3, <1>4, StepFrames

LEMMA DriverInvInit == Init => DriverInv
BY DEF Init, DispatchInit, StoreInit, IdleDispatch, NewRow, DriverInv, OneDriverPerJob, Driving

LEMMA DriverInvariant ==
  ASSUME LeaseCoversCall
  PROVE  Spec => []DriverInv
<1>1. IInv /\ DriverInv /\ [Next]_vars => DriverInv'
  BY DriverInvPreserved
<1> QED
  BY <1>1, DriverInvInit, InductiveInvariant, PTL DEF Spec

\* While the lease outlasts every live dispatch, no two loops ever drive one job,
\* however many of them crash and whatever the watchdogs requeue: no song is paid
\* for twice and no loop's UPDATE meets another's.
THEOREM OneDriver ==
  ASSUME LeaseCoversCall
  PROVE  Spec => []OneDriverPerJob
<1>1. DriverInv => OneDriverPerJob
  BY DEF DriverInv
<1> QED
  BY <1>1, DriverInvariant, PTL

\* Only the API call of a dispatch creates a task.
LEMMA CallSteps ==
  ASSUME IInv, [Next]_vars, NEW j \in Jobs, calls'[j] # calls[j]
  PROVE  \E d \in Dispatchers : CallApi(d) /\ disp[d].job = j
<1> USE DEF storeVars
<1>1. CASE UNCHANGED vars \/ Deadline
  BY <1>1 DEF vars, Deadline, DeadlinePasses
<1>2. ASSUME NEW k \in Jobs, Create(k) \/ Clock(k) \/ Webhook(k) \/ WebhookTail(k)
      PROVE  calls' = calls
  BY <1>2 DEF Create, CreateJob, Clock, BackoffElapses, Webhook, WebhookDelivery,
     WebhookAudio, WebhookFailure, WebhookTail, WebhookRelease
<1>3. ASSUME NEW d \in Dispatchers, Dispatch(d) \/ DispatchFault(d), ~CallApi(d)
      PROVE  calls' = calls
  BY <1>3 DEF Dispatch, DispatchFault, DispatchStep, Claim, AcquireGlobal, AcquireUser,
     RollBackGlobal, DispatchRelease, CountActive, CorrectGlobal, CommitResult, DispatchCrash
<1>4. ASSUME NEW d \in Dispatchers, CallApi(d) PROVE disp[d].job = j
  BY <1>4 DEF CallApi, IInv, TypeOK, StoreTypeOK
<1>5. ASSUME NEW i \in Ingesters, IngestLoop(i) \/ IngestFault(i)
      PROVE  calls' = calls
  BY <1>5 DEF IngestLoop, IngestFault, IngestStep, IngestClaim, IngestFetch, IngestPut,
     IngestFinalize, IngestCommit, IngestGiveUp, IngestRelease, IngestCrash
<1>6. ASSUME NEW s \in Sweepers, WatchdogTick(s) \/ WatchdogFault(s)
      PROVE  calls' = calls
  BY <1>6 DEF WatchdogTick, WatchdogFault, SweeperStep, SweeperCrash, SweepWaiting,
     SweepSubmitting, SweepIngest, SweepExpired, Expire, SweepFailures, Sweep,
     SweeperRelease, SweeperRefund, NextStage, Reconcile, ReadCount, ReadCountByUser,
     CorrectSlots, CorrectUserSlots
<1> QED
  BY <1>1, <1>2, <1>3, <1>4, <1>5, <1>6 DEF Next

\* While the lease outlasts every live dispatch, the API is never asked for a job
\* whose task is stored: no recovery of a lost webhook or a stuck ingest pays again.
THEOREM NeverRecharged ==
  ASSUME LeaseCoversCall
  PROVE  Spec => NoRecharge
<1>1. ASSUME IInv, DriverInv, [Next]_vars
      PROVE  \A j \in Jobs : calls'[j] > calls[j] => row[j].task_id = NoTask
  <2> SUFFICES ASSUME NEW j \in Jobs, calls'[j] > calls[j] PROVE row[j].task_id = NoTask
    OBVIOUS
  <2>1. calls[j] \in Int
    BY <1>1, JobStoreAssumption DEF IInv, TypeOK, StoreTypeOK
  <2>2. PICK d \in Dispatchers : CallApi(d) /\ disp[d].job = j
    BY <1>1, <2>1, CallSteps
  <2> QED
    BY <1>1, <2>2 DEF CallApi, DriverInv, Driving
<1>2. IInv /\ DriverInv /\ [Next]_vars =>
        [\A j \in Jobs : calls'[j] > calls[j] => row[j].task_id = NoTask]_vars
  BY <1>1
<1> QED
  BY <1>2, InductiveInvariant, DriverInvariant, PTL DEF Spec, NoRecharge

-----------------------------------------------------------------------------
(* The lifecycle *)

\* What is queued for airing is READY.
LifecycleInv == \A j \in Jobs : Enqueued(j) => row[j].state = "READY"

\* Nobody writes two rows in one step.
LEMMA OneRowWritten ==
  ASSUME IInv, [Next]_vars
  PROVE  row' = row \/ \E m \in Jobs : \E r : row' = [row EXCEPT ![m] = r]
<1>0. row \in [Jobs -> Row]
  BY DEF IInv, TypeOK, StoreTypeOK
<1>1. ASSUME NEW k \in Jobs, EntryWrite(k) PROVE \E r : row' = [row EXCEPT ![k] = r]
  BY <1>1 DEF EntryWrite, Create, CreateJob, Clock, BackoffElapses, Webhook,
     WebhookDelivery, WebhookAudio, WebhookFailure
<1>2. ASSUME NEW d \in Dispatchers, DispatchWrite(d)
      PROVE  row' = row \/ \E m \in Jobs : \E r : row' = [row EXCEPT ![m] = r]
  <2>1. disp[d].pc # "idle" => disp[d].job \in Jobs
    BY DEF IInv, LoopsHaveJobs
  <2> QED
    BY <1>2, <2>1 DEF DispatchWrite, Claim, CountActive, CommitResult, DispatchCrash
<1>3. ASSUME NEW i \in Ingesters, IngestWrite(i)
      PROVE  row' = row \/ \E m \in Jobs : \E r : row' = [row EXCEPT ![m] = r]
  <2>1. ing[i].pc # "idle" => ing[i].job \in Jobs
    BY DEF IInv, LoopsHaveJobs
  <2>2. CASE IngestCommit(i)
    <3>1. row' = [row EXCEPT ![ing[i].job] = [row[ing[i].job] EXCEPT !.state = "READY",
                                !.song_id = row[ing[i].job].task_id]]
      BY <1>0, <2>1, <2>2 DEF IngestCommit
    <3> QED
      BY <2>1, <2>2, <3>1 DEF IngestCommit
  <2> QED
    BY <1>3, <2>1, <2>2 DEF IngestWrite, IngestClaim, IngestGiveUp, IngestCrash
<1>4. ASSUME NEW s \in Sweepers, SweepWrite(s)
      PROVE  \E m \in Jobs : \E r : row' = [row EXCEPT ![m] = r]
  BY <1>4, SweepWrites DEF IInv
<1> QED
  BY <1>1, <1>2, <1>3, <1>4, RowSteps

\* A job that is READY stays so: no loop drives it, and nothing else leaves READY.
LEMMA ReadyKept ==
  ASSUME IInv, DriverInv, [Next]_vars, NEW j \in Jobs, row[j].state = "READY"
  PROVE  row'[j].state = "READY"
<1>1. CASE Kept(j)
  BY <1>1 DEF Kept
<1>2. CASE Moves(j)
  BY <1>2 DEF Moves, Becomes, NonTerminalStates, ActiveStates
<1>3. ASSUME NEW d \in Dispatchers, ClaimsRow(d, j) PROVE FALSE
  BY <1>3 DEF ClaimsRow, Becomes
<1>4. ASSUME NEW d \in Dispatchers, CommitResult(d), disp[d].job = j PROVE FALSE
  BY <1>4 DEF CommitResult, DriverInv, Driving
<1> QED
  BY <1>1, <1>2, <1>3, <1>4, StateSteps

\* The queue grows by the commit of an ingest and by nothing else.
LEMMA QueueGrows ==
  ASSUME IInv, [Next]_vars, \A i \in Ingesters : ~IngestCommit(i)
  PROVE  playback' = playback
<1>1. ASSUME NEW i \in Ingesters, IngestLoop(i) \/ IngestFault(i) PROVE playback' = playback
  BY <1>1 DEF IngestLoop, IngestFault, IngestStep, IngestClaim, IngestFetch, IngestPut,
     IngestFinalize, IngestGiveUp, IngestRelease, IngestCrash
<1> QED
  BY <1>1, OnlyIngestWritesSongs DEF ingestVars

LEMMA CommitMakesReady ==
  ASSUME IInv, NEW i \in Ingesters, IngestCommit(i)
  PROVE  /\ ing[i].job \in Jobs /\ row[ing[i].job].state = "INGEST_PENDING"
         /\ row'[ing[i].job].state = "READY"
         /\ \A k \in Jobs : k # ing[i].job => row'[k] = row[k]
<1> DEFINE m == ing[i].job
<1>1. row \in [Jobs -> Row]
  BY DEF IInv, TypeOK, StoreTypeOK
<1>2. m \in Jobs /\ row[m].state = "INGEST_PENDING"
  BY DEF IngestCommit, IInv, LoopsHaveJobs, LocksExclusive, HoldsRow
<1>3. row' = [row EXCEPT ![m] = [row[m] EXCEPT !.state = "READY", !.song_id = row[m].task_id]]
  BY <1>1, <1>2 DEF IngestCommit
<1>4. row'[m] = [row[m] EXCEPT !.state = "READY", !.song_id = row[m].task_id]
  BY <1>1, <1>2, <1>3
<1>5. row'[m].state = "READY"
  BY <1>1, <1>2, <1>4 DEF Row
<1> QED
  BY <1>1, <1>2, <1>3, <1>5

LEMMA LifecycleInvPreserved ==
  ASSUME IInv, DriverInv, QueueInv, LifecycleInv, [Next]_vars
  PROVE  LifecycleInv'
<1> SUFFICES ASSUME NEW j \in Jobs, Enqueued(j)' PROVE row'[j].state = "READY"
  BY DEF LifecycleInv
<1>1. CASE Enqueued(j)
  BY <1>1, ReadyKept DEF LifecycleInv
<1>2. ASSUME NEW i \in Ingesters, IngestCommit(i), j = ing[i].job
      PROVE  row'[j].state = "READY"
  BY <1>2, CommitMakesReady
<1>3. CASE \A i \in Ingesters : ~IngestCommit(i)
  BY <1>1, <1>3, QueueGrows DEF Enqueued
<1> QED
  BY <1>1, <1>2, <1>3, CommitEnqueues

LEMMA LifecycleInvariant ==
  ASSUME LeaseCoversCall
  PROVE  Spec => []LifecycleInv
<1>1. Init => LifecycleInv
  BY DEF Init, IngestInit, LifecycleInv, Enqueued
<1>2. IInv /\ DriverInv /\ QueueInv /\ LifecycleInv /\ [Next]_vars => LifecycleInv'
  BY LifecycleInvPreserved
<1> QED
  BY <1>1, <1>2, InductiveInvariant, DriverInvariant, QueueInvariant, PTL DEF Spec

-----------------------------------------------------------------------------
(* The refinement *)

\* What becomes of job j in one step, deliveries apart.
Turns(j) ==
  LET old == Phase(j)
      new == Phase(j)'
  IN  \/ new = old
      \/ old = "none" /\ new = "pending"
      \/ old = "pending" /\ new \in {"failed", "lapsed"}
      \/ old = "lapsed" /\ new \in {"failed", "pending"}

\* The components other than dispatch write one row, and never bring back a FAILED
\* job.
LEMMA OtherTurns ==
  ASSUME IInv, DriverInv, [Next]_vars, UNCHANGED disp, NEW j \in Jobs,
         \A i \in Ingesters : ~IngestCommit(i)
  PROVE  Turns(j)
<1>0. Driven(j)' <=> Driven(j)
  BY DEF Driven
<1>1. CASE Kept(j)
  BY <1>0, <1>1 DEF Kept, Turns, Phase
<1>2. CASE Moves(j)
  BY <1>0, <1>2 DEF Moves, Becomes, Turns, Phase, NonTerminalStates, ActiveStates
<1>3. ASSUME NEW d \in Dispatchers, ClaimsRow(d, j) PROVE FALSE
  BY <1>3 DEF ClaimsRow
<1>4. ASSUME NEW d \in Dispatchers, CommitResult(d) PROVE FALSE
  <2>1. disp'[d].pc = "idle" /\ disp[d].pc = "commit"
    BY <1>4 DEF CommitResult, IInv, TypeOK, DispatchTypeOK, IdleDispatch
  <2> QED
    BY <2>1
<1> QED
  BY <1>1, <1>2, <1>3, <1>4, StateSteps

\* A dispatch loop turns the one job it claims or lets go: a job that lapsed while it
\* was driven fails when the loop dies or was refused, and else comes back.
LEMMA DispatchTurns ==
  ASSUME IInv, DriverInv, [Next]_vars, NEW d \in Dispatchers, Dispatch(d) \/ DispatchFault(d)
  PROVE  \E m \in Jobs : Turns(m) /\ \A j \in Jobs : j # m => Phase(j)' = Phase(j)
<1> SUFFICES ASSUME NEW k, k = disp[d].job
             PROVE  \E m \in Jobs : Turns(m) /\ \A j \in Jobs : j # m => Phase(j)' = Phase(j)
  OBVIOUS
<1>0. row \in [Jobs -> Row]
  BY DEF IInv, TypeOK, StoreTypeOK
<1>1. \A e \in Dispatchers : e # d => disp'[e] = disp[e]
  BY DriverSteps
<1>2. NoJob \notin Jobs
  BY DEF Jobs, NoJob
<1>3. ASSUME NEW m \in Jobs, ClaimsRow(d, m)
      PROVE  Turns(m) /\ \A j \in Jobs : j # m => Phase(j)' = Phase(j)
  <2>1. k = NoJob /\ disp'[d].job = m
    BY <1>3 DEF ClaimsRow, DriverInv, Driving
  <2>2. \A j \in Jobs : j # m => (Driven(j)' <=> Driven(j))
    BY <1>1, <1>2, <2>1 DEF Driven
  <2>3. Phase(m) = "pending" /\ Phase(m)' = "pending"
    BY <1>3 DEF ClaimsRow, Becomes, Phase
  <2>4. \A j \in Jobs : j # m => row'[j] = row[j]
    BY <1>3 DEF ClaimsRow
  <2> QED
    BY <2>2, <2>3, <2>4 DEF Turns, Phase
<1>4. ASSUME Driving(d), disp'[d] = IdleDispatch, CommitResult(d) \/ row' = row
      PROVE  k \in Jobs /\ Turns(k) /\ \A j \in Jobs : j # k => Phase(j)' = Phase(j)
  <2>1. k \in Jobs /\ row[k].state \in {"SUBMITTING", "FAILED"}
    BY <1>4 DEF IInv, LoopsHaveJobs, DriverInv, Driving
  <2>2. disp'[d].job = NoJob
    BY <1>4 DEF IdleDispatch
  <2>3. Driven(k) /\ ~Driven(k)'
    <3>1. \A e \in Dispatchers : disp[e].job = k => e = d
      BY <1>4, <2>1 DEF DriverInv, OneDriverPerJob, Driving
    <3>2. \A e \in Dispatchers : disp'[e].job # k
      BY <1>1, <1>2, <2>1, <2>2, <3>1
    <3> QED
      BY <3>2 DEF Driven
  <2>4. \A j \in Jobs : j # k => (Driven(j)' <=> Driven(j))
    BY <1>1, <1>2, <2>2 DEF Driven
  <2>5. \A j \in Jobs : j # k => row'[j] = row[j]
    BY <1>0, <1>4 DEF CommitResult
  <2>6. row'[k].state \in {"WAITING_FOR_WEBHOOK", "QUEUED", "FAILED"} \/ row'[k] = row[k]
    <3>1. CASE CommitResult(d)
      <4>1. row'[k] = Written(row[k], disp[d].result, disp[d].task)
        BY <1>0, <2>1, <3>1 DEF CommitResult
      <4> QED
        BY <1>0, <2>1, <4>1, WrittenTask
    <3> QED
      BY <1>4, <3>1
  <2>7. \/ Phase(k) = "pending" /\ row[k].state = "SUBMITTING"
        \/ Phase(k) = "lapsed"
    BY <2>1, <2>3 DEF Phase
  <2>8. Turns(k)
    <3>1. CASE row'[k].state \in {"WAITING_FOR_WEBHOOK", "QUEUED", "SUBMITTING"}
      BY <2>7, <3>1 DEF Turns, Phase
    <3>2. CASE row'[k].state = "FAILED"
      BY <2>3, <2>7, <3>2 DEF Turns, Phase
    <3> QED
      BY <2>1, <2>6, <3>1, <3>2
  <2>9. \A j \in Jobs : j # k => Phase(j)' = Phase(j)
    BY <2>4, <2>5 DEF Phase
  <2> QED
    BY <2>1, <2>8, <2>9
<1>5. ASSUME Driving(d), disp'[d].job = k, row' = row
      PROVE  k \in Jobs /\ \A j \in Jobs : Phase(j)' = Phase(j)
  <2>1. \A j \in Jobs : Driven(j)' <=> Driven(j)
    BY <1>1, <1>5 DEF Driven
  <2>2. k \in Jobs
    BY <1>5 DEF IInv, LoopsHaveJobs, Driving
  <2> QED
    BY <1>5, <2>1, <2>2 DEF Phase
<1>6. CASE \E j \in Jobs : ClaimsRow(d, j)
  BY <1>3, <1>6
<1>7. CASE Driving(d) /\ disp'[d].job = k /\ row' = row
  <2>1. Turns(k)
    BY <1>5, <1>7 DEF Turns
  <2> QED
    BY <1>5, <1>7, <2>1
<1> QED
  BY <1>4, <1>6, <1>7, DriverSteps

\* No step turns two jobs.
LEMMA PhaseSteps ==
  ASSUME IInv, DriverInv, [Next]_vars, \A i \in Ingesters : ~IngestCommit(i)
  PROVE  \/ \A j \in Jobs : Phase(j)' = Phase(j)
         \/ \E m \in Jobs : Turns(m) /\ \A j \in Jobs : j # m => Phase(j)' = Phase(j)
<1>1. CASE UNCHANGED disp
  <2>0. row \in [Jobs -> Row]
    BY DEF IInv, TypeOK, StoreTypeOK
  <2>1. \A j \in Jobs : Driven(j)' <=> Driven(j)
    BY <1>1 DEF Driven
  <2>2. CASE row' = row
    BY <2>1, <2>2 DEF Phase
  <2>3. ASSUME NEW m \in Jobs, \E r : row' = [row EXCEPT ![m] = r]
        PROVE  Turns(m) /\ \A j \in Jobs : j # m => Phase(j)' = Phase(j)
    <3>1. \A j \in Jobs : j # m => row'[j] = row[j]
      BY <2>0, <2>3
    <3>2. Turns(m)
      BY <1>1, OtherTurns
    <3> QED
      BY <2>1, <3>1, <3>2 DEF Phase
  <2> QED
    BY <2>2, <2>3, OneRowWritten
<1>2. ASSUME NEW d \in Dispatchers, Dispatch(d) \/ DispatchFault(d)
      PROVE  \E m \in Jobs : Turns(m) /\ \A j \in Jobs : j # m => Phase(j)' = Phase(j)
  BY <1>2, DispatchTurns
<1> QED
  BY <1>1, <1>2, StepFrames

\* A failure is noticed by the sweep of failures only.
LEMMA StampSteps ==
  ASSUME IInv, [Next]_vars, \A s \in Sweepers : ~SweepFailures(s), NEW j \in Jobs
  PROVE  row'[j].failure_handled <=> row[j].failure_handled
<1>0. row \in [Jobs -> Row]
  BY DEF IInv, TypeOK, StoreTypeOK
<1>1. CASE UNCHANGED <<row, locked>>
  BY <1>1
<1>2. ASSUME NEW k \in Jobs, EntryWrite(k)
      PROVE  row'[j].failure_handled <=> row[j].failure_handled
  <2>1. \/ row' = [row EXCEPT ![k].available = TRUE]
        \/ \E x \in {"QUEUED", "INGEST_PENDING", "FAILED"} :
             row' = [row EXCEPT ![k].state = x]
    BY <1>2 DEF EntryWrite, Create, CreateJob, Clock, BackoffElapses, Webhook,
       WebhookDelivery, WebhookAudio, WebhookFailure
  <2> QED
    BY <1>0, <2>1 DEF Row
<1>3. ASSUME NEW d \in Dispatchers, DispatchWrite(d)
      PROVE  row'[j].failure_handled <=> row[j].failure_handled
  <2>1. CASE Claim(d)
    BY <1>0, <2>1 DEF Claim, Row
  <2>2. CASE CountActive(d) \/ DispatchCrash(d)
    BY <2>2 DEF CountActive, DispatchCrash
  <2>3. CASE CommitResult(d)
    <3>1. \A r \in Row : Written(r, disp[d].result, disp[d].task).failure_handled
                           = r.failure_handled
      BY DEF Written, Row
    <3> QED
      BY <1>0, <2>3, <3>1 DEF CommitResult
  <2> QED
    BY <1>3, <2>1, <2>2, <2>3 DEF DispatchWrite
<1>4. ASSUME NEW i \in Ingesters, IngestWrite(i)
      PROVE  row'[j].failure_handled <=> row[j].failure_handled
  <2>1. CASE IngestClaim(i) \/ IngestCrash(i)
    BY <2>1 DEF IngestClaim, IngestCrash
  <2>2. CASE IngestCommit(i)
    BY <1>0, <2>2 DEF IngestCommit, Row
  <2>3. CASE IngestGiveUp(i)
    <3>1. \A r \in Row : /\ RequeueOrFail(r).failure_handled = r.failure_handled
                         /\ [r EXCEPT !.state = "FAILED"].failure_handled = r.failure_handled
      BY DEF RequeueOrFail, Row
    <3>2. PICK r \in {RequeueOrFail(row[ing[i].job]), [row[ing[i].job] EXCEPT !.state = "FAILED"]} :
            row' = [row EXCEPT ![ing[i].job] = r]
      BY <2>3 DEF IngestGiveUp
    <3>3. ing[i].job \in Jobs /\ row[ing[i].job] \in Row
      BY <1>0, <2>3 DEF IngestGiveUp, IInv, LoopsHaveJobs
    <3>4. r.failure_handled = row[ing[i].job].failure_handled
      BY <3>1, <3>2, <3>3
    <3> QED
      BY <1>0, <3>2, <3>3, <3>4
  <2> QED
    BY <1>4, <2>1, <2>2, <2>3 DEF IngestWrite
<1>5. ASSUME NEW s \in Sweepers, SweepWrite(s)
      PROVE  row'[j].failure_handled <=> row[j].failure_handled
  <2>1. PICK k \in Jobs :
          \/ \E x \in States : row' = [row EXCEPT ![k] = [row[k] EXCEPT !.state = x]]
          \/ row' = [row EXCEPT ![k] = [row[k] EXCEPT !.state = "QUEUED", !.available = TRUE]]
          \/ row' = [row EXCEPT ![k] = [row[k] EXCEPT !.available = TRUE]]
    <3>1. CASE SweepWaiting(s) \/ SweepExpired(s) \/ SweepIngest(s)
      BY <3>1 DEF SweepWaiting, SweepExpired, Expire, Claims, SweepIngest, InState, Sweep,
         Failed, States, TerminalStates, NonTerminalStates, ActiveStates, Expirable
    <3>2. CASE SweepSubmitting(s)
      BY <3>2 DEF SweepSubmitting, Sweep, Stuck, InState
    <3> QED
      BY <1>5, <3>1, <3>2 DEF SweepWrite
  <2>3. row'[k].failure_handled = row[k].failure_handled
    <3>1. PICK r \in {[row[k] EXCEPT !.state = x] : x \in States} \cup
                     {[row[k] EXCEPT !.state = "QUEUED", !.available = TRUE],
                      [row[k] EXCEPT !.available = TRUE]} : row' = [row EXCEPT ![k] = r]
      BY <2>1
    <3>2. row[k] \in Row
      BY <1>0
    <3>3. r.failure_handled = row[k].failure_handled
      <4>1. CASE r = [row[k] EXCEPT !.state = "QUEUED", !.available = TRUE]
        BY <3>2, <4>1 DEF Row
      <4>2. CASE r = [row[k] EXCEPT !.available = TRUE]
        BY <3>2, <4>2 DEF Row
      <4>3. ASSUME NEW x \in States, r = [row[k] EXCEPT !.state = x]
            PROVE  r.failure_handled = row[k].failure_handled
        BY <3>2, <4>3 DEF Row
      <4> QED
        BY <3>1, <4>1, <4>2, <4>3
    <3> QED
      BY <1>0, <3>1, <3>3
  <2>4. \A m \in Jobs : m # k => row'[m] = row[m]
    BY <1>0, <2>1
  <2> QED
    BY <2>3, <2>4
<1> QED
  BY <1>1, <1>2, <1>3, <1>4, <1>5, RowSteps

\* The ingest commit is the delivery: the pre-check finds no queue row, because
\* only a READY job has one.
LEMMA CommitDelivers ==
  ASSUME IInv, QueueInv, LifecycleInv, NEW i \in Ingesters, IngestCommit(i),
         UNCHANGED <<disp, refunds>>, NEW m, m = ing[i].job,
         \A j \in Jobs : row'[j].failure_handled <=> row[j].failure_handled
  PROVE  Lifecycle!Deliver(m)
<1> DEFINE ph == [j \in Jobs |-> Phase(j)]
           st == [k \in DOMAIN playback |-> playback[k].job]
           n == Len(playback)
<1>1. /\ m \in Jobs /\ row[m].state = "INGEST_PENDING" /\ row'[m].state = "READY"
      /\ \A k \in Jobs : k # m => row'[k] = row[k]
  BY CommitMakesReady
<1>2. ph[m] = "pending" /\ ph' = [ph EXCEPT ![m] = "ready"]
  <2>1. Phase(m) = "pending" /\ Phase(m)' = "ready"
    BY <1>1 DEF Phase
  <2>2. \A j \in Jobs : Driven(j)' <=> Driven(j)
    BY DEF Driven
  <2>3. \A j \in Jobs : j # m => Phase(j)' = Phase(j)
    BY <1>1, <2>2 DEF Phase
  <2> QED
    BY <1>1, <2>1, <2>3
<1>3. playback' = Append(playback, [job |-> m, song |-> MySong(i)])
  <2>1. ing[i].enqueue
    BY <1>1 DEF IngestCommit, QueueInv, PreCheckHolds, LifecycleInv
  <2> QED
    BY <2>1 DEF IngestCommit
<1>4. playback \in Seq([job : Jobs, song : Songs])
  BY DEF IInv, TypeOK, IngestTypeOK
<1>5. /\ n \in Nat /\ DOMAIN playback = 1..n /\ DOMAIN playback' = 1..(n + 1)
      /\ \A k \in 1..n : playback'[k] = playback[k]
      /\ playback'[n + 1] = [job |-> m, song |-> MySong(i)]
  BY <1>3, <1>4
<1>6. st' = Append(st, m)
  <2>2. \A k \in 1..n : playback[k].job \in Jobs
    <3> DEFINE Entry == [job : Jobs, song : Songs]
    <3> HIDE DEF Entry
    <3>1. playback \in Seq(Entry)
      BY <1>4 DEF Entry
    <3>2. \A k \in 1..n : playback[k] \in Entry
      BY <3>1
    <3> QED
      BY <3>2 DEF Entry
  <2> HIDE DEF n
  <2>1. st = [k \in 1..n |-> playback[k].job] /\ st' = [k \in 1..(n + 1) |-> playback'[k].job]
    BY <1>5
  <2>3. st \in Seq(Jobs) /\ Len(st) = n
    BY <1>5, <2>1, <2>2
  <2>4. Append(st, m) = [k \in 1..(n + 1) |-> IF k = n + 1 THEN m ELSE st[k]]
    BY <1>5, <2>3
  <2>5. \A k \in 1..(n + 1) : playback'[k].job = IF k = n + 1 THEN m ELSE st[k]
    BY <1>5, <2>1
  <2> QED
    BY <2>1, <2>4, <2>5
<1>7. {j \in Jobs : row'[j].failure_handled} = {j \in Jobs : row[j].failure_handled}
  OBVIOUS
<1> QED
  BY <1>1, <1>2, <1>6, <1>7 DEF Lifecycle!Deliver, Lifecycle!Turn

\* Every step of the pipeline is a step of the lifecycle or invisible in it.
LEMMA StepsRefine ==
  ASSUME IInv, DriverInv, QueueInv, RefundInv, LifecycleInv, [Next]_vars
  PROVE  [Lifecycle!LifecycleNext]_(Lifecycle!lifecycleVars)
<1> DEFINE ph == [j \in Jobs |-> Phase(j)]
           st == [k \in DOMAIN playback |-> playback[k].job]
           nt == {j \in Jobs : row[j].failure_handled}
           rf == {j \in Jobs : refunds[j] > 0}
<1>0. row \in [Jobs -> Row] /\ refunds \in [Jobs -> Nat]
  BY DEF IInv, TypeOK, StoreTypeOK, WatchdogTypeOK
<1>1. ASSUME NEW i \in Ingesters, IngestCommit(i)
      PROVE  Lifecycle!LifecycleNext
  <2>1. ing'[i].pc = "release" /\ ing[i].pc = "commit"
    BY <1>1 DEF IngestCommit, GotoIngest, IInv, TypeOK, IngestTypeOK
  <2>2. UNCHANGED <<disp, swp, refunds>>
    <3>1. ~(UNCHANGED ing)
      BY <2>1
    <3>2. ASSUME NEW k \in Ingesters, IngestLoop(k) \/ IngestFault(k)
          PROVE  UNCHANGED <<disp, swp, refunds>>
      BY <3>2 DEF IngestLoop, IngestFault, watchdogVars
    <3> QED
      BY <3>1, <3>2, StepFrames
  <2>3. \A s \in Sweepers : ~SweepFailures(s)
    <3> SUFFICES ASSUME NEW s \in Sweepers, SweepFailures(s) PROVE FALSE
      OBVIOUS
    <3>1. swp[s].owes = "none" /\ swp'[s].owes = "refund"
      BY DEF SweepFailures, Sweeping, Sweep, IInv, TypeOK, WatchdogTypeOK
    <3> QED
      BY <2>2, <3>1
  <2>4. \A j \in Jobs : row'[j].failure_handled <=> row[j].failure_handled
    BY <2>3, StampSteps
  <2>5. \E j \in Jobs : Lifecycle!Deliver(j)
    BY <1>1, <2>2, <2>4, CommitMakesReady, CommitDelivers
  <2> QED
    BY <2>5 DEF Lifecycle!LifecycleNext
<1>2. ASSUME \A i \in Ingesters : ~IngestCommit(i), \A s \in Sweepers : ~SweepFailures(s),
             refunds' = refunds
      PROVE  [Lifecycle!LifecycleNext]_(Lifecycle!lifecycleVars)
  <2>1. st' = st /\ rf' = rf
    BY <1>2, QueueGrows
  <2>2. nt' = nt
    BY <1>2, StampSteps
  <2>3. CASE \A j \in Jobs : Phase(j)' = Phase(j)
    <3>1. ph' = ph
      BY <2>3
    <3> QED
      BY <2>1, <2>2, <3>1 DEF Lifecycle!lifecycleVars
  <2>4. ASSUME NEW m \in Jobs, Turns(m), Phase(m)' # Phase(m),
               \A j \in Jobs : j # m => Phase(j)' = Phase(j)
        PROVE  Lifecycle!LifecycleNext
    <3>1. ph' = [ph EXCEPT ![m] = Phase(m)']
      BY <2>4
    <3>2. ph[m] = Phase(m)
      OBVIOUS
    <3>3. Lifecycle!Proceed(m)
      BY <2>1, <2>2, <2>4, <3>1, <3>2 DEF Lifecycle!Proceed, Lifecycle!Turn, Turns
    <3> QED
      BY <3>3 DEF Lifecycle!LifecycleNext
  <2> QED
    BY <1>2, <2>3, <2>4, PhaseSteps
<1>3. ASSUME NEW s \in Sweepers, SweepFailures(s)
      PROVE  Lifecycle!LifecycleNext
  <2>1. PICK j \in Jobs :
          /\ row[j].state = "FAILED" /\ ~row[j].failure_handled
          /\ row' = [row EXCEPT ![j] = [row[j] EXCEPT !.failure_handled = TRUE]]
          /\ UNCHANGED <<disp, refunds>>
    BY <1>3 DEF SweepFailures, Sweep, Claims, Unhandled, InState
  <2>2. row'[j].state = row[j].state /\ row'[j].failure_handled
    BY <1>0, <2>1 DEF Row
  <2>3. \A k \in Jobs : k # j => row'[k] = row[k]
    BY <1>0, <2>1
  <2>4. \A k \in Jobs : Driven(k)' <=> Driven(k)
    BY <2>1 DEF Driven
  <2>5. \A k \in Jobs : Phase(k)' = Phase(k)
    BY <2>2, <2>3, <2>4 DEF Phase
  <2>6. ph' = ph /\ ph[j] \in {"failed", "lapsed"}
    BY <2>1, <2>5 DEF Phase
  <2>7. j \notin nt /\ nt' = nt \cup {j}
    BY <2>1, <2>2, <2>3
  <2>8. st' = st
    <3>1. ASSUME NEW i \in Ingesters, IngestCommit(i) PROVE FALSE
      BY <1>0, <2>1, <2>2, <2>3, <3>1, CommitMakesReady
    <3> QED
      BY <3>1, QueueGrows
  <2>9. rf' = rf
    BY <2>1
  <2> QED
    BY <2>6, <2>7, <2>8, <2>9 DEF Lifecycle!LifecycleNext, Lifecycle!Notice
<1>4. ASSUME NEW s \in Sweepers, SweeperRefund(s), refunds' # refunds
      PROVE  Lifecycle!LifecycleNext
  <2> DEFINE j == swp[s].job
  <2>1. j \in Jobs /\ OwesRefund(s, j)
    BY <1>4 DEF SweeperRefund, IInv, LoopsHaveJobs, OwesRefund
  <2>2. row[j].failure_handled /\ refunds[j] = 0
    BY <2>1 DEF RefundInv
  <2>3. row' = row /\ disp' = disp /\ refunds' = [refunds EXCEPT ![j] = @ + 1]
    BY <1>4 DEF SweeperRefund
  <2>4. \A k \in Jobs : Phase(k)' = Phase(k)
    BY <2>3 DEF Phase, Driven
  <2>5. ph' = ph /\ nt' = nt
    BY <2>3, <2>4
  <2>6. j \in nt \ rf /\ rf' = rf \cup {j}
    BY <1>0, <2>1, <2>2, <2>3
  <2>7. st' = st
    <3>1. \A i \in Ingesters : ~IngestCommit(i)
      BY <2>1, <2>3, CommitMakesReady, <1>0
    <3> QED
      BY <3>1, QueueGrows
  <2> QED
    BY <2>1, <2>5, <2>6, <2>7 DEF Lifecycle!LifecycleNext, Lifecycle!Refund
<1> QED
  BY <1>1, <1>2, <1>3, <1>4, RefundSteps

\* While the lease outlasts every live dispatch, all that concurrency, retrying,
\* sweeping and crashing adds nothing to the lifecycle of JobLifecycle: a job is
\* queued for airing in the step that makes it READY, a failure is noticed once and
\* refunded at most once, and READY and FAILED are final, unless the job failed while
\* a dispatch loop held it (finding 2).
THEOREM PipelineRefinesLifecycle ==
  ASSUME LeaseCoversCall
  PROVE  Spec => ImplementsLifecycle
<1>1. Init => Lifecycle!LifecycleInit
  <2> SUFFICES ASSUME Init PROVE Lifecycle!LifecycleInit
    OBVIOUS
  <2>1. \A j \in Jobs : row[j].state = "ABSENT" /\ ~row[j].failure_handled /\ refunds[j] = 0
    BY DEF Init, StoreInit, NewRow, WatchdogInit
  <2>2. [j \in Jobs |-> Phase(j)] = [j \in Jobs |-> "none"]
    BY <2>1 DEF Phase
  <2>3. [k \in DOMAIN playback |-> playback[k].job] = <<>>
    BY DEF Init, IngestInit
  <2>4. {j \in Jobs : refunds[j] > 0} = {} /\ {j \in Jobs : row[j].failure_handled} = {}
    BY <2>1
  <2> QED
    BY <2>2, <2>3, <2>4 DEF Lifecycle!LifecycleInit
<1>2. IInv /\ DriverInv /\ QueueInv /\ RefundInv /\ LifecycleInv /\ [Next]_vars =>
        [Lifecycle!LifecycleNext]_(Lifecycle!lifecycleVars)
  BY StepsRefine
<1> QED
  BY <1>1, <1>2, InductiveInvariant, DriverInvariant, QueueInvariant, RefundInvariant,
     LifecycleInvariant, PTL DEF Spec, ImplementsLifecycle, Lifecycle!LifecycleSpec
=============================================================================

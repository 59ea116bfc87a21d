-------------------------- MODULE JobPipelineProofs --------------------------
(***************************************************************************)
(* Proofs about JobPipeline for any number of jobs, users, loops and       *)
(* faults, and whether or not its two timing assumptions hold.             *)
(*                                                                         *)
(* The argument rests on the row lock: whoever holds a row keeps every     *)
(* other writer away from it, the dispatch loop's blind UPDATE included,   *)
(* so that what ingest read under the lock is still true when it commits.  *)
(***************************************************************************)
EXTENDS JobPipeline, FiniteSetTheorems, TLAPS

-----------------------------------------------------------------------------
(* The inductive invariant *)

\* A loop that is not idle has a job, and a stored result its task.
LoopsHaveJobs ==
  /\ \A d \in Dispatchers : disp[d].pc # "idle" => disp[d].job \in Jobs
  /\ \A d \in Dispatchers : disp[d].result = "created" => disp[d].task \in Tasks
  /\ \A i \in Ingesters : ing[i].pc # "idle" => ing[i].job \in Jobs
  /\ \A s \in Sweepers : swp[s].owes # "none" => swp[s].job \in Jobs

\* A row that is past dispatch has the handles of a task.
PastDispatch == {"WAITING_FOR_WEBHOOK", "INGEST_PENDING", "READY"}
TasksStored == \A j \in Jobs : row[j].state \in PastDispatch => row[j].task_id \in Tasks

\* A row lock has one holder, and the row that ingest holds stays INGEST_PENDING.
LocksExclusive ==
  /\ \A i \in Ingesters : HoldsRow(i) =>
       ing[i].job \in locked /\ row[ing[i].job].state = "INGEST_PENDING"
  /\ \A d \in Dispatchers : HasFlushed(d) => disp[d].job \in locked
  /\ \A i, k \in Ingesters :
       HoldsRow(i) /\ HoldsRow(k) /\ ing[i].job = ing[k].job => i = k
  /\ \A d, e \in Dispatchers :
       HasFlushed(d) /\ HasFlushed(e) /\ disp[d].job = disp[e].job => d = e
  /\ \A i \in Ingesters, d \in Dispatchers :
       HoldsRow(i) /\ HasFlushed(d) => ing[i].job # disp[d].job

IInv == TypeOK /\ LoopsHaveJobs /\ TasksStored /\ LocksExclusive

-----------------------------------------------------------------------------
(* Lemmas about the operators *)

\* Counting jobs gives a natural number.
LEMMA CountIsNat ==
  ASSUME NEW S, S \subseteq Jobs
  PROVE  Cardinality(S) \in Nat
<1>1. IsFiniteSet(Jobs)
  BY FS_Interval, JobStoreAssumption DEF Jobs
<1>2. IsFiniteSet(S)
  BY <1>1, FS_Subset
<1> QED
  BY <1>2, FS_CardinalityType

LEMMA CountsAreNat ==
  /\ ActiveCount \in Nat
  /\ ActiveCountByUser \in [Users -> Nat]
  /\ \A j : Cardinality(ActiveJobs \ {j}) \in Nat
<1>1. ActiveJobs \subseteq Jobs
  BY DEF ActiveJobs, InState
<1>2. ActiveCount \in Nat
  BY <1>1, CountIsNat DEF ActiveCount
<1>3. ASSUME NEW u \in Users PROVE Cardinality({j \in ActiveJobs : Owner[j] = u}) \in Nat
  BY <1>1, CountIsNat
<1>4. ASSUME NEW j PROVE Cardinality(ActiveJobs \ {j}) \in Nat
  BY <1>1, CountIsNat
<1> QED
  BY <1>2, <1>3, <1>4 DEF ActiveCountByUser

LEMMA SafeReleaseType ==
  ASSUME NEW u \in Users, SlotTypeOK, faults \in 0..MaxFaults, SafeRelease(u)
  PROVE  SlotTypeOK' /\ faults' \in 0..MaxFaults
<1>1. CASE Release(u) /\ UNCHANGED faults
  BY <1>1 DEF SlotTypeOK, Release, Decrement
<1>2. CASE Fault /\ UNCHANGED userSlots /\ slots' \in {slots, Decrement(slots)}
  BY <1>2, JobStoreAssumption DEF SlotTypeOK, Decrement, Fault
<1> QED
  BY <1>1, <1>2 DEF SafeRelease

\* The outcomes that handlers write keep a row well-formed.
LEMMA WrittenType ==
  ASSUME NEW r \in Row, NEW result, NEW task \in Tasks \cup {NoTask}
  PROVE  Written(r, result, task) \in Row
BY DEF Written, Row, States, NonTerminalStates, ActiveStates, TerminalStates

LEMMA RequeueOrFailType ==
  ASSUME NEW r \in Row
  PROVE  RequeueOrFail(r) \in Row
<1> DEFINE n == r.ingest_attempts + 1
<1>1. n \in Nat
  BY DEF Row
<1>2. [r EXCEPT !.ingest_attempts = n, !.state = "FAILED"] \in Row
  BY <1>1 DEF Row, States, TerminalStates
<1>3. [r EXCEPT !.ingest_attempts = n, !.available = FALSE] \in Row
  BY <1>1 DEF Row
<1> QED
  BY <1>2, <1>3 DEF RequeueOrFail

-----------------------------------------------------------------------------
(* Type correctness, one lemma per component *)

LEMMA InitTypes == Init => IInv
<1> SUFFICES ASSUME Init PROVE IInv
  OBVIOUS
<1> USE DEF Init, StoreInit, SlotInit, DispatchInit, WebhookInit, IngestInit, WatchdogInit
<1>1. StoreTypeOK
  BY JobStoreAssumption DEF StoreTypeOK, NewRow, Row, States, NonTerminalStates, ActiveStates, TerminalStates
<1>2. SlotTypeOK /\ DispatchTypeOK /\ WebhookTypeOK /\ IngestTypeOK
  BY DEF SlotTypeOK, DispatchTypeOK, IdleDispatch, DispatchPCs, WebhookTypeOK,
         IngestTypeOK, IdleIngest, IngestPCs
<1>3. WatchdogTypeOK
  BY JobStoreAssumption DEF WatchdogTypeOK, TickStart, NoCounts
<1>4. LoopsHaveJobs
  BY DEF LoopsHaveJobs, IdleDispatch, IdleIngest, TickStart
<1>5. TasksStored
  BY DEF TasksStored, NewRow, PastDispatch
<1>6. LocksExclusive
  BY DEF LocksExclusive, HoldsRow, HasFlushed, IdleDispatch, IdleIngest
<1> QED
  BY <1>1, <1>2, <1>3, <1>4, <1>5, <1>6 DEF IInv, TypeOK

\* A move of a dispatch loop that sets two fields of its record.
LEMMA DispTwoFields ==
  ASSUME DispatchTypeOK, NEW d \in Dispatchers, NEW pc \in DispatchPCs
  PROVE  /\ \A result \in Results : GotoWith(d, pc, result) => DispatchTypeOK'
         /\ \A n \in Nat :
              disp' = [disp EXCEPT ![d].pc = pc, ![d].count = n] => DispatchTypeOK'
<1> DEFINE Disp == [pc : DispatchPCs, job : Jobs \cup {NoJob}, result : Results \cup {"none"},
                    task : Tasks \cup {NoTask}, count : Nat]
<1>1. ASSUME NEW result \in Results, GotoWith(d, pc, result) PROVE DispatchTypeOK'
  <2>1. [disp[d] EXCEPT !.pc = pc, !.result = result] \in Disp
    BY DEF DispatchTypeOK
  <2>2. disp' = [disp EXCEPT ![d] = [disp[d] EXCEPT !.pc = pc, !.result = result]]
    BY <1>1 DEF GotoWith, DispatchTypeOK
  <2> QED
    BY <2>1, <2>2 DEF DispatchTypeOK
<1>2. ASSUME NEW n \in Nat, disp' = [disp EXCEPT ![d].pc = pc, ![d].count = n]
      PROVE  DispatchTypeOK'
  <2>1. [disp[d] EXCEPT !.pc = pc, !.count = n] \in Disp
    BY DEF DispatchTypeOK
  <2>2. disp' = [disp EXCEPT ![d] = [disp[d] EXCEPT !.pc = pc, !.count = n]]
    BY <1>2 DEF DispatchTypeOK
  <2> QED
    BY <2>1, <2>2 DEF DispatchTypeOK
<1> QED
  BY <1>1, <1>2

\* Writing a well-typed row keeps the table well-typed.
LEMMA RowWriteType ==
  ASSUME row \in [Jobs -> Row], NEW j \in Jobs, NEW r \in Row, row' = [row EXCEPT ![j] = r]
  PROVE  row' \in [Jobs -> Row]
OBVIOUS

LEMMA StateWriteType ==
  ASSUME NEW r \in Row, NEW x \in States
  PROVE  [r EXCEPT !.state = x] \in Row
BY DEF Row

LEMMA DispatchTypes ==
  ASSUME IInv, NEW d \in Dispatchers, Dispatch(d) \/ DispatchFault(d)
  PROVE  TypeOK'
<1> USE DEF IInv, TypeOK, StoreTypeOK, DispatchTypeOK, storeVars, slotVars, ingestVars,
            watchdogVars, Dispatch, DispatchFault
<1>0. /\ disp[d].pc # "idle" => disp[d].job \in Jobs /\ User(d) \in Users
      /\ disp[d].result = "created" => disp[d].task \in Tasks
  BY JobStoreAssumption DEF LoopsHaveJobs, User
<1>1. WebhookTypeOK' /\ IngestTypeOK' /\ WatchdogTypeOK'
  BY DEF WebhookTypeOK, IngestTypeOK, WatchdogTypeOK
<1>2. CASE Claim(d)
  <2>1. PICK j \in Jobs :
          /\ row' = [row EXCEPT ![j].state = "SUBMITTING"]
          /\ disp' = [disp EXCEPT ![d] = [IdleDispatch EXCEPT !.pc = "acquire", !.job = j]]
    BY <1>2 DEF Claim
  <2>2. row' \in [Jobs -> Row]
    <3>1. [row[j] EXCEPT !.state = "SUBMITTING"] \in Row
      BY StateWriteType DEF States, NonTerminalStates, ActiveStates
    <3>2. row' = [row EXCEPT ![j] = [row[j] EXCEPT !.state = "SUBMITTING"]]
      BY <2>1
    <3> QED
      BY <3>1, <3>2, RowWriteType
  <2>3. DispatchTypeOK'
    BY <2>1 DEF IdleDispatch, DispatchPCs
  <2> QED
    BY <1>1, <1>2, <2>2, <2>3 DEF Claim, SlotTypeOK
<1>3. CASE AcquireGlobal(d)
  BY <1>1, <1>3 DEF AcquireGlobal, Goto, GotoWith, DispatchPCs, Results, SlotTypeOK
<1>4. CASE AcquireUser(d)
  BY <1>0, <1>1, <1>4 DEF AcquireUser, Goto, DispatchPCs, SlotTypeOK
<1>5. CASE RollBackGlobal(d)
  <2>1. SlotTypeOK'
    BY <1>5 DEF RollBackGlobal, Decrement, SlotTypeOK
  <2>2. DispatchTypeOK'
    <3>1. "commit" \in DispatchPCs /\ "denied" \in Results
      BY DEF DispatchPCs, Results
    <3> QED
      BY <1>5, <3>1, DispTwoFields DEF RollBackGlobal
  <2> QED
    BY <1>1, <1>5, <2>1, <2>2 DEF RollBackGlobal
<1>6. CASE CallApi(d)
  <2>1. calls' \in [Jobs -> 0..MaxCalls]
    BY <1>0, <1>6, JobStoreAssumption DEF CallApi
  <2>2. DispatchTypeOK'
    BY <1>0, <1>6, JobStoreAssumption
       DEF CallApi, GotoWith, DispatchPCs, Results, Failures, Tasks
  <2> QED
    BY <1>1, <1>6, <2>1, <2>2 DEF CallApi, SlotTypeOK
<1>7. CASE DispatchRelease(d)
  <2>1. SlotTypeOK' /\ faults' \in 0..MaxFaults
    BY <1>0, <1>7, SafeReleaseType DEF DispatchRelease
  <2>2. DispatchTypeOK'
    BY <1>7 DEF DispatchRelease, Goto, DispatchPCs
  <2> QED
    BY <1>1, <1>7, <2>1, <2>2 DEF DispatchRelease
<1>8. CASE CountActive(d)
  <2>1. PICK n \in Nat : disp' = [disp EXCEPT ![d].pc = "correct", ![d].count = n]
    BY <1>8, CountsAreNat DEF CountActive
  <2>2. DispatchTypeOK'
    <3>1. "correct" \in DispatchPCs
      BY DEF DispatchPCs
    <3> QED
      BY <2>1, <3>1, DispTwoFields
  <2> QED
    BY <1>0, <1>1, <1>8, <2>2 DEF CountActive, SlotTypeOK
<1>9. CASE CorrectGlobal(d)
  <2>1. SlotTypeOK' /\ faults' \in 0..MaxFaults
    BY <1>9, JobStoreAssumption
       DEF CorrectGlobal, ReconcileGlobal, DecreaseTo, Fault, SlotTypeOK
  <2>2. DispatchTypeOK'
    BY <1>9 DEF CorrectGlobal, Goto, DispatchPCs
  <2> QED
    BY <1>1, <1>9, <2>1, <2>2 DEF CorrectGlobal
<1>10. CASE CommitResult(d)
  <2>1. row' \in [Jobs -> Row]
    BY <1>0, <1>10, WrittenType DEF CommitResult
  <2>2. DispatchTypeOK'
    BY <1>10 DEF CommitResult, IdleDispatch, DispatchPCs
  <2> QED
    BY <1>1, <1>10, <2>1, <2>2 DEF CommitResult, SlotTypeOK
<1>11. CASE DispatchCrash(d)
  <2>1. DispatchTypeOK'
    BY <1>11 DEF DispatchCrash, IdleDispatch, DispatchPCs
  <2> QED
    BY <1>1, <1>11, <2>1, JobStoreAssumption DEF DispatchCrash, Fault, SlotTypeOK
<1> QED
  BY <1>2, <1>3, <1>4, <1>5, <1>6, <1>7, <1>8, <1>9, <1>10, <1>11 DEF DispatchStep

LEMMA EntryTypes ==
  ASSUME IInv, NEW j \in Jobs,
         Create(j) \/ Clock(j) \/ Webhook(j) \/ WebhookTail(j)
  PROVE  TypeOK'
<1> USE DEF IInv, TypeOK, StoreTypeOK, storeVars, slotVars, ingestVars, watchdogVars
<1>1. CASE Create(j) \/ Clock(j) \/ Webhook(j)
  <2>1. \/ row' = [row EXCEPT ![j].available = TRUE]
        \/ \E x \in {"QUEUED", "INGEST_PENDING", "FAILED"} :
              row' = [row EXCEPT ![j].state = x]
    BY <1>1 DEF Create, CreateJob, Clock, BackoffElapses, Webhook, WebhookDelivery,
       WebhookAudio, WebhookFailure
  <2>4. row' \in [Jobs -> Row]
    <3>1. row[j] \in Row
      OBVIOUS
    <3>2. /\ [row[j] EXCEPT !.available = TRUE] \in Row
          /\ \A x \in {"QUEUED", "INGEST_PENDING", "FAILED"} : [row[j] EXCEPT !.state = x] \in Row
      BY <3>1 DEF Row, States, NonTerminalStates, ActiveStates, TerminalStates
    <3> QED
      BY <2>1, <3>2
  <2>2. UNCHANGED <<locked, calls, faults, slotVars, disp, ingestVars, watchdogVars>>
    BY <1>1 DEF Create, CreateJob, Clock, BackoffElapses, Webhook, WebhookDelivery,
       WebhookAudio, WebhookFailure
  <2>3. hookOwes' \subseteq Jobs
    BY <1>1 DEF Create, CreateJob, Clock, BackoffElapses, Webhook, WebhookDelivery,
       WebhookAudio, WebhookFailure, WebhookTypeOK
  <2> QED
    BY <2>2, <2>3, <2>4
       DEF SlotTypeOK, DispatchTypeOK, WebhookTypeOK, IngestTypeOK, WatchdogTypeOK
<1>2. CASE WebhookTail(j)
  <2>1. SlotTypeOK' /\ faults' \in 0..MaxFaults
    BY <1>2, SafeReleaseType, JobStoreAssumption DEF WebhookTail, WebhookRelease
  <2> QED
    BY <1>2, <2>1 DEF WebhookTail, WebhookRelease, DispatchTypeOK, WebhookTypeOK,
       IngestTypeOK, WatchdogTypeOK
<1> QED
  BY <1>1, <1>2

LEMMA IngestGotoType ==
  ASSUME IngestTypeOK, NEW i \in Ingesters, NEW pc \in IngestPCs,
         ing' = [ing EXCEPT ![i].pc = pc], storage' \subseteq Songs,
         UNCHANGED <<songs, playback>>
  PROVE  IngestTypeOK'
<1> DEFINE Ing == [pc : IngestPCs, job : Jobs \cup {NoJob}, enqueue : BOOLEAN]
           r == [ing[i] EXCEPT !.pc = pc]
<1>1. ing \in [Ingesters -> Ing]
  BY DEF IngestTypeOK
<1>2. r \in Ing /\ ing' = [ing EXCEPT ![i] = r]
  BY <1>1
<1> HIDE DEF r, Ing
<1>3. ing' \in [Ingesters -> Ing]
  BY <1>1, <1>2
<1> QED
  BY <1>3 DEF IngestTypeOK, Ing

LEMMA IngestTypes ==
  ASSUME IInv, NEW i \in Ingesters, IngestLoop(i) \/ IngestFault(i)
  PROVE  TypeOK'
<1> USE DEF IInv, TypeOK, StoreTypeOK, storeVars, slotVars, ingestVars, watchdogVars,
            IngestLoop, IngestFault, GotoIngest
<1>1. DispatchTypeOK' /\ WebhookTypeOK' /\ WatchdogTypeOK'
  BY DEF DispatchTypeOK, WebhookTypeOK, WatchdogTypeOK
<1>2. /\ ing[i].pc # "idle" => ing[i].job \in Jobs /\ Owner[ing[i].job] \in Users
      /\ HoldsRow(i) => MySong(i) \in Songs
  <2>1. ing[i].pc # "idle" => ing[i].job \in Jobs /\ Owner[ing[i].job] \in Users
    BY JobStoreAssumption DEF LoopsHaveJobs
  <2>2. HoldsRow(i) => row[ing[i].job].task_id \in Tasks
    BY <2>1 DEF LocksExclusive, TasksStored, PastDispatch, HoldsRow
  <2> QED
    BY <2>1, <2>2 DEF HoldsRow, MySong, Song, Songs
<1>3. CASE IngestClaim(i)
  BY <1>1, <1>3 DEF IngestClaim, IngestTypeOK, IngestPCs, SlotTypeOK
<1>4. CASE IngestFetch(i)
  <2>1. PICK pc \in {"put", "finalize"} : ing' = [ing EXCEPT ![i].pc = pc]
    BY <1>4 DEF IngestFetch
  <2>2. IngestTypeOK'
    BY <1>4, <2>1, IngestGotoType DEF IngestFetch, IngestTypeOK, IngestPCs
  <2> QED
    BY <1>1, <1>4, <2>2 DEF IngestFetch, SlotTypeOK
<1>5. CASE IngestPut(i)
  <2>1. IngestTypeOK'
    BY <1>2, <1>5, IngestGotoType DEF IngestPut, IngestTypeOK, IngestPCs, HoldsRow
  <2> QED
    BY <1>1, <1>5, <2>1 DEF IngestPut, SlotTypeOK
<1>6. CASE IngestFinalize(i)
  <2> DEFINE Ing == [pc : IngestPCs, job : Jobs \cup {NoJob}, enqueue : BOOLEAN]
             b == \A k \in DOMAIN playback : playback[k].job # ing[i].job
             r == [ing[i] EXCEPT !.pc = "commit", !.enqueue = b]
  <2>1. ing[i] \in Ing /\ ing \in [Ingesters -> Ing]
    BY DEF IngestTypeOK
  <2>2. ing' = [ing EXCEPT ![i] = r]
    BY <1>6, <2>1 DEF IngestFinalize
  <2>3. b \in BOOLEAN
    OBVIOUS
  <2> HIDE DEF b
  <2>4. r \in Ing
    BY <2>1, <2>3 DEF IngestPCs
  <2> HIDE DEF r
  <2>5. ing' \in [Ingesters -> Ing]
    BY <2>1, <2>2, <2>4
  <2> QED
    BY <1>1, <1>6, <2>5 DEF IngestFinalize, IngestTypeOK, SlotTypeOK
<1>7. CASE IngestCommit(i)
  <2> DEFINE j == ing[i].job
  <2>1. j \in Jobs /\ MySong(i) \in Songs
    BY <1>2, <1>7 DEF IngestCommit, HoldsRow
  <2>2. row' \in [Jobs -> Row]
    <3> DEFINE r == [[row[j] EXCEPT !.state = "READY"] EXCEPT !.song_id = row[j].task_id]
    <3>1. [row[j] EXCEPT !.state = "READY"] \in Row
      BY <2>1, StateWriteType DEF States, TerminalStates
    <3>2. row[j].task_id \in Tasks \cup {NoTask}
      BY <2>1 DEF Row
    <3>3. r \in Row
      BY <3>1, <3>2 DEF Row
    <3>4. row' = [row EXCEPT ![j] = r]
      BY <1>7, <2>1 DEF IngestCommit
    <3> QED
      BY <2>1, <3>3, <3>4, RowWriteType
  <2>3. playback' \in Seq([job : Jobs, song : Songs])
    <3> DEFINE Entry == [job : Jobs, song : Songs]
               e == [job |-> j, song |-> MySong(i)]
    <3>1. e \in Entry
      BY <2>1
    <3>2. playback' = playback \/ playback' = Append(playback, e)
      BY <1>7 DEF IngestCommit
    <3>3. playback \in Seq(Entry)
      BY DEF IngestTypeOK
    <3> HIDE DEF e, Entry
    <3>4. Append(playback, e) \in Seq(Entry)
      BY <3>1, <3>3
    <3>5. playback' \in Seq(Entry)
      BY <3>2, <3>3, <3>4
    <3> QED
      BY <3>5 DEF Entry
  <2>4. songs' \subseteq Songs /\ storage' \subseteq Songs
    BY <1>7, <2>1 DEF IngestCommit, IngestTypeOK
  <2>5. ing' \in [Ingesters -> [pc : IngestPCs, job : Jobs \cup {NoJob}, enqueue : BOOLEAN]]
    BY <1>7 DEF IngestCommit, IngestTypeOK, IngestPCs
  <2> QED
    BY <1>1, <1>7, <2>2, <2>3, <2>4, <2>5 DEF IngestCommit, IngestTypeOK, SlotTypeOK
<1>8. CASE IngestGiveUp(i)
  <2> DEFINE j == ing[i].job
  <2>1. j \in Jobs
    BY <1>2, <1>8 DEF IngestGiveUp
  <2>2. [row[j] EXCEPT !.state = "FAILED"] \in Row /\ RequeueOrFail(row[j]) \in Row
    BY <2>1, RequeueOrFailType DEF Row, States, TerminalStates
  <2>3. row' \in [Jobs -> Row]
    <3>1. PICK r \in {RequeueOrFail(row[j]), [row[j] EXCEPT !.state = "FAILED"]} :
            row' = [row EXCEPT ![j] = r]
      BY <1>8 DEF IngestGiveUp
    <3> QED
      BY <2>1, <2>2, <3>1, RowWriteType
  <2>4. ing' \in [Ingesters -> [pc : IngestPCs, job : Jobs \cup {NoJob}, enqueue : BOOLEAN]]
    <3>1. ing' \in {[ing EXCEPT ![i] = [ing[i] EXCEPT !.pc = "release"]],
                   [ing EXCEPT ![i] = IdleIngest]}
      <4>1. PICK r : ing' = [ing EXCEPT ![i] =
                IF r.state = "FAILED" THEN [ing[i] EXCEPT !.pc = "release"] ELSE IdleIngest]
        BY <1>8 DEF IngestGiveUp, IngestTypeOK
      <4>2. CASE r.state = "FAILED"
        BY <4>1, <4>2
      <4>3. CASE r.state # "FAILED"
        BY <4>1, <4>3
      <4> QED
        BY <4>2, <4>3
    <3> DEFINE Ing == [pc : IngestPCs, job : Jobs \cup {NoJob}, enqueue : BOOLEAN]
    <3>2. IdleIngest \in Ing /\ ing \in [Ingesters -> Ing]
      BY DEF IdleIngest, IngestTypeOK, IngestPCs
    <3>3. [ing[i] EXCEPT !.pc = "release"] \in Ing
      BY <3>2 DEF IngestPCs
    <3> HIDE DEF Ing
    <3>4. ing' \in [Ingesters -> Ing]
      BY <3>1, <3>2, <3>3
    <3> QED
      BY <3>4 DEF Ing
  <2> QED
    BY <1>1, <1>8, <2>3, <2>4 DEF IngestGiveUp, IngestTypeOK, SlotTypeOK
<1>9. CASE IngestRelease(i)
  <2>1. SlotTypeOK' /\ faults' \in 0..MaxFaults
    BY <1>2, <1>9, SafeReleaseType DEF IngestRelease
  <2>2. IngestTypeOK'
    BY <1>9 DEF IngestRelease, IdleIngest, IngestTypeOK, IngestPCs
  <2> QED
    BY <1>1, <1>9, <2>1, <2>2 DEF IngestRelease
<1>10. CASE IngestCrash(i)
  <2>1. IngestTypeOK'
    BY <1>10 DEF IngestCrash, IdleIngest, IngestTypeOK, IngestPCs
  <2> QED
    BY <1>1, <1>10, <2>1, JobStoreAssumption DEF IngestCrash, Fault, SlotTypeOK
<1> QED
  BY <1>3, <1>4, <1>5, <1>6, <1>7, <1>8, <1>9, <1>10 DEF IngestStep

\* A sweeper's record after any of its moves.
Tick == [stage : 1..9, owes : {"none", "release", "refund"},
         job : Jobs \cup {NoJob}, count : Nat, byUser : [Users -> Nat]]

LEMMA TickType ==
  ASSUME WatchdogTypeOK, NEW s \in Sweepers, NEW t \in Tick,
         swp' \in {swp, [swp EXCEPT ![s] = t]},
         refunds' \in [Jobs -> Nat], overdue' \in 0..JobCount
  PROVE  WatchdogTypeOK'
BY DEF WatchdogTypeOK, Tick

LEMMA TickFields ==
  ASSUME WatchdogTypeOK, NEW s \in Sweepers
  PROVE  /\ swp[s] \in Tick
         /\ \A owes \in {"none", "release", "refund"}, j \in Jobs \cup {NoJob} :
              [swp[s] EXCEPT !.owes = owes, !.job = j] \in Tick
         /\ swp[s].stage # 9 =>
              /\ [swp[s] EXCEPT !.stage = @ + 1] \in Tick
              /\ \A n \in Nat : [swp[s] EXCEPT !.stage = @ + 1, !.count = n] \in Tick
              /\ \A f \in [Users -> Nat] :
                   [swp[s] EXCEPT !.stage = @ + 1, !.byUser = f] \in Tick
<1>1. swp[s] \in Tick
  BY DEF WatchdogTypeOK, Tick
<1>2. \A owes \in {"none", "release", "refund"}, j \in Jobs \cup {NoJob} :
        [swp[s] EXCEPT !.owes = owes, !.job = j] \in Tick
  BY <1>1 DEF Tick
<1>3. ASSUME swp[s].stage # 9
      PROVE  /\ [swp[s] EXCEPT !.stage = @ + 1] \in Tick
             /\ \A n \in Nat : [swp[s] EXCEPT !.stage = @ + 1, !.count = n] \in Tick
             /\ \A f \in [Users -> Nat] :
                  [swp[s] EXCEPT !.stage = @ + 1, !.byUser = f] \in Tick
  <2>1. swp[s].stage + 1 \in 1..9
    BY <1>1, <1>3 DEF Tick
  <2> QED
    BY <1>1, <2>1 DEF Tick
<1> QED
  BY <1>1, <1>2, <1>3

\* What a sweep's step keeps, whichever row it leaves behind.
LEMMA SweepType ==
  ASSUME TypeOK, NEW s \in Sweepers, NEW j \in Jobs, NEW r \in Row,
         NEW owes \in {"none", "release", "refund"},
         Sweep(s, j, r, owes), UNCHANGED <<hookOwes, ingestVars>>
  PROVE  TypeOK'
<1>1. row' \in [Jobs -> Row]
  BY DEF Sweep, TypeOK, StoreTypeOK
<1>2. swp' = swp \/ swp' = [swp EXCEPT ![s] = [swp[s] EXCEPT !.owes = owes, !.job = j]]
  BY DEF Sweep, TypeOK, WatchdogTypeOK
<1>3. WatchdogTypeOK /\ refunds' \in [Jobs -> Nat] /\ overdue' \in 0..JobCount
  BY DEF Sweep, TypeOK, WatchdogTypeOK
<1>4. [swp[s] EXCEPT !.owes = owes, !.job = j] \in Tick
  BY <1>3, TickFields
<1>5. WatchdogTypeOK'
  BY <1>2, <1>3, <1>4, TickType
<1> QED
  BY <1>1, <1>5 DEF Sweep, TypeOK, StoreTypeOK, slotVars, ingestVars, SlotTypeOK,
     DispatchTypeOK, WebhookTypeOK, IngestTypeOK

LEMMA WatchdogTypes ==
  ASSUME IInv, NEW s \in Sweepers, WatchdogTick(s) \/ WatchdogFault(s)
  PROVE  TypeOK'
<1> USE DEF IInv, WatchdogTick, WatchdogFault
<1>1. /\ \A j \in Jobs : row[j] \in Row
      /\ \A r \in Row, x \in {"INGEST_PENDING", "QUEUED", "FAILED"} :
           /\ [r EXCEPT !.state = x] \in Row
           /\ [r EXCEPT !.state = x, !.available = TRUE] \in Row
      /\ \A r \in Row : /\ Failed(r) \in Row
                        /\ [r EXCEPT !.available = TRUE] \in Row
                        /\ [r EXCEPT !.failure_handled = TRUE] \in Row
  BY DEF TypeOK, StoreTypeOK, Failed, Row, States, NonTerminalStates, ActiveStates,
     TerminalStates
<1>2. CASE SweepWaiting(s)
  BY <1>1, <1>2, SweepType DEF SweepWaiting, InState
<1>3. CASE SweepSubmitting(s)
  BY <1>1, <1>3, SweepType DEF SweepSubmitting, Stuck, InState
<1>4. CASE SweepIngest(s)
  BY <1>1, <1>4, SweepType DEF SweepIngest, InState
<1>5. CASE SweepExpired(s)
  BY <1>1, <1>5, SweepType DEF SweepExpired, Expire
<1>6. CASE SweepFailures(s)
  BY <1>1, <1>6, SweepType DEF SweepFailures
<1>7. ASSUME UNCHANGED <<row, locked, calls, disp, hookOwes, ingestVars>>,
             faults' \in 0..MaxFaults, SlotTypeOK', WatchdogTypeOK'
      PROVE  TypeOK'
  BY <1>7 DEF TypeOK, StoreTypeOK, ingestVars, DispatchTypeOK, WebhookTypeOK, IngestTypeOK
<1>8. CASE SweeperRelease(s)
  <2>1. swp[s].job \in Jobs /\ Owner[swp[s].job] \in Users
    BY <1>8, JobStoreAssumption DEF SweeperRelease, LoopsHaveJobs
  <2>2. SlotTypeOK' /\ faults' \in 0..MaxFaults
    BY <1>8, <2>1, SafeReleaseType DEF SweeperRelease, TypeOK, StoreTypeOK
  <2>3. swp' = [swp EXCEPT ![s] = [swp[s] EXCEPT !.owes = "none", !.job = NoJob]]
    BY <1>8 DEF SweeperRelease, TypeOK, WatchdogTypeOK
  <2>4. WatchdogTypeOK'
    <3>1. refunds' \in [Jobs -> Nat] /\ overdue' \in 0..JobCount
      BY <1>8 DEF SweeperRelease, TypeOK, WatchdogTypeOK
    <3>2. [swp[s] EXCEPT !.owes = "none", !.job = NoJob] \in Tick
      BY TickFields DEF TypeOK
    <3> QED
      BY <2>3, <3>1, <3>2, TickType DEF TypeOK
  <2> QED
    BY <1>7, <1>8, <2>2, <2>4 DEF SweeperRelease
<1>9. CASE SweeperRefund(s)
  <2>1. swp[s].job \in Jobs
    BY <1>9 DEF SweeperRefund, LoopsHaveJobs
  <2>2. faults' \in 0..MaxFaults /\ SlotTypeOK'
    BY <1>9, JobStoreAssumption
       DEF SweeperRefund, Fault, TypeOK, StoreTypeOK, SlotTypeOK, slotVars
  <2>3. swp' = [swp EXCEPT ![s] = [swp[s] EXCEPT !.owes = "none", !.job = NoJob]]
    BY <1>9 DEF SweeperRefund, TypeOK, WatchdogTypeOK
  <2>4. WatchdogTypeOK'
    <3>1. refunds' \in [Jobs -> Nat] /\ overdue' \in 0..JobCount
      BY <1>9, <2>1 DEF SweeperRefund, TypeOK, WatchdogTypeOK
    <3>2. [swp[s] EXCEPT !.owes = "none", !.job = NoJob] \in Tick
      BY TickFields DEF TypeOK
    <3> QED
      BY <2>3, <3>1, <3>2, TickType DEF TypeOK
  <2> QED
    BY <1>7, <1>9, <2>2, <2>4 DEF SweeperRefund
<1>10. CASE NextStage(s)
  <2>1. WatchdogTypeOK'
    <3>1. refunds' \in [Jobs -> Nat] /\ overdue' \in 0..JobCount
      BY <1>10 DEF NextStage, TypeOK, WatchdogTypeOK
    <3>4. swp[s].stage # 9
      BY <1>10 DEF NextStage, TypeOK, WatchdogTypeOK
    <3>2. [swp[s] EXCEPT !.stage = @ + 1] \in Tick
      BY <3>4, TickFields DEF TypeOK
    <3>3. swp' = [swp EXCEPT ![s] = [swp[s] EXCEPT !.stage = @ + 1]]
      BY <1>10 DEF NextStage, TypeOK, WatchdogTypeOK
    <3> QED
      BY <3>1, <3>2, <3>3, TickType DEF TypeOK
  <2> QED
    BY <1>7, <1>10, <2>1 DEF NextStage, storeVars, slotVars, TypeOK, StoreTypeOK, SlotTypeOK
<1>11. CASE Reconcile(s)
  <2>1. CASE ReadCount(s)
    <3>1. PICK n \in Nat : swp' = [swp EXCEPT ![s].stage = @ + 1, ![s].count = n]
      BY <2>1, CountsAreNat DEF ReadCount
    <3>2. swp' = [swp EXCEPT ![s] = [swp[s] EXCEPT !.stage = @ + 1, !.count = n]]
      BY <3>1 DEF TypeOK, WatchdogTypeOK
    <3>3. WatchdogTypeOK'
      <4>1. refunds' \in [Jobs -> Nat] /\ overdue' \in 0..JobCount
        BY <2>1 DEF ReadCount, TypeOK, WatchdogTypeOK
      <4>2. swp[s].stage # 9
        BY <2>1 DEF ReadCount, At, Stages
      <4>3. [swp[s] EXCEPT !.stage = @ + 1, !.count = n] \in Tick
        BY <4>2, TickFields DEF TypeOK
      <4> QED
        BY <3>2, <4>1, <4>3, TickType DEF TypeOK
    <3> QED
      BY <1>7, <2>1, <3>3 DEF ReadCount, storeVars, slotVars, TypeOK, StoreTypeOK, SlotTypeOK
  <2>2. CASE ReadCountByUser(s)
    <3>1. PICK f \in [Users -> Nat] : swp' = [swp EXCEPT ![s].stage = @ + 1, ![s].byUser = f]
      BY <2>2, CountsAreNat DEF ReadCountByUser
    <3>2. swp' = [swp EXCEPT ![s] = [swp[s] EXCEPT !.stage = @ + 1, !.byUser = f]]
      BY <3>1 DEF TypeOK, WatchdogTypeOK
    <3>3. WatchdogTypeOK'
      <4>1. refunds' \in [Jobs -> Nat] /\ overdue' \in 0..JobCount
        BY <2>2 DEF ReadCountByUser, TypeOK, WatchdogTypeOK
      <4>2. swp[s].stage # 9
        BY <2>2 DEF ReadCountByUser, At, Stages
      <4>3. [swp[s] EXCEPT !.stage = @ + 1, !.byUser = f] \in Tick
        BY <4>2, TickFields DEF TypeOK
      <4> QED
        BY <3>2, <4>1, <4>3, TickType DEF TypeOK
    <3> QED
      BY <1>7, <2>2, <3>3
         DEF ReadCountByUser, storeVars, slotVars, TypeOK, StoreTypeOK, SlotTypeOK
  <2>3. CASE CorrectSlots(s)
    <3>1. SlotTypeOK'
      BY <2>3 DEF CorrectSlots, ReconcileGlobal, DecreaseTo, TypeOK, SlotTypeOK, WatchdogTypeOK
    <3>2. swp' = [swp EXCEPT ![s] = [swp[s] EXCEPT !.stage = @ + 1, !.count = 0]]
      BY <2>3 DEF CorrectSlots, TypeOK, WatchdogTypeOK
    <3>3. WatchdogTypeOK'
      <4>1. refunds' \in [Jobs -> Nat] /\ overdue' \in 0..JobCount
        BY <2>3 DEF CorrectSlots, TypeOK, WatchdogTypeOK
      <4>2. swp[s].stage # 9
        BY <2>3 DEF CorrectSlots, At, Stages
      <4>3. [swp[s] EXCEPT !.stage = @ + 1, !.count = 0] \in Tick
        BY <4>2, TickFields DEF TypeOK
      <4> QED
        BY <3>2, <4>1, <4>3, TickType DEF TypeOK
    <3> QED
      BY <1>7, <2>3, <3>1, <3>3 DEF CorrectSlots, storeVars, TypeOK, StoreTypeOK
  <2>4. CASE CorrectUserSlots(s)
    <3>1. SlotTypeOK'
      BY <2>4 DEF CorrectUserSlots, ReconcileUsers, DecreaseTo, TypeOK, SlotTypeOK, WatchdogTypeOK
    <3>2. WatchdogTypeOK'
      BY <2>4 DEF CorrectUserSlots, TickStart, NoCounts, TypeOK, WatchdogTypeOK
    <3> QED
      BY <1>7, <2>4, <3>1, <3>2 DEF CorrectUserSlots, storeVars, TypeOK, StoreTypeOK
  <2> QED
    BY <1>11, <2>1, <2>2, <2>3, <2>4 DEF Reconcile
<1>12. CASE SweeperCrash(s)
  <2>1. WatchdogTypeOK'
    BY <1>12 DEF SweeperCrash, TickStart, NoCounts, TypeOK, WatchdogTypeOK
  <2> QED
    BY <1>7, <1>12, <2>1, JobStoreAssumption
       DEF SweeperCrash, Fault, slotVars, TypeOK, StoreTypeOK, SlotTypeOK
<1> QED
  BY <1>2, <1>3, <1>4, <1>5, <1>6, <1>8, <1>9, <1>10, <1>11, <1>12 DEF SweeperStep

LEMMA TypesPreserved == IInv /\ [Next]_vars => TypeOK'
<1> SUFFICES ASSUME IInv, [Next]_vars PROVE TypeOK'
  OBVIOUS
<1>1. CASE UNCHANGED vars
  BY <1>1 DEF vars, IInv, TypeOK, storeVars, slotVars, ingestVars, watchdogVars, StoreTypeOK,
     SlotTypeOK, DispatchTypeOK, WebhookTypeOK, IngestTypeOK, WatchdogTypeOK
<1>2. CASE Deadline
  <2>1. overdue' \in 0..JobCount
    BY <1>2, JobStoreAssumption DEF Deadline, DeadlinePasses, IInv, TypeOK, WatchdogTypeOK
  <2> QED
    BY <1>2, <2>1 DEF Deadline, DeadlinePasses, storeVars, slotVars, ingestVars, IInv, TypeOK,
       StoreTypeOK, SlotTypeOK, DispatchTypeOK, WebhookTypeOK, IngestTypeOK, WatchdogTypeOK
<1> QED
  BY <1>1, <1>2, EntryTypes, DispatchTypes, IngestTypes, WatchdogTypes DEF Next

-----------------------------------------------------------------------------
(* Loops, tasks and locks *)

\* Which loops a step can move.
LEMMA StepFrames ==
  ASSUME [Next]_vars
  PROVE  \/ UNCHANGED <<disp, ing, swp>>
         \/ \E d \in Dispatchers : (Dispatch(d) \/ DispatchFault(d)) /\ UNCHANGED <<ing, swp>>
         \/ \E i \in Ingesters : (IngestLoop(i) \/ IngestFault(i)) /\ UNCHANGED <<disp, swp>>
         \/ \E s \in Sweepers :
              (WatchdogTick(s) \/ WatchdogFault(s)) /\ UNCHANGED <<disp, ing>>
<1> USE DEF ingestVars, watchdogVars
<1>1. CASE UNCHANGED vars
  BY <1>1 DEF vars
<1>2. CASE Deadline
  BY <1>2 DEF Deadline, DeadlinePasses
<1>3. ASSUME NEW j \in Jobs, Create(j) \/ Clock(j) \/ Webhook(j) \/ WebhookTail(j)
      PROVE  UNCHANGED <<disp, ing, swp>>
  BY <1>3 DEF Create, Clock, Webhook, WebhookTail
<1>4. ASSUME NEW d \in Dispatchers, Dispatch(d) \/ DispatchFault(d)
      PROVE  UNCHANGED <<ing, swp>>
  BY <1>4 DEF Dispatch, DispatchFault
<1>5. ASSUME NEW i \in Ingesters, IngestLoop(i) \/ IngestFault(i)
      PROVE  UNCHANGED <<disp, swp>>
  BY <1>5 DEF IngestLoop, IngestFault
<1>6. ASSUME NEW s \in Sweepers, WatchdogTick(s) \/ WatchdogFault(s)
      PROVE  UNCHANGED <<disp, ing>>
  <2>1. CASE SweeperCrash(s)
    BY <1>6, <2>1 DEF WatchdogTick, WatchdogFault, SweeperCrash
  <2>2. CASE SweeperStep(s)
    <3>1. UNCHANGED disp
      BY <2>2 DEF SweeperStep, SweepWaiting, SweepSubmitting, SweepIngest, SweepExpired,
         Expire, SweepFailures, Sweep, SweeperRelease, SweeperRefund, NextStage, Reconcile,
         ReadCount, ReadCountByUser, CorrectSlots, CorrectUserSlots
    <3> QED
      BY <1>6, <3>1 DEF WatchdogTick, WatchdogFault
  <2> QED
    BY <1>6, <2>1, <2>2 DEF WatchdogTick, WatchdogFault
<1> QED
  BY <1>1, <1>2, <1>3, <1>4, <1>5, <1>6 DEF Next

LEMMA LoopsPreserved == IInv /\ [Next]_vars => LoopsHaveJobs'
<1> SUFFICES ASSUME IInv, [Next]_vars PROVE LoopsHaveJobs'
  OBVIOUS
<1> USE DEF IInv, LoopsHaveJobs
<1>2. CASE UNCHANGED <<disp, ing, swp>>
  BY <1>2
<1>3. ASSUME NEW d \in Dispatchers, Dispatch(d) \/ DispatchFault(d), UNCHANGED <<ing, swp>>
      PROVE  LoopsHaveJobs'
  <2>1. disp \in [Dispatchers -> [pc : DispatchPCs, job : Jobs \cup {NoJob},
                     result : Results \cup {"none"}, task : Tasks \cup {NoTask}, count : Nat]]
    BY DEF TypeOK, DispatchTypeOK
  <2>2. /\ disp'[d].pc # "idle" => disp'[d].job \in Jobs
        /\ disp'[d].result = "created" => disp'[d].task \in Tasks
        /\ \A e \in Dispatchers : e # d => disp'[e] = disp[e]
    <3>1. CASE Claim(d)
      BY <2>1, <3>1 DEF Claim, IdleDispatch
    <3>2. CASE AcquireGlobal(d)
      BY <2>1, <3>2 DEF AcquireGlobal, Goto, GotoWith
    <3>3. CASE AcquireUser(d)
      BY <2>1, <3>3 DEF AcquireUser, Goto
    <3>4. CASE RollBackGlobal(d)
      BY <2>1, <3>4 DEF RollBackGlobal, GotoWith
    <3>5. CASE CallApi(d)
      BY <2>1, <3>5, JobStoreAssumption
         DEF CallApi, GotoWith, Failures, Tasks, TypeOK, StoreTypeOK
    <3>6. CASE DispatchRelease(d)
      BY <2>1, <3>6 DEF DispatchRelease, Goto
    <3>7. CASE CountActive(d)
      BY <2>1, <3>7 DEF CountActive
    <3>8. CASE CorrectGlobal(d)
      BY <2>1, <3>8 DEF CorrectGlobal, Goto
    <3>9. CASE CommitResult(d) \/ DispatchCrash(d)
      BY <2>1, <3>9 DEF CommitResult, DispatchCrash, IdleDispatch
    <3> QED
      BY <1>3, <3>1, <3>2, <3>3, <3>4, <3>5, <3>6, <3>7, <3>8, <3>9
         DEF Dispatch, DispatchFault, DispatchStep
  <2> QED
    BY <1>3, <2>2
<1>4. ASSUME NEW i \in Ingesters, IngestLoop(i) \/ IngestFault(i), UNCHANGED <<disp, swp>>
      PROVE  LoopsHaveJobs'
  BY <1>4 DEF TypeOK, IngestTypeOK, IngestLoop, IngestFault, IngestStep, IngestClaim,
     IngestFetch, IngestPut, IngestFinalize, IngestCommit, IngestGiveUp, IngestRelease,
     IngestCrash, GotoIngest, IdleIngest, Claims
<1>5. ASSUME NEW s \in Sweepers, WatchdogTick(s) \/ WatchdogFault(s), UNCHANGED <<disp, ing>>
      PROVE  LoopsHaveJobs'
  <2>1. swp \in [Sweepers -> Tick]
    BY DEF TypeOK, WatchdogTypeOK, Tick
  <2>2. ASSUME NEW j \in Jobs, NEW r, NEW owes, Sweep(s, j, r, owes)
        PROVE  LoopsHaveJobs'
    BY <1>5, <2>1, <2>2 DEF Sweep, Tick
  <2>3. CASE SweepWaiting(s) \/ SweepSubmitting(s) \/ SweepIngest(s) \/ SweepExpired(s)
             \/ SweepFailures(s)
    BY <2>2, <2>3 DEF SweepWaiting, SweepSubmitting, SweepIngest, SweepExpired, Expire,
       SweepFailures, InState, Stuck
  <2>4. CASE SweeperRelease(s) \/ SweeperRefund(s) \/ SweeperCrash(s)
    <3>1. swp'[s].owes = "none" /\ \A t \in Sweepers : t # s => swp'[t] = swp[t]
      BY <2>1, <2>4 DEF SweeperRelease, SweeperRefund, SweeperCrash, TickStart, Tick
    <3> QED
      BY <1>5, <3>1
  <2>5. CASE NextStage(s) \/ Reconcile(s)
    BY <1>5, <2>1, <2>5 DEF NextStage, Reconcile, ReadCount, ReadCountByUser, CorrectSlots,
       CorrectUserSlots, TickStart, Tick
  <2> QED
    BY <1>5, <2>3, <2>4, <2>5 DEF WatchdogTick, WatchdogFault, SweeperStep
<1> QED
  BY <1>2, <1>3, <1>4, <1>5, StepFrames

\* The steps that write rows or take or give up row locks.
EntryWrite(j) == Create(j) \/ Clock(j) \/ Webhook(j)
DispatchWrite(d) == Claim(d) \/ CountActive(d) \/ CommitResult(d) \/ DispatchCrash(d)
IngestWrite(i) == IngestClaim(i) \/ IngestCommit(i) \/ IngestGiveUp(i) \/ IngestCrash(i)
SweepWrite(s) ==
  \/ SweepWaiting(s) \/ SweepSubmitting(s) \/ SweepIngest(s) \/ SweepExpired(s)
  \/ SweepFailures(s)

\* A sweep writes one row that nobody has locked, keeps its handles and makes no
\* row look dispatched that was not.
LEMMA SweepWrites ==
  ASSUME TypeOK, NEW s \in Sweepers, SweepWrite(s)
  PROVE  \E j \in Jobs, r \in Row :
           /\ j \notin locked
           /\ row' = [row EXCEPT ![j] = r]
           /\ locked' = locked
           /\ r.task_id = row[j].task_id
           /\ r.state \in PastDispatch => row[j].state \in PastDispatch
           /\ r.state = "READY" => row[j].state = "READY"
           /\ row[j].failure_handled => r.failure_handled
<1> DEFINE Leaves(j, r) ==
             /\ r \in Row
             /\ r.task_id = row[j].task_id
             /\ r.state \in PastDispatch => row[j].state \in PastDispatch
             /\ r.state = "READY" => row[j].state = "READY"
             /\ row[j].failure_handled => r.failure_handled
           Writes(j, r) == /\ j \notin locked
                           /\ row' = [row EXCEPT ![j] = r]
                           /\ locked' = locked
<1>1. \A j \in Jobs : row[j] \in Row
  BY DEF TypeOK, StoreTypeOK
<1>2. ASSUME NEW j \in Jobs PROVE Leaves(j, Failed(row[j]))
  BY <1>1 DEF Failed, Row, States, TerminalStates, PastDispatch
<1>3. ASSUME NEW j \in Jobs, row[j].state = "WAITING_FOR_WEBHOOK"
      PROVE  Leaves(j, [row[j] EXCEPT !.state = "INGEST_PENDING"])
  BY <1>1, <1>3 DEF Row, States, NonTerminalStates, ActiveStates, PastDispatch
<1>4. ASSUME NEW j \in Jobs
      PROVE  Leaves(j, [row[j] EXCEPT !.state = "QUEUED", !.available = TRUE])
  <2> DEFINE q == [row[j] EXCEPT !.state = "QUEUED"]
  <2>1. /\ q \in Row /\ q.task_id = row[j].task_id /\ q.state = "QUEUED"
        /\ q.failure_handled = row[j].failure_handled
    BY <1>1 DEF Row, States, NonTerminalStates
  <2> HIDE DEF q
  <2>2. [q EXCEPT !.available = TRUE] \in Row
    BY <2>1 DEF Row
  <2>3. LET r == [q EXCEPT !.available = TRUE] IN
          /\ r.task_id = row[j].task_id /\ r.state = "QUEUED"
          /\ r.failure_handled = row[j].failure_handled
    BY <2>1 DEF Row
  <2>4. [row[j] EXCEPT !.state = "QUEUED", !.available = TRUE] = [q EXCEPT !.available = TRUE]
    BY DEF q
  <2> QED
    BY <2>2, <2>3, <2>4 DEF PastDispatch
<1>5. ASSUME NEW j \in Jobs PROVE Leaves(j, [row[j] EXCEPT !.available = TRUE])
  BY <1>1 DEF Row
<1>6. ASSUME NEW j \in Jobs PROVE Leaves(j, [row[j] EXCEPT !.failure_handled = TRUE])
  BY <1>1 DEF Row
<1> HIDE DEF Leaves
<1>7. \E j \in Jobs : \E r : Leaves(j, r) /\ Writes(j, r)
  <2>1. CASE SweepWaiting(s)
    <3>1. PICK j \in Jobs : /\ row[j].state = "WAITING_FOR_WEBHOOK"
                            /\ \/ Writes(j, [row[j] EXCEPT !.state = "INGEST_PENDING"])
                               \/ Writes(j, Failed(row[j]))
      BY <2>1 DEF SweepWaiting, InState, Sweep
    <3> QED
      BY <1>2, <1>3, <3>1
  <2>2. CASE SweepSubmitting(s)
    <3>1. PICK j \in Jobs :
            Writes(j, [row[j] EXCEPT !.state = "QUEUED", !.available = TRUE])
      BY <2>2 DEF SweepSubmitting, Stuck, InState, Sweep
    <3> QED
      BY <1>4, <3>1
  <2>3. CASE SweepIngest(s)
    <3>1. PICK j \in Jobs : \/ Writes(j, Failed(row[j]))
                            \/ Writes(j, [row[j] EXCEPT !.available = TRUE])
      BY <2>3 DEF SweepIngest, InState, Sweep
    <3> QED
      BY <1>2, <1>5, <3>1
  <2>4. CASE SweepExpired(s)
    <3>1. PICK j \in Jobs : Writes(j, Failed(row[j]))
      BY <2>4 DEF SweepExpired, Expire, Claims, Sweep
    <3> QED
      BY <1>2, <3>1
  <2>5. CASE SweepFailures(s)
    <3>1. PICK j \in Jobs : Writes(j, [row[j] EXCEPT !.failure_handled = TRUE])
      BY <2>5 DEF SweepFailures, Claims, Sweep
    <3> QED
      BY <1>6, <3>1
  <2> QED
    BY <2>1, <2>2, <2>3, <2>4, <2>5 DEF SweepWrite
<1> QED
  BY <1>7 DEF Leaves

LEMMA RowSteps ==
  ASSUME [Next]_vars
  PROVE  \/ UNCHANGED <<row, locked>>
         \/ \E j \in Jobs : EntryWrite(j)
         \/ \E d \in Dispatchers : DispatchWrite(d) /\ UNCHANGED ing
         \/ \E i \in Ingesters : IngestWrite(i) /\ UNCHANGED disp
         \/ \E s \in Sweepers : SweepWrite(s)
<1> USE DEF storeVars
<1>1. CASE UNCHANGED vars \/ Deadline
  BY <1>1 DEF vars, Deadline, DeadlinePasses
<1>2. ASSUME NEW j \in Jobs, Create(j) \/ Clock(j) \/ Webhook(j) \/ WebhookTail(j)
      PROVE  UNCHANGED <<row, locked>> \/ EntryWrite(j)
  BY <1>2 DEF WebhookTail, WebhookRelease, EntryWrite
<1>3. ASSUME NEW d \in Dispatchers, Dispatch(d) \/ DispatchFault(d)
      PROVE  \/ UNCHANGED <<row, locked>>
             \/ DispatchWrite(d) /\ UNCHANGED ing
  BY <1>3 DEF Dispatch, DispatchFault, DispatchStep, AcquireGlobal, AcquireUser,
     RollBackGlobal, CallApi, DispatchRelease, CorrectGlobal,
     DispatchWrite, ingestVars
<1>4. ASSUME NEW i \in Ingesters, IngestLoop(i) \/ IngestFault(i)
      PROVE  \/ UNCHANGED <<row, locked>>
             \/ IngestWrite(i) /\ UNCHANGED disp
  BY <1>4 DEF IngestLoop, IngestFault, IngestStep, IngestFetch, IngestPut, IngestFinalize,
     IngestRelease, IngestWrite
<1>5. ASSUME NEW s \in Sweepers, WatchdogTick(s) \/ WatchdogFault(s)
      PROVE  UNCHANGED <<row, locked>> \/ SweepWrite(s)
  BY <1>5 DEF WatchdogTick, WatchdogFault, SweeperStep, SweeperRelease, SweeperRefund,
     NextStage, Reconcile, ReadCount, ReadCountByUser, CorrectSlots, CorrectUserSlots,
     SweeperCrash, SweepWrite
<1> QED
  BY <1>1, <1>2, <1>3, <1>4, <1>5 DEF Next

LEMMA TasksPreserved == IInv /\ [Next]_vars => TasksStored'
<1> SUFFICES ASSUME IInv, [Next]_vars PROVE TasksStored'
  OBVIOUS
<1> USE DEF IInv, TasksStored
<1>0. \A j \in Jobs : row[j] \in Row
  BY DEF TypeOK, StoreTypeOK
<1>1. CASE UNCHANGED <<row, locked>>
  BY <1>1
<1>2. ASSUME NEW j \in Jobs, EntryWrite(j) PROVE TasksStored'
  <2>1. \/ row' = [row EXCEPT ![j].available = TRUE]
        \/ row' = [row EXCEPT ![j].state = "QUEUED"]
        \/ row' = [row EXCEPT ![j].state = "FAILED"]
        \/ /\ row[j].state = "WAITING_FOR_WEBHOOK"
           /\ row' = [row EXCEPT ![j].state = "INGEST_PENDING"]
    BY <1>2 DEF EntryWrite, Create, CreateJob, Clock, BackoffElapses, Webhook,
       WebhookDelivery, WebhookAudio, WebhookFailure, Deliverable
  <2> QED
    BY <1>0, <2>1 DEF TypeOK, StoreTypeOK, Row, PastDispatch
<1>3. ASSUME NEW d \in Dispatchers, DispatchWrite(d) PROVE TasksStored'
  <2>1. CASE Claim(d)
    BY <1>0, <2>1 DEF Claim, TypeOK, StoreTypeOK, Row, PastDispatch
  <2>2. CASE CountActive(d) \/ DispatchCrash(d)
    BY <2>2 DEF CountActive, DispatchCrash
  <2>3. CASE CommitResult(d)
    <3>1. disp[d].job \in Jobs /\ (disp[d].result = "created" => disp[d].task \in Tasks)
      BY <2>3 DEF LoopsHaveJobs, CommitResult
    <3>2. ASSUME NEW r \in Row, NEW result, NEW task \in Tasks \cup {NoTask},
                 result = "created" => task \in Tasks,
                 Written(r, result, task).state \in PastDispatch
          PROVE  Written(r, result, task).task_id \in Tasks
      BY <3>2 DEF Written, Row, PastDispatch
    <3>3. disp[d].task \in Tasks \cup {NoTask}
      BY DEF TypeOK, DispatchTypeOK
    <3> QED
      BY <1>0, <2>3, <3>1, <3>2, <3>3 DEF CommitResult, TypeOK, StoreTypeOK
  <2> QED
    BY <1>3, <2>1, <2>2, <2>3 DEF DispatchWrite
<1>4. ASSUME NEW i \in Ingesters, IngestWrite(i) PROVE TasksStored'
  <2>1. CASE IngestClaim(i) \/ IngestCrash(i)
    BY <2>1 DEF IngestClaim, IngestCrash
  <2>2. CASE IngestCommit(i) \/ IngestGiveUp(i)
    <3> DEFINE j == ing[i].job
    <3>1. j \in Jobs /\ row[j].state \in PastDispatch
      BY <2>2 DEF LoopsHaveJobs, LocksExclusive, HoldsRow, IngestCommit, IngestGiveUp,
         PastDispatch
    <3>2. PICK r : row' = [row EXCEPT ![j] = r] /\ r.task_id = row[j].task_id
      <4>1. CASE IngestCommit(i)
        <5>1. row' = [row EXCEPT ![j] = [row[j] EXCEPT !.state = "READY",
                                                       !.song_id = row[j].task_id]]
          BY <3>1, <4>1 DEF IngestCommit, TypeOK, StoreTypeOK
        <5>2. [row[j] EXCEPT !.state = "READY", !.song_id = row[j].task_id].task_id
                = row[j].task_id
          BY <1>0, <3>1 DEF Row
        <5> QED
          BY <5>1, <5>2
      <4>2. CASE IngestGiveUp(i)
        <5>1. /\ RequeueOrFail(row[j]).task_id = row[j].task_id
              /\ [row[j] EXCEPT !.state = "FAILED"].task_id = row[j].task_id
          BY <1>0, <3>1 DEF RequeueOrFail, Row
        <5> QED
          BY <4>2, <5>1 DEF IngestGiveUp
      <4> QED
        BY <2>2, <4>1, <4>2
    <3> QED
      BY <3>1, <3>2 DEF TypeOK, StoreTypeOK
  <2> QED
    BY <1>4, <2>1, <2>2 DEF IngestWrite
<1>5. ASSUME NEW s \in Sweepers, SweepWrite(s) PROVE TasksStored'
  BY <1>5, SweepWrites DEF TypeOK, StoreTypeOK
<1> QED
  BY <1>1, <1>2, <1>3, <1>4, <1>5, RowSteps

\* Nobody but the loop that holds it writes a row that ingest holds.
LEMMA HeldRowsKept ==
  ASSUME IInv, [Next]_vars, NEW i \in Ingesters, HoldsRow(i), ~IngestWrite(i)
  PROVE  row'[ing[i].job] = row[ing[i].job] /\ ing[i].job \in locked'
<1> DEFINE j == ing[i].job
<1>1. j \in Jobs /\ j \in locked /\ row[j].state = "INGEST_PENDING"
  BY DEF IInv, LoopsHaveJobs, LocksExclusive, HoldsRow
<1>2. row \in [Jobs -> Row]
  BY DEF IInv, TypeOK, StoreTypeOK
<1>3. ASSUME NEW k \in Jobs, EntryWrite(k) PROVE row'[j] = row[j] /\ j \in locked'
  BY <1>1, <1>2, <1>3 DEF EntryWrite, Create, CreateJob, Clock, BackoffElapses, Webhook,
     WebhookDelivery, WebhookAudio, WebhookFailure, Deliverable
<1>4. ASSUME NEW d \in Dispatchers, DispatchWrite(d) PROVE row'[j] = row[j] /\ j \in locked'
  <2>1. CASE Claim(d)
    BY <1>1, <1>2, <2>1 DEF Claim, Claims
  <2>2. HasFlushed(d) => disp[d].job # j
    BY DEF IInv, LocksExclusive
  <2>3. CASE CountActive(d) \/ DispatchCrash(d)
    BY <1>1, <2>2, <2>3 DEF CountActive, DispatchCrash
  <2>4. CASE CommitResult(d)
    BY <1>1, <1>2, <2>2, <2>4 DEF CommitResult
  <2> QED
    BY <1>4, <2>1, <2>3, <2>4 DEF DispatchWrite
<1>5. ASSUME NEW k \in Ingesters, IngestWrite(k) PROVE row'[j] = row[j] /\ j \in locked'
  <2>1. k # i
    BY <1>5
  <2>2. HoldsRow(k) => ing[k].job # j
    BY <2>1 DEF IInv, LocksExclusive
  <2> QED
    BY <1>1, <1>2, <1>5, <2>2 DEF IngestWrite, IngestClaim, IngestCommit, IngestGiveUp,
       IngestCrash, HoldsRow
<1>6. ASSUME NEW s \in Sweepers, SweepWrite(s) PROVE row'[j] = row[j] /\ j \in locked'
  BY <1>1, <1>2, <1>6, SweepWrites DEF IInv
<1> QED
  BY <1>1, <1>3, <1>4, <1>5, <1>6, RowSteps

\* The ingest half of the lock discipline.
LEMMA IngestLocksPreserved ==
  ASSUME IInv, [Next]_vars
  PROVE  /\ \A i \in Ingesters : HoldsRow(i)' =>
              ing'[i].job \in locked' /\ row'[ing'[i].job].state = "INGEST_PENDING"
         /\ \A i, k \in Ingesters :
              HoldsRow(i)' /\ HoldsRow(k)' /\ ing'[i].job = ing'[k].job => i = k
<1> USE DEF IInv
<1>0. /\ ing \in [Ingesters -> [pc : IngestPCs, job : Jobs \cup {NoJob}, enqueue : BOOLEAN]]
      /\ \A k \in Ingesters : HoldsRow(k) => ing[k].job \in Jobs
  BY DEF TypeOK, IngestTypeOK, LoopsHaveJobs, HoldsRow
<1>1. CASE UNCHANGED ing
  <2>1. ASSUME NEW i \in Ingesters, HoldsRow(i)
        PROVE  row'[ing[i].job] = row[ing[i].job] /\ ing[i].job \in locked'
    <3>1. ~IngestWrite(i)
      BY <1>0, <1>1, <2>1 DEF IngestWrite, IngestClaim, IngestCommit, IngestGiveUp,
         IngestCrash, HoldsRow, GotoIngest, IdleIngest
    <3> QED
      BY <2>1, <3>1, HeldRowsKept
  <2> QED
    BY <1>1, <2>1 DEF LocksExclusive, HoldsRow
<1>2. ASSUME NEW i \in Ingesters, IngestLoop(i) \/ IngestFault(i) PROVE
        /\ \A k \in Ingesters : HoldsRow(k)' =>
             ing'[k].job \in locked' /\ row'[ing'[k].job].state = "INGEST_PENDING"
        /\ \A k, m \in Ingesters :
             HoldsRow(k)' /\ HoldsRow(m)' /\ ing'[k].job = ing'[m].job => k = m
  <2>1. \A k \in Ingesters : k # i => ing'[k] = ing[k]
    BY <1>0, <1>2 DEF IngestLoop, IngestFault, IngestStep, IngestClaim, IngestFetch,
       IngestPut, IngestFinalize, IngestCommit, IngestGiveUp, IngestRelease, IngestCrash,
       GotoIngest
  <2>2. ASSUME NEW k \in Ingesters, k # i, HoldsRow(k)
        PROVE  row'[ing[k].job] = row[ing[k].job] /\ ing[k].job \in locked'
    <3>1. ~IngestWrite(k)
      BY <1>0, <2>1, <2>2 DEF IngestWrite, IngestClaim, IngestCommit, IngestGiveUp,
         IngestCrash, HoldsRow, GotoIngest, IdleIngest
    <3> QED
      BY <2>2, <3>1, HeldRowsKept
  <2>3. CASE IngestClaim(i)
    <3>1. PICK j \in Jobs :
            /\ j \notin locked /\ row[j].state = "INGEST_PENDING"
            /\ locked' = locked \cup {j} /\ row' = row
            /\ ing' = [ing EXCEPT ![i] = [pc |-> "claimed", job |-> j, enqueue |-> FALSE]]
      BY <2>3 DEF IngestClaim, Claims, Pending, InState
    <3>2. ing'[i].job = j
      BY <1>0, <3>1
    <3> QED
      BY <2>1, <3>1, <3>2 DEF LocksExclusive, HoldsRow
  <2>4. CASE IngestFetch(i) \/ IngestPut(i) \/ IngestFinalize(i)
    <3>1. HoldsRow(i) /\ ing'[i].job = ing[i].job /\ UNCHANGED <<row, locked>>
      BY <1>0, <2>4 DEF IngestFetch, IngestPut, IngestFinalize, GotoIngest, HoldsRow,
         storeVars
    <3> QED
      BY <2>1, <3>1 DEF LocksExclusive, HoldsRow
  <2>5. CASE IngestCommit(i) \/ IngestGiveUp(i) \/ IngestCrash(i) \/ IngestRelease(i)
    <3>1. ~HoldsRow(i)'
      BY <1>0, <2>5 DEF IngestCommit, IngestGiveUp, IngestCrash, IngestRelease, GotoIngest,
         IdleIngest, HoldsRow
    <3> QED
      BY <2>1, <2>2, <3>1 DEF LocksExclusive, HoldsRow
  <2> QED
    BY <1>2, <2>3, <2>4, <2>5 DEF IngestLoop, IngestFault, IngestStep
<1> QED
  BY <1>1, <1>2, StepFrames

\* A dispatch loop that writes its row or its lock goes somewhere else.
LEMMA DispatchWriteMoves ==
  ASSUME DispatchTypeOK, NEW d \in Dispatchers, DispatchWrite(d)
  PROVE  /\ disp'[d].pc # disp[d].pc
         /\ disp'[d].pc \in {"acquire", "correct", "idle"}
         /\ disp'[d].pc = "correct" => CountActive(d)
<1> USE DEF DispatchTypeOK
<1>1. CASE Claim(d)
  <2>1. PICK j \in Jobs :
          disp' = [disp EXCEPT ![d] = [IdleDispatch EXCEPT !.pc = "acquire", !.job = j]]
    BY <1>1 DEF Claim
  <2>2. disp'[d].pc = "acquire"
    BY <2>1 DEF IdleDispatch
  <2> QED
    BY <1>1, <2>2 DEF Claim
<1>2. CASE CountActive(d)
  BY <1>2 DEF CountActive
<1>3. CASE CommitResult(d) \/ DispatchCrash(d)
  <2>1. disp'[d] = IdleDispatch /\ disp[d].pc # "idle"
    BY <1>3 DEF CommitResult, DispatchCrash
  <2> QED
    BY <2>1 DEF IdleDispatch
<1> QED
  BY <1>1, <1>2, <1>3 DEF DispatchWrite

\* A row that a dispatch loop has flushed stays locked until that loop commits.
LEMMA FlushedRowsKept ==
  ASSUME IInv, [Next]_vars, NEW d \in Dispatchers, HasFlushed(d), ~DispatchWrite(d)
  PROVE  disp[d].job \in locked'
<1> USE DEF IInv
<1> DEFINE j == disp[d].job
<1>1. j \in locked
  BY DEF LocksExclusive
<1>2. ASSUME NEW k \in Jobs, EntryWrite(k) PROVE j \in locked'
  BY <1>1, <1>2 DEF EntryWrite, Create, CreateJob, Clock, BackoffElapses, Webhook,
     WebhookDelivery, WebhookAudio, WebhookFailure
<1>3. ASSUME NEW e \in Dispatchers, DispatchWrite(e) PROVE j \in locked'
  <2>1. HasFlushed(e) => disp[e].job # j
    BY <1>3 DEF LocksExclusive
  <2> QED
    BY <1>1, <1>3, <2>1 DEF DispatchWrite, Claim, CountActive, CommitResult, DispatchCrash
<1>4. ASSUME NEW i \in Ingesters, IngestWrite(i) PROVE j \in locked'
  <2>1. HoldsRow(i) => ing[i].job # j
    BY DEF LocksExclusive
  <2> QED
    BY <1>1, <1>4, <2>1 DEF IngestWrite, IngestClaim, IngestCommit, IngestGiveUp,
       IngestCrash, HoldsRow
<1>5. ASSUME NEW s \in Sweepers, SweepWrite(s) PROVE j \in locked'
  BY <1>1, <1>5, SweepWrites
<1> QED
  BY <1>1, <1>2, <1>3, <1>4, <1>5, RowSteps

\* How a dispatch loop comes to have flushed its row: it had, or it counts now.
LEMMA FlushSteps ==
  ASSUME DispatchTypeOK, NEW d \in Dispatchers, Dispatch(d) \/ DispatchFault(d), HasFlushed(d)'
  PROVE  /\ disp'[d].job = disp[d].job
         /\ \/ HasFlushed(d) /\ ~DispatchWrite(d)
            \/ CountActive(d)
<1> USE DEF DispatchTypeOK, HasFlushed
<1>1. CASE (Claim(d) \/ CommitResult(d) \/ DispatchCrash(d)) /\ ~CountActive(d)
  BY <1>1, DispatchWriteMoves DEF DispatchWrite
<1>2. CASE AcquireGlobal(d) \/ AcquireUser(d) \/ RollBackGlobal(d)
  BY <1>2 DEF AcquireGlobal, AcquireUser, RollBackGlobal, Goto, GotoWith
<1>3. CASE CallApi(d)
  BY <1>3 DEF CallApi, GotoWith
<1>4. CASE DispatchRelease(d)
  BY <1>4 DEF DispatchRelease, Goto
<1>5. CASE CountActive(d)
  BY <1>5 DEF CountActive
<1>6. CASE CorrectGlobal(d)
  <2>1. disp[d].pc = "correct" /\ disp'[d].pc = "commit"
    BY <1>6 DEF CorrectGlobal, Goto
  <2>2. ~DispatchWrite(d)
    BY <2>1, DispatchWriteMoves
  <2> QED
    BY <1>6, <2>1, <2>2 DEF CorrectGlobal, Goto
<1> QED
  BY <1>1, <1>2, <1>3, <1>4, <1>5, <1>6 DEF Dispatch, DispatchFault, DispatchStep

LEMMA LocksPreserved == IInv /\ [Next]_vars => LocksExclusive'
<1> SUFFICES ASSUME IInv, [Next]_vars PROVE LocksExclusive'
  OBVIOUS
<1> USE DEF IInv
<1>0. disp \in [Dispatchers -> [pc : DispatchPCs, job : Jobs \cup {NoJob},
                   result : Results \cup {"none"}, task : Tasks \cup {NoTask}, count : Nat]]
  BY DEF TypeOK, DispatchTypeOK
<1>1. CASE UNCHANGED disp
  <2>1. ASSUME NEW d \in Dispatchers, HasFlushed(d) PROVE disp[d].job \in locked'
    <3>1. ~DispatchWrite(d)
      BY <1>1, DispatchWriteMoves DEF TypeOK
    <3> QED
      BY <2>1, <3>1, FlushedRowsKept
  <2>2. ASSUME NEW d \in Dispatchers, HasFlushed(d), NEW i \in Ingesters, HoldsRow(i)'
        PROVE  ing'[i].job # disp[d].job
    <3>1. disp[d].job \in locked /\ (HoldsRow(i) => ing[i].job # disp[d].job)
      BY <2>2 DEF LocksExclusive
    <3>2. CASE UNCHANGED ing
      BY <2>2, <3>1, <3>2 DEF HoldsRow
    <3>3. ASSUME NEW k \in Ingesters, IngestLoop(k) \/ IngestFault(k)
          PROVE  ing'[i].job # disp[d].job
      <4>1. \/ HoldsRow(i) /\ ing'[i].job = ing[i].job
            \/ ing'[i].job \notin locked
        BY <2>2, <3>3 DEF IngestLoop, IngestFault, IngestStep, IngestClaim, IngestFetch,
           IngestPut, IngestFinalize, IngestCommit, IngestGiveUp, IngestRelease,
           IngestCrash, GotoIngest, IdleIngest, HoldsRow, Claims, TypeOK, IngestTypeOK
      <4> QED
        BY <3>1, <4>1
    <3> QED
      BY <3>2, <3>3, StepFrames
  <2> QED
    BY <1>1, <2>1, <2>2, IngestLocksPreserved DEF LocksExclusive, HasFlushed
<1>2. ASSUME NEW d \in Dispatchers, Dispatch(d) \/ DispatchFault(d), UNCHANGED ing
      PROVE  LocksExclusive'
  <2>1. \A e \in Dispatchers : e # d => disp'[e] = disp[e]
    BY <1>0, <1>2 DEF Dispatch, DispatchFault, DispatchStep, Claim, AcquireGlobal,
       AcquireUser, RollBackGlobal, CallApi, DispatchRelease, CountActive, CorrectGlobal,
       CommitResult, DispatchCrash, Goto, GotoWith
  <2>2. ASSUME NEW e \in Dispatchers, e # d, HasFlushed(e) PROVE disp[e].job \in locked'
    <3>1. ~DispatchWrite(e)
      BY <2>1, <2>2, DispatchWriteMoves DEF TypeOK
    <3> QED
      BY <2>2, <3>1, FlushedRowsKept
  <2>3. \A i \in Ingesters : HoldsRow(i) => ing[i].job \in locked
    BY DEF LocksExclusive
  <2>4. ASSUME HasFlushed(d)'
        PROVE  /\ disp'[d].job \in locked'
               /\ \A e \in Dispatchers : e # d /\ HasFlushed(e) => disp[e].job # disp'[d].job
               /\ \A i \in Ingesters : HoldsRow(i) => ing[i].job # disp'[d].job
    <3>1. CASE HasFlushed(d) /\ ~DispatchWrite(d)
      BY <1>2, <2>4, <3>1, FlushSteps, FlushedRowsKept DEF LocksExclusive, TypeOK
    <3>2. CASE CountActive(d)
      <4>1. disp[d].job \notin locked /\ disp[d].job \in locked' /\ disp'[d].job = disp[d].job
        BY <1>0, <3>2 DEF CountActive
      <4> QED
        BY <2>3, <4>1 DEF LocksExclusive
    <3> QED
      BY <1>2, <2>4, <3>1, <3>2, FlushSteps DEF TypeOK
  <2>5. /\ \A e \in Dispatchers : e # d => (HasFlushed(e)' <=> HasFlushed(e))
        /\ \A i \in Ingesters : HoldsRow(i)' <=> HoldsRow(i)
    BY <1>2, <2>1 DEF HasFlushed, HoldsRow
  <2> QED
    BY <1>2, <2>1, <2>2, <2>4, <2>5, IngestLocksPreserved DEF LocksExclusive
<1> QED
  BY <1>1, <1>2, StepFrames

-----------------------------------------------------------------------------
(* Theorems *)

\* The inductive invariant holds: types, and the row-lock discipline that the
\* claims of dispatch, ingest and watchdog follow between them.
THEOREM InductiveInvariant == Spec => []IInv
<1>1. Init => IInv
  BY InitTypes
<1>2. IInv /\ [Next]_vars => IInv'
  BY TypesPreserved, LoopsPreserved, TasksPreserved, LocksPreserved DEF IInv
<1> QED
  BY <1>1, <1>2, PTL DEF Spec

\* Every variable keeps its type: no counter goes negative, no loop carries a job
\* or a task that does not exist, and what ingest enqueues is a song of a task.
THEOREM TypeCorrect == Spec => []TypeOK
<1>1. IInv => TypeOK
  BY DEF IInv
<1> QED
  BY <1>1, InductiveInvariant, PTL
=============================================================================

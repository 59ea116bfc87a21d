----------------------------- MODULE SlotProofs ------------------------------
(***************************************************************************)
(* The semaphore's counters against the slots that are held, from both     *)
(* sides, for any number of loops, jobs and faults.                        *)
(*                                                                         *)
(* Never too many: while the SUBMITTING lease outlasts a live dispatch     *)
(* (LeaseCoversCall) the global counter shows no more slots than are held, *)
(* except one per fault (SlotsAccountedFor).  Never too few: whatever the  *)
(* timing, only a watchdog takes a slot off a user's counter that somebody *)
(* still holds (CreditsAreWatchdogs), and every user's cap holds until     *)
(* such a step leaves more of a user's slots held than counted             *)
(* (UserCapsHold).                                                         *)
(*                                                                         *)
(* The holders are a sum of five counts.  Every step moves at most one     *)
(* member between two of them, so the argument is the same for each step:  *)
(* what each count gains or loses at least, and what the counter does.     *)
(***************************************************************************)
EXTENDS DriverProofs

-----------------------------------------------------------------------------
(* The invariant, and what one member more or less does to a count *)

\* Who holds a slot, or still has to free one: the five parts of Holders.
HoldingLoops ==
  {d \in Dispatchers : disp[d].pc \in {"acquire_user", "rollback"} \/ HoldsSlot(d)}
HoldingRows == InState({"WAITING_FOR_WEBHOOK", "INGEST_PENDING"})
FreeingLoops == {i \in Ingesters : ing[i].pc = "release"}
FreeingSweeps == {s \in Sweepers : swp[s].owes = "release"}

\* A webhook handler that still has to free a slot has a job that nobody drives
\* and that has ended, so that no second handler can come to owe for it; and no
\* sweeper goes on to the counts while it owes a release.
SlotInv ==
  /\ NoPhantomSlot
  /\ \A j \in hookOwes : row[j].state = "FAILED" /\ ~Driven(j)
  /\ \A s \in Sweepers : swp[s].owes # "none" => swp[s].stage <= 5

\* What one member more or less does to a count.
LEMMA CountBounds ==
  ASSUME NEW S, NEW T, IsFiniteSet(S), IsFiniteSet(T), NEW x, S \ {x} \subseteq T
  PROVE  /\ Cardinality(S) \in Nat /\ Cardinality(T) \in Nat
         /\ Cardinality(T) >= Cardinality(S) - 1
         /\ (x \in S => x \in T) => Cardinality(T) >= Cardinality(S)
         /\ x \in T /\ x \notin S => Cardinality(T) >= Cardinality(S) + 1
<1>1. Cardinality(S) \in Nat /\ Cardinality(T) \in Nat
  BY FS_CardinalityType
<1>2. IsFiniteSet(S \ {x}) /\ Cardinality(S \ {x}) <= Cardinality(T)
  BY FS_Subset
<1>3. Cardinality(S \ {x}) = IF x \in S THEN Cardinality(S) - 1 ELSE Cardinality(S)
  BY FS_RemoveElement
<1>4. ASSUME x \in S => x \in T PROVE Cardinality(S) <= Cardinality(T)
  <2>1. S \subseteq T
    BY <1>4
  <2> QED
    BY <2>1, FS_Subset
<1>5. ASSUME x \in T, x \notin S PROVE Cardinality(T) >= Cardinality(S) + 1
  <2>1. S \cup {x} \subseteq T
    BY <1>5
  <2>2. Cardinality(S \cup {x}) = Cardinality(S) + 1
    BY <1>5, FS_AddElement
  <2>3. Cardinality(S \cup {x}) <= Cardinality(T)
    BY <2>1, FS_Subset
  <2> QED
    BY <1>1, <2>2, <2>3
<1> QED
  BY <1>1, <1>2, <1>3, <1>4, <1>5

HoldersFinite ==
  /\ IsFiniteSet(HoldingLoops) /\ IsFiniteSet(HoldingRows) /\ IsFiniteSet(hookOwes)
  /\ IsFiniteSet(FreeingLoops) /\ IsFiniteSet(FreeingSweeps)

LEMMA HoldersAreFinite == TypeOK => HoldersFinite
<1> SUFFICES ASSUME TypeOK PROVE HoldersFinite
  OBVIOUS
<1>1. IsFiniteSet(Jobs)
  BY FS_Interval, JobStoreAssumption DEF Jobs
<1>2. /\ HoldingLoops \subseteq Dispatchers /\ HoldingRows \subseteq Jobs
      /\ hookOwes \subseteq Jobs /\ FreeingLoops \subseteq Ingesters
      /\ FreeingSweeps \subseteq Sweepers
  BY DEF HoldingLoops, HoldingRows, InState, TypeOK, WebhookTypeOK, FreeingLoops, FreeingSweeps
<1> QED
  BY <1>1, <1>2, FS_Subset, DispatchAssumption, IngestAssumption, WatchdogAssumption
     DEF HoldersFinite

HoldersAreNat ==
  /\ Cardinality(HoldingLoops) \in Nat /\ Cardinality(HoldingRows) \in Nat
  /\ Cardinality(hookOwes) \in Nat /\ Cardinality(FreeingLoops) \in Nat
  /\ Cardinality(FreeingSweeps) \in Nat

LEMMA HoldersCounted == TypeOK => HoldersAreNat
BY HoldersAreFinite, FS_CardinalityType DEF HoldersFinite, HoldersAreNat

LEMMA CounterArithmetic ==
  ASSUME NEW s \in Nat, NEW t \in Nat, NEW f \in Nat, NEW g \in Nat, NEW h \in Nat,
         NEW i \in Nat, NEW k \in Int,
         s <= h + f, i >= h + k, t = 0 \/ t + f <= s + k + g
  PROVE  t <= i + g
OBVIOUS

\* The counter stays below the holders if it gains no more than they do, or is 0.
LEMMA HoldersKeepUp ==
  ASSUME TypeOK, TypeOK', NoPhantomSlot, NEW k \in Int,
         Holders' >= Holders + k, slots' = 0 \/ slots' + faults <= slots + k + faults'
  PROVE  NoPhantomSlot'
<1>1. slots \in Nat /\ slots' \in Nat /\ faults \in Nat /\ faults' \in Nat
  BY JobStoreAssumption DEF TypeOK, SlotTypeOK, StoreTypeOK
<1>2. HoldersAreNat /\ HoldersAreNat'
  BY HoldersCounted, PTL
<1>3. Holders \in Nat /\ Holders' \in Nat
  BY <1>2 DEF HoldersAreNat, Holders, HoldingLoops, HoldingRows, FreeingLoops, FreeingSweeps
<1> QED
  BY <1>1, <1>3, CounterArithmetic DEF NoPhantomSlot

\* One leg's release never leaves more than it found, less the one it owed.
LEMMA SafeReleaseFrees ==
  ASSUME TypeOK, NEW u, SafeRelease(u)
  PROVE  slots' = 0 \/ slots' + faults <= slots + (-1) + faults'
<1>1. slots \in Nat /\ faults \in Nat
  BY JobStoreAssumption DEF TypeOK, SlotTypeOK, StoreTypeOK
<1> QED
  BY <1>1 DEF SafeRelease, Release, Decrement, Fault

\* What a step does to one part of the holders.
Gains(new, old, n) == Cardinality(new) >= Cardinality(old) + n
GainsAsSets(new, old) ==
  /\ old \subseteq new => Gains(new, old, 0)
  /\ \A x : old \ {x} \subseteq new => Gains(new, old, -1)
  /\ \A x \in new \ old : old \subseteq new => Gains(new, old, 1)

LEMMA SetGains ==
  ASSUME NEW S, NEW T, IsFiniteSet(S), IsFiniteSet(T)
  PROVE  GainsAsSets(T, S)
<1>1. Cardinality(S) \in Int /\ Cardinality(T) \in Int
  BY FS_CardinalityType
<1>2. ASSUME S \subseteq T PROVE Gains(T, S, 0)
  BY <1>1, <1>2, FS_Subset DEF Gains
<1>3. ASSUME NEW x, S \ {x} \subseteq T PROVE Gains(T, S, -1)
  BY <1>1, <1>3, CountBounds DEF Gains
<1>4. ASSUME NEW x \in T \ S, S \subseteq T PROVE Gains(T, S, 1)
  BY <1>1, <1>4, CountBounds DEF Gains
<1> QED
  BY <1>2, <1>3, <1>4 DEF GainsAsSets

LEMMA PartsGain ==
  ASSUME TypeOK, TypeOK'
  PROVE  /\ GainsAsSets(HoldingLoops', HoldingLoops) /\ GainsAsSets(HoldingRows', HoldingRows)
         /\ GainsAsSets(hookOwes', hookOwes) /\ GainsAsSets(FreeingLoops', FreeingLoops)
         /\ GainsAsSets(FreeingSweeps', FreeingSweeps)
<1>1. HoldersFinite /\ HoldersFinite'
  BY HoldersAreFinite, PTL
<1> QED
  BY <1>1, SetGains DEF HoldersFinite

\* A step that changes at most two parts of the holders, one of them for the worse.
LEMMA HoldersChange ==
  ASSUME TypeOK, TypeOK', NoPhantomSlot,
         NEW a \in {-1, 0, 1}, NEW b \in {-1, 0, 1}, NEW c \in {-1, 0, 1},
         NEW d \in {-1, 0, 1}, NEW e \in {-1, 0, 1}, NEW k \in {-1, 0, 1},
         Gains(HoldingLoops', HoldingLoops, a), Gains(HoldingRows', HoldingRows, b),
         Gains(hookOwes', hookOwes, c), Gains(FreeingLoops', FreeingLoops, d),
         Gains(FreeingSweeps', FreeingSweeps, e), a + b + c + d + e >= k,
         slots' = 0 \/ slots' + faults <= slots + k + faults'
  PROVE  NoPhantomSlot'
<1> DEFINE x1 == Cardinality(HoldingLoops)     y1 == Cardinality(HoldingLoops')
           x2 == Cardinality(HoldingRows)      y2 == Cardinality(HoldingRows')
           x3 == Cardinality(hookOwes)         y3 == Cardinality(hookOwes')
           x4 == Cardinality(FreeingLoops)     y4 == Cardinality(FreeingLoops')
           x5 == Cardinality(FreeingSweeps)    y5 == Cardinality(FreeingSweeps')
<1>1. HoldersAreNat /\ HoldersAreNat'
  BY HoldersCounted, PTL
<1>2. /\ x1 \in Int /\ x2 \in Int /\ x3 \in Int /\ x4 \in Int /\ x5 \in Int
      /\ y1 \in Int /\ y2 \in Int /\ y3 \in Int /\ y4 \in Int /\ y5 \in Int
  BY <1>1 DEF HoldersAreNat
<1>3. y1 >= x1 + a /\ y2 >= x2 + b /\ y3 >= x3 + c /\ y4 >= x4 + d /\ y5 >= x5 + e
  BY DEF Gains
<1>4. Holders = x1 + x2 + x3 + x4 + x5 /\ Holders' = y1 + y2 + y3 + y4 + y5
  BY DEF Holders, HoldingLoops, HoldingRows, FreeingLoops, FreeingSweeps
<1> HIDE DEF x1, x2, x3, x4, x5, y1, y2, y3, y4, y5
<1>5. y1 + y2 + y3 + y4 + y5 >= x1 + x2 + x3 + x4 + x5 + (a + b + c + d + e)
  BY <1>2, <1>3
<1>6. Holders' >= Holders + k
  BY <1>2, <1>4, <1>5
<1> QED
  BY <1>6, HoldersKeepUp

LEMMA NothingTaken ==
  ASSUME TypeOK, TypeOK', slots' <= slots, faults' >= faults
  PROVE  slots' + faults <= slots + 0 + faults'
<1>1. slots \in Nat /\ slots' \in Nat /\ faults \in Nat /\ faults' \in Nat
  BY JobStoreAssumption DEF TypeOK, SlotTypeOK, StoreTypeOK
<1>2. ASSUME NEW s \in Nat, NEW t \in Nat, NEW f \in Nat, NEW g \in Nat, t <= s, g >= f
      PROVE  t + f <= s + 0 + g
  BY <1>2
<1> QED
  BY <1>1, <1>2

-----------------------------------------------------------------------------
(* The counter keeps below the holders, component by component *)

LEMMA DispatchKeepsUp ==
  ASSUME LeaseCoversCall, IInv, DriverInv, TypeOK', NoPhantomSlot, NEW d \in Dispatchers,
         Dispatch(d) \/ DispatchFault(d)
  PROVE  NoPhantomSlot'
<1> DEFINE j == disp[d].job
<1>0. /\ disp \in [Dispatchers -> [pc : DispatchPCs, job : Jobs \cup {NoJob},
                   result : Results \cup {"none"}, task : Tasks \cup {NoTask}, count : Nat]]
      /\ row \in [Jobs -> Row] /\ TypeOK
      /\ slots \in Nat /\ faults \in Nat
  BY JobStoreAssumption DEF IInv, TypeOK, StoreTypeOK, DispatchTypeOK, SlotTypeOK
<1>1. /\ Gains(hookOwes', hookOwes, 0) /\ Gains(FreeingLoops', FreeingLoops, 0)
      /\ Gains(FreeingSweeps', FreeingSweeps, 0)
  <2>1. UNCHANGED <<hookOwes, FreeingLoops, FreeingSweeps>>
    BY DEF Dispatch, DispatchFault, ingestVars, watchdogVars, FreeingLoops, FreeingSweeps
  <2> QED
    BY <1>0, <2>1, PartsGain DEF GainsAsSets
<1>2. HoldingLoops \ {d} \subseteq HoldingLoops'
  BY DriverSteps DEF HoldingLoops, HoldsSlot
<1>3. ~CommitResult(d) => HoldingRows \subseteq HoldingRows'
  BY DriverSteps DEF HoldingRows, InState, ClaimsRow, Becomes, IdleDispatch
<1>4. CASE AcquireGlobal(d) /\ slots' = slots + 1
  <2>1. d \in HoldingLoops' \ HoldingLoops
    BY <1>0, <1>4 DEF AcquireGlobal, Goto, HoldingLoops, HoldsSlot
  <2>2. ~CommitResult(d)
    BY <1>4 DEF AcquireGlobal, CommitResult
  <2>3. Gains(HoldingLoops', HoldingLoops, 1) /\ Gains(HoldingRows', HoldingRows, 0)
    BY <1>0, <1>2, <1>3, <2>1, <2>2, PartsGain DEF GainsAsSets
  <2>4. slots' + faults <= slots + 1 + faults'
    BY <1>0, <1>4 DEF AcquireGlobal, storeVars
  <2> QED
    BY <1>0, <1>1, <2>3, <2>4, HoldersChange
<1>5. ASSUME ~CommitResult(d), d \in HoldingLoops => d \in HoldingLoops',
             slots' <= slots, faults' >= faults
      PROVE  NoPhantomSlot'
  <2>1. Gains(HoldingLoops', HoldingLoops, 0) /\ Gains(HoldingRows', HoldingRows, 0)
    BY <1>0, <1>2, <1>3, <1>5, PartsGain DEF GainsAsSets
  <2>2. slots' + faults <= slots + 0 + faults'
    BY <1>0, <1>5, NothingTaken
  <2> QED
    BY <1>0, <1>1, <2>1, <2>2, HoldersChange
<1>6. ASSUME ~CommitResult(d), slots' = 0 \/ slots' + faults <= slots + (-1) + faults'
      PROVE  NoPhantomSlot'
  <2>1. Gains(HoldingLoops', HoldingLoops, -1) /\ Gains(HoldingRows', HoldingRows, 0)
    BY <1>0, <1>2, <1>3, <1>6, PartsGain DEF GainsAsSets
  <2> QED
    BY <1>0, <1>1, <1>6, <2>1, HoldersChange
<1>7. CASE AcquireGlobal(d) /\ slots' # slots + 1
  <2>1. disp[d].pc = "acquire" /\ slots' = slots /\ faults' = faults
    BY <1>7 DEF AcquireGlobal, storeVars
  <2>2. d \notin HoldingLoops /\ ~CommitResult(d)
    BY <2>1 DEF HoldingLoops, HoldsSlot, CommitResult
  <2> QED
    BY <1>0, <1>5, <2>1, <2>2
<1>8. CASE Claim(d)
  <2>1. disp[d].pc = "idle" /\ slots' = slots /\ faults' = faults
    BY <1>8 DEF Claim
  <2>2. d \notin HoldingLoops /\ ~CommitResult(d)
    BY <2>1 DEF HoldingLoops, HoldsSlot, CommitResult
  <2> QED
    BY <1>0, <1>5, <2>1, <2>2
<1>9. CASE AcquireUser(d) \/ CallApi(d)
  <2>1. /\ slots' = slots /\ faults' = faults /\ ~CommitResult(d)
        /\ \/ disp'[d].pc \in {"call", "release", "rollback"}
           \/ disp'[d].pc = "commit" /\ disp'[d].result = "created"
    BY <1>0, <1>9 DEF AcquireUser, CallApi, Goto, GotoWith, storeVars, CommitResult
  <2>2. d \in HoldingLoops'
    BY <2>1 DEF HoldingLoops, HoldsSlot
  <2> QED
    BY <1>0, <1>5, <2>1, <2>2
<1>10. CASE CountActive(d) \/ CorrectGlobal(d)
  <2>1. slots' <= slots /\ faults' >= faults
    BY <1>0, <1>10 DEF CountActive, CorrectGlobal, ReconcileGlobal, DecreaseTo, Fault
  <2>2. d \notin HoldingLoops /\ ~CommitResult(d)
    BY <1>10 DEF CountActive, CorrectGlobal, HoldingLoops, HoldsSlot, CommitResult
  <2> QED
    BY <1>5, <2>1, <2>2
<1>11. CASE RollBackGlobal(d)
  <2>1. slots' = 0 \/ slots' + faults <= slots + (-1) + faults'
    BY <1>0, <1>11 DEF RollBackGlobal, Decrement, storeVars
  <2> QED
    BY <1>6, <1>11, <2>1 DEF RollBackGlobal, CommitResult
<1>12. CASE DispatchRelease(d)
  BY <1>0, <1>6, <1>12, SafeReleaseFrees DEF DispatchRelease, CommitResult
<1>13. CASE DispatchCrash(d) /\ ~CommitResult(d)
  <2>1. slots' + faults <= slots + (-1) + faults'
    BY <1>0, <1>13 DEF DispatchCrash, Fault
  <2> QED
    BY <1>6, <1>13, <2>1
<1>14. CASE CommitResult(d)
  <2>1. /\ disp[d].pc = "commit" /\ j \in Jobs /\ row[j].state \in {"SUBMITTING", "FAILED"}
        /\ row'[j] = Written(row[j], disp[d].result, disp[d].task)
        /\ \A k \in Jobs : k # j => row'[k] = row[k]
        /\ slots' = slots /\ faults' = faults
    BY <1>0, <1>14 DEF CommitResult, DriverInv, Driving, IInv, LoopsHaveJobs
  <2>2. HoldingRows \subseteq HoldingRows' /\ j \notin HoldingRows
    BY <2>1 DEF HoldingRows, InState
  <2>3. CASE disp[d].result = "created"
    <3>1. row'[j].state = "WAITING_FOR_WEBHOOK"
      BY <1>0, <2>1, <2>3 DEF Written, Row
    <3>2. j \in HoldingRows' \ HoldingRows
      BY <2>1, <2>2, <3>1 DEF HoldingRows, InState
    <3>3. Gains(HoldingLoops', HoldingLoops, -1) /\ Gains(HoldingRows', HoldingRows, 1)
      BY <1>0, <1>2, <2>2, <3>2, PartsGain DEF GainsAsSets
    <3>4. slots' + faults <= slots + 0 + faults'
      BY <1>0, <2>1
    <3> QED
      BY <1>0, <1>1, <3>3, <3>4, HoldersChange
  <2>4. CASE disp[d].result # "created"
    <3>1. d \notin HoldingLoops
      BY <2>1, <2>4 DEF HoldingLoops, HoldsSlot
    <3>2. Gains(HoldingLoops', HoldingLoops, 0) /\ Gains(HoldingRows', HoldingRows, 0)
      BY <1>0, <1>2, <2>2, <3>1, PartsGain DEF GainsAsSets
    <3>3. slots' + faults <= slots + 0 + faults'
      BY <1>0, <2>1
    <3> QED
      BY <1>0, <1>1, <3>2, <3>3, HoldersChange
  <2> QED
    BY <2>3, <2>4
<1> QED
  BY <1>4, <1>7, <1>8, <1>9, <1>10, <1>11, <1>12, <1>13, <1>14
     DEF Dispatch, DispatchFault, DispatchStep

LEMMA EntryKeepsUp ==
  ASSUME IInv, DriverInv, SlotInv, TypeOK', NEW j \in Jobs,
         Create(j) \/ Clock(j) \/ Webhook(j) \/ WebhookTail(j)
  PROVE  NoPhantomSlot'
<1>0. /\ row \in [Jobs -> Row] /\ TypeOK /\ NoPhantomSlot
      /\ slots \in Nat /\ faults \in Nat
  BY JobStoreAssumption DEF IInv, TypeOK, StoreTypeOK, SlotTypeOK, SlotInv
<1>1. /\ Gains(HoldingLoops', HoldingLoops, 0) /\ Gains(FreeingLoops', FreeingLoops, 0)
      /\ Gains(FreeingSweeps', FreeingSweeps, 0)
  <2>1. UNCHANGED <<HoldingLoops, FreeingLoops, FreeingSweeps>>
    BY DEF Create, Clock, Webhook, WebhookTail, ingestVars, watchdogVars, HoldingLoops,
       HoldsSlot, FreeingLoops, FreeingSweeps
  <2> QED
    BY <1>0, <2>1, PartsGain DEF GainsAsSets
<1>2. CASE Create(j) \/ Clock(j) \/ (WebhookAudio(j) /\ Webhook(j))
  <2>1. HoldingRows \subseteq HoldingRows' /\ hookOwes' = hookOwes
    BY <1>0, <1>2 DEF Create, CreateJob, Clock, BackoffElapses, WebhookAudio, Deliverable,
       HoldingRows, InState, Row
  <2>2. Gains(HoldingRows', HoldingRows, 0) /\ Gains(hookOwes', hookOwes, 0)
    BY <1>0, <2>1, PartsGain DEF GainsAsSets
  <2>3. slots' + faults <= slots + 0 + faults'
    BY <1>0, <1>2 DEF Create, CreateJob, Clock, BackoffElapses, WebhookAudio, slotVars
  <2> QED
    BY <1>0, <1>1, <2>2, <2>3, HoldersChange
<1>3. CASE WebhookFailure(j)
  <2>1. /\ row[j].state = "WAITING_FOR_WEBHOOK" /\ row' = [row EXCEPT ![j].state = "FAILED"]
        /\ hookOwes' = hookOwes \cup {j} /\ slots' = slots /\ faults' = faults
    BY <1>3 DEF WebhookFailure, Deliverable
  <2>2. HoldingRows \ {j} \subseteq HoldingRows' /\ j \in hookOwes' \ hookOwes
    BY <1>0, <2>1 DEF HoldingRows, InState, SlotInv, Row
  <2>3. Gains(HoldingRows', HoldingRows, -1) /\ Gains(hookOwes', hookOwes, 1)
    BY <1>0, <2>1, <2>2, PartsGain DEF GainsAsSets
  <2>4. slots' + faults <= slots + 0 + faults'
    BY <1>0, <2>1
  <2> QED
    BY <1>0, <1>1, <2>3, <2>4, HoldersChange
<1>4. CASE WebhookTail(j)
  <2>1. row' = row /\ hookOwes' = hookOwes \ {j} /\ SafeRelease(Owner[j])
    BY <1>4 DEF WebhookTail, WebhookRelease
  <2>2. Gains(HoldingRows', HoldingRows, 0) /\ Gains(hookOwes', hookOwes, -1)
    BY <1>0, <2>1, PartsGain DEF GainsAsSets, HoldingRows, InState
  <2> QED
    BY <1>0, <1>1, <2>1, <2>2, SafeReleaseFrees, HoldersChange
<1>5. Webhook(j) => WebhookAudio(j) \/ WebhookFailure(j)
  BY DEF Webhook, WebhookDelivery
<1> QED
  BY <1>2, <1>3, <1>4, <1>5

LEMMA IngestKeepsUp ==
  ASSUME IInv, TypeOK', NoPhantomSlot, NEW i \in Ingesters, IngestLoop(i) \/ IngestFault(i)
  PROVE  NoPhantomSlot'
<1> DEFINE m == ing[i].job
<1>0. /\ ing \in [Ingesters -> [pc : IngestPCs, job : Jobs \cup {NoJob}, enqueue : BOOLEAN]]
      /\ row \in [Jobs -> Row] /\ TypeOK
      /\ slots \in Nat /\ faults \in Nat
  BY JobStoreAssumption DEF IInv, TypeOK, StoreTypeOK, IngestTypeOK, SlotTypeOK
<1>1. /\ Gains(HoldingLoops', HoldingLoops, 0) /\ Gains(hookOwes', hookOwes, 0)
      /\ Gains(FreeingSweeps', FreeingSweeps, 0)
  <2>1. UNCHANGED <<HoldingLoops, hookOwes, FreeingSweeps>>
    BY DEF IngestLoop, IngestFault, watchdogVars, HoldingLoops, HoldsSlot, FreeingSweeps
  <2> QED
    BY <1>0, <2>1, PartsGain DEF GainsAsSets
<1>2. FreeingLoops \ {i} \subseteq FreeingLoops'
  <2>1. \A k \in Ingesters : k # i => ing'[k] = ing[k]
    BY <1>0 DEF IngestLoop, IngestFault, IngestStep, IngestClaim, IngestFetch,
       IngestPut, IngestFinalize, IngestCommit, IngestGiveUp, IngestRelease, IngestCrash,
       GotoIngest
  <2> QED
    BY <2>1 DEF FreeingLoops
<1>3. CASE IngestClaim(i) \/ IngestFetch(i) \/ IngestPut(i) \/ IngestFinalize(i)
  <2>1. i \notin FreeingLoops /\ HoldingRows' = HoldingRows /\ slots' = slots /\ faults' = faults
    BY <1>3 DEF IngestClaim, IngestFetch, IngestPut, IngestFinalize, FreeingLoops,
       HoldingRows, InState, storeVars, slotVars
  <2>2. Gains(HoldingRows', HoldingRows, 0) /\ Gains(FreeingLoops', FreeingLoops, 0)
    BY <1>0, <1>2, <2>1, PartsGain DEF GainsAsSets
  <2>3. slots' + faults <= slots + 0 + faults'
    BY <1>0, <2>1
  <2> QED
    BY <1>0, <1>1, <2>2, <2>3, HoldersChange
<1>4. ASSUME ing[i].pc # "release", \A k \in Jobs : k # m => row'[k] = row[k],
             slots' = slots, faults' = faults,
             ing'[i].pc = "release" \/ row'[m].state \in {"WAITING_FOR_WEBHOOK", "INGEST_PENDING"}
      PROVE  NoPhantomSlot'
  <2>1. HoldingRows \ {m} \subseteq HoldingRows' /\ i \notin FreeingLoops
    BY <1>4 DEF HoldingRows, InState, FreeingLoops
  <2>2. slots' + faults <= slots + 0 + faults'
    BY <1>0, <1>4
  <2>3. CASE ing'[i].pc = "release"
    <3>1. Gains(HoldingRows', HoldingRows, -1)
      BY <1>0, <2>1, PartsGain DEF GainsAsSets
    <3>2. Gains(FreeingLoops', FreeingLoops, 1)
      <4>1. i \in FreeingLoops' \ FreeingLoops /\ FreeingLoops \subseteq FreeingLoops'
        BY <1>2, <2>1, <2>3 DEF FreeingLoops
      <4> QED
        BY <1>0, <4>1, PartsGain DEF GainsAsSets
    <3> QED
      BY <1>0, <1>1, <2>2, <3>1, <3>2, HoldersChange
  <2>4. CASE row'[m].state \in {"WAITING_FOR_WEBHOOK", "INGEST_PENDING"}
    <3>1. HoldingRows \subseteq HoldingRows'
      BY <2>1, <2>4 DEF HoldingRows, InState
    <3>2. Gains(HoldingRows', HoldingRows, 0) /\ Gains(FreeingLoops', FreeingLoops, 0)
      BY <1>0, <1>2, <2>1, <3>1, PartsGain DEF GainsAsSets
    <3> QED
      BY <1>0, <1>1, <2>2, <3>2, HoldersChange
  <2> QED
    BY <1>4, <2>3, <2>4
<1>5. CASE IngestCommit(i)
  <2>1. /\ ing[i].pc = "commit" /\ ing'[i].pc = "release" /\ slots' = slots /\ faults' = faults
    BY <1>0, <1>5 DEF IngestCommit, GotoIngest, slotVars
  <2> QED
    BY <1>4, <1>5, <2>1, CommitMakesReady
<1>6. CASE IngestGiveUp(i)
  <2>1. PICK r \in {RequeueOrFail(row[m]), [row[m] EXCEPT !.state = "FAILED"]} :
          /\ row' = [row EXCEPT ![m] = r]
          /\ ing' = [ing EXCEPT ![i] = IF r.state = "FAILED"
                                       THEN [@ EXCEPT !.pc = "release"] ELSE IdleIngest]
    BY <1>6 DEF IngestGiveUp
  <2>2. /\ m \in Jobs /\ row[m] \in Row /\ row[m].state = "INGEST_PENDING"
        /\ ing[i].pc = "claimed" /\ slots' = slots /\ faults' = faults
    BY <1>0, <1>6 DEF IngestGiveUp, IInv, LoopsHaveJobs, LocksExclusive, HoldsRow, slotVars
  <2>3. r.state \in {"INGEST_PENDING", "FAILED"}
    BY <2>1, <2>2 DEF RequeueOrFail, Row
  <2>4. row'[m].state = "INGEST_PENDING" \/ ing'[i].pc = "release"
    BY <1>0, <2>1, <2>2, <2>3
  <2> QED
    BY <1>0, <1>4, <2>1, <2>2, <2>4
<1>7. ASSUME row' = row, slots' = 0 \/ slots' + faults <= slots + (-1) + faults'
      PROVE  NoPhantomSlot'
  <2>1. Gains(HoldingRows', HoldingRows, 0) /\ Gains(FreeingLoops', FreeingLoops, -1)
    BY <1>0, <1>2, <1>7, PartsGain DEF GainsAsSets, HoldingRows, InState
  <2> QED
    BY <1>0, <1>1, <1>7, <2>1, HoldersChange
<1>8. CASE IngestRelease(i)
  BY <1>0, <1>7, <1>8, SafeReleaseFrees DEF IngestRelease
<1>9. CASE IngestCrash(i)
  BY <1>0, <1>7, <1>9 DEF IngestCrash, Fault, slotVars
<1> QED
  BY <1>3, <1>5, <1>6, <1>8, <1>9 DEF IngestLoop, IngestFault, IngestStep

\* What a watchdog leaves alone, and that only its own tick changes it.
LEMMA SweepersTouch ==
  ASSUME IInv, NEW s \in Sweepers, WatchdogTick(s) \/ WatchdogFault(s)
  PROVE  /\ UNCHANGED <<disp, hookOwes, ing>>
         /\ \A t \in Sweepers : t # s => swp'[t] = swp[t]
<1>1. swp \in [Sweepers -> [stage : 1..9, owes : {"none", "release", "refund"},
                 job : Jobs \cup {NoJob}, count : Nat, byUser : [Users -> Nat]]]
  BY DEF IInv, TypeOK, WatchdogTypeOK
<1>2. UNCHANGED <<disp, hookOwes, ing>>
  BY DEF WatchdogTick, WatchdogFault, SweeperStep, SweepWaiting, SweepSubmitting,
     SweepIngest, SweepExpired, Expire, SweepFailures, Sweep, SweeperRelease, SweeperRefund,
     NextStage, Reconcile, ReadCount, ReadCountByUser, CorrectSlots, CorrectUserSlots,
     SweeperCrash, ingestVars
<1>3. CASE SweepWaiting(s) \/ SweepSubmitting(s) \/ SweepIngest(s) \/ SweepExpired(s) \/ SweepFailures(s)
  <2>1. \E j \in Jobs : \E r, owes : Sweep(s, j, r, owes)
    BY <1>3 DEF SweepWaiting, SweepSubmitting, SweepIngest, SweepExpired, Expire, SweepFailures,
       InState, Stuck
  <2> QED
    BY <1>1, <1>2, <2>1 DEF Sweep
<1>4. CASE SweeperRelease(s) \/ SweeperRefund(s) \/ NextStage(s) \/ Reconcile(s) \/ SweeperCrash(s)
  BY <1>1, <1>2, <1>4 DEF SweeperRelease, SweeperRefund, NextStage, Reconcile, ReadCount,
     ReadCountByUser, CorrectSlots, CorrectUserSlots, SweeperCrash
<1> QED
  BY <1>3, <1>4 DEF WatchdogTick, WatchdogFault, SweeperStep

\* A watchdog that owes something is still in its sweeps.
LEMMA StagesOwing ==
  ASSUME IInv, SlotInv, [Next]_vars, NEW s \in Sweepers, swp'[s].owes # "none"
  PROVE  swp'[s].stage <= 5
<1>0. swp \in [Sweepers -> [stage : 1..9, owes : {"none", "release", "refund"},
                 job : Jobs \cup {NoJob}, count : Nat, byUser : [Users -> Nat]]]
  BY DEF IInv, TypeOK, WatchdogTypeOK
<1>1. CASE swp'[s] = swp[s]
  BY <1>1 DEF SlotInv
<1>2. CASE swp'[s] # swp[s]
  <2>1. WatchdogTick(s) \/ WatchdogFault(s)
    <3>1. \A t \in Sweepers : WatchdogTick(t) \/ WatchdogFault(t) => t = s
      BY <1>2, SweepersTouch
    <3>2. UNCHANGED swp \/ \E t \in Sweepers : WatchdogTick(t) \/ WatchdogFault(t)
      BY DEF Next, vars, Deadline, DeadlinePasses, Create, Clock, Webhook, WebhookTail,
         Dispatch, DispatchFault, IngestLoop, IngestFault, watchdogVars
    <3> QED
      BY <1>2, <3>1, <3>2
  <2>2. CASE SweepWaiting(s) \/ SweepSubmitting(s) \/ SweepIngest(s) \/ SweepExpired(s) \/ SweepFailures(s)
    <3>1. /\ \/ At(s, "waiting") \/ At(s, "submitting") \/ At(s, "ingest")
             \/ At(s, "expired") \/ At(s, "failures")
          /\ \E j \in Jobs : \E r, owes : Sweep(s, j, r, owes)
      BY <2>2 DEF SweepWaiting, SweepSubmitting, SweepIngest, SweepExpired, Expire,
         SweepFailures, Sweeping, InState, Stuck
    <3>2. swp[s].stage <= 5
      BY <1>0, <3>1 DEF At, Stages
    <3>3. swp'[s].stage = swp[s].stage
      BY <1>0, <3>1 DEF Sweep
    <3> QED
      BY <3>2, <3>3
  <2>3. CASE SweeperRelease(s) \/ SweeperRefund(s) \/ NextStage(s) \/ SweeperCrash(s)
    BY <1>0, <2>3 DEF SweeperRelease, SweeperRefund, NextStage, SweeperCrash, TickStart
  <2>4. CASE Reconcile(s)
    <3>1. swp[s].stage > 5 /\ swp'[s].owes \in {"none", swp[s].owes}
      BY <1>0, <2>4 DEF Reconcile, ReadCount, ReadCountByUser, CorrectSlots,
         CorrectUserSlots, At, Stages, TickStart
    <3> QED
      BY <1>0, <3>1 DEF SlotInv
  <2> QED
    BY <2>1, <2>2, <2>3, <2>4 DEF WatchdogTick, WatchdogFault, SweeperStep
<1> QED
  BY <1>1, <1>2

\* Only a loop's own step changes what it drives, and only a failed generation's
\* handler comes to owe a slot.
LEMMA DispChanges ==
  ASSUME IInv, [Next]_vars, NEW d \in Dispatchers, disp'[d] # disp[d]
  PROVE  Dispatch(d) \/ DispatchFault(d)
<1>1. \A e \in Dispatchers : Dispatch(e) \/ DispatchFault(e) => e = d
  BY DriverSteps
<1>2. UNCHANGED disp \/ \E e \in Dispatchers : Dispatch(e) \/ DispatchFault(e)
  <2>1. \A s \in Sweepers : WatchdogTick(s) \/ WatchdogFault(s) => UNCHANGED disp
    BY SweepersTouch
  <2> QED
    BY <2>1 DEF Next, vars, Deadline, DeadlinePasses, Create, Clock, Webhook, WebhookTail,
       IngestLoop, IngestFault
<1> QED
  BY <1>1, <1>2

LEMMA HooksOwed ==
  ASSUME IInv, [Next]_vars, NEW j \in hookOwes', j \notin hookOwes
  PROVE  j \in Jobs /\ Webhook(j) /\ WebhookFailure(j)
<1>1. \A s \in Sweepers : WatchdogTick(s) \/ WatchdogFault(s) => UNCHANGED hookOwes
  BY SweepersTouch
<1>2. ASSUME NEW k \in Jobs, Create(k) \/ Clock(k) \/ WebhookTail(k) PROVE FALSE
  BY <1>2 DEF Create, Clock, WebhookTail, WebhookRelease
<1>3. \E k \in Jobs : Webhook(k)
  BY <1>1, <1>2 DEF Next, vars, Deadline, Dispatch, DispatchFault, IngestLoop, IngestFault
<1> QED
  BY <1>3 DEF Webhook, WebhookDelivery, WebhookAudio, WebhookFailure

LEMMA SweepKeepsUp ==
  ASSUME IInv, SlotInv, TypeOK', NEW s \in Sweepers, WatchdogTick(s) \/ WatchdogFault(s)
  PROVE  NoPhantomSlot'
<1>0. /\ swp \in [Sweepers -> [stage : 1..9, owes : {"none", "release", "refund"},
                     job : Jobs \cup {NoJob}, count : Nat, byUser : [Users -> Nat]]]
      /\ row \in [Jobs -> Row] /\ TypeOK /\ NoPhantomSlot
      /\ slots \in Nat /\ faults \in Nat
  BY JobStoreAssumption DEF IInv, TypeOK, StoreTypeOK, WatchdogTypeOK, SlotTypeOK, SlotInv
<1>1. /\ Gains(HoldingLoops', HoldingLoops, 0) /\ Gains(hookOwes', hookOwes, 0)
      /\ Gains(FreeingLoops', FreeingLoops, 0)
  <2>1. UNCHANGED <<HoldingLoops, hookOwes, FreeingLoops>>
    BY SweepersTouch DEF HoldingLoops, HoldsSlot, FreeingLoops
  <2> QED
    BY <1>0, <2>1, PartsGain DEF GainsAsSets
<1>2. FreeingSweeps \ {s} \subseteq FreeingSweeps'
  BY SweepersTouch DEF FreeingSweeps
<1>3. ASSUME HoldingRows \subseteq HoldingRows', s \in FreeingSweeps => s \in FreeingSweeps',
             slots' <= slots, faults' = faults
      PROVE  NoPhantomSlot'
  <2>1. Gains(HoldingRows', HoldingRows, 0) /\ Gains(FreeingSweeps', FreeingSweeps, 0)
    BY <1>0, <1>2, <1>3, PartsGain DEF GainsAsSets
  <2>2. slots' + faults <= slots + 0 + faults'
    BY <1>0, <1>3, NothingTaken
  <2> QED
    BY <1>0, <1>1, <2>1, <2>2, HoldersChange
<1>4. ASSUME NEW j \in Jobs, NEW r, Sweep(s, j, r, "release"), swp[s].owes = "none"
      PROVE  NoPhantomSlot'
  <2>1. HoldingRows \ {j} \subseteq HoldingRows'
    BY <1>0, <1>4 DEF Sweep, HoldingRows, InState
  <2>2. s \in FreeingSweeps' \ FreeingSweeps /\ FreeingSweeps \subseteq FreeingSweeps'
    BY <1>0, <1>2, <1>4 DEF Sweep, FreeingSweeps
  <2>3. Gains(HoldingRows', HoldingRows, -1) /\ Gains(FreeingSweeps', FreeingSweeps, 1)
    BY <1>0, <2>1, <2>2, PartsGain DEF GainsAsSets
  <2>4. slots' + faults <= slots + 0 + faults'
    BY <1>0, <1>4 DEF Sweep, slotVars
  <2> QED
    BY <1>0, <1>1, <2>3, <2>4, HoldersChange
<1>5. ASSUME NEW j \in Jobs, NEW r, NEW owes, Sweep(s, j, r, owes), owes \in {"none", "refund"},
             swp[s].owes = "none",
             row[j].state \in {"WAITING_FOR_WEBHOOK", "INGEST_PENDING"} =>
               r.state \in {"WAITING_FOR_WEBHOOK", "INGEST_PENDING"}
      PROVE  NoPhantomSlot'
  <2>1. HoldingRows \subseteq HoldingRows'
    BY <1>0, <1>5 DEF Sweep, HoldingRows, InState
  <2>2. s \notin FreeingSweeps /\ slots' = slots /\ faults' = faults
    BY <1>5 DEF Sweep, slotVars, FreeingSweeps
  <2> QED
    BY <1>0, <1>3, <2>1, <2>2
<1>6. ASSUME row' = row, slots' = 0 \/ slots' + faults <= slots + (-1) + faults'
      PROVE  NoPhantomSlot'
  <2>1. HoldingRows' = HoldingRows
    BY <1>6 DEF HoldingRows, InState
  <2>2. Gains(HoldingRows', HoldingRows, 0) /\ Gains(FreeingSweeps', FreeingSweeps, -1)
    BY <1>0, <1>2, <2>1, PartsGain DEF GainsAsSets
  <2> QED
    BY <1>0, <1>1, <1>6, <2>2, HoldersChange
<1>7. CASE SweepWaiting(s)
  <2>1. PICK j \in Jobs :
          \/ Sweep(s, j, [row[j] EXCEPT !.state = "INGEST_PENDING"], "none")
          \/ Sweep(s, j, Failed(row[j]), "release")
    BY <1>7 DEF SweepWaiting, InState
  <2>2. swp[s].owes = "none" /\ [row[j] EXCEPT !.state = "INGEST_PENDING"].state = "INGEST_PENDING"
    BY <1>0, <1>7 DEF SweepWaiting, Sweeping, Row
  <2> QED
    BY <1>4, <1>5, <2>1, <2>2
<1>8. CASE SweepSubmitting(s)
  <2>1. /\ swp[s].owes = "none"
        /\ \E j \in Jobs : \E r : Sweep(s, j, r, "release")
    BY <1>8 DEF SweepSubmitting, Sweeping, Stuck, InState
  <2> QED
    BY <1>4, <2>1
<1>9. CASE SweepIngest(s)
  <2>1. PICK j \in Jobs :
          \/ Sweep(s, j, Failed(row[j]), "release")
          \/ Sweep(s, j, [row[j] EXCEPT !.available = TRUE], "none")
    BY <1>9 DEF SweepIngest, InState
  <2>2. swp[s].owes = "none" /\ [row[j] EXCEPT !.available = TRUE].state = row[j].state
    BY <1>0, <1>9 DEF SweepIngest, Sweeping, Row
  <2> QED
    BY <1>4, <1>5, <2>1, <2>2
<1>10. CASE SweepExpired(s)
  <2>1. PICK j \in Jobs :
          Sweep(s, j, Failed(row[j]),
                IF row[j].state \in ActiveStates THEN "release" ELSE "none")
    BY <1>10 DEF SweepExpired, Expire
  <2>2. swp[s].owes = "none"
    BY <1>10 DEF SweepExpired, Expire, Sweeping
  <2>3. CASE row[j].state \in ActiveStates
    BY <1>4, <2>1, <2>2, <2>3
  <2>4. CASE row[j].state \notin ActiveStates
    <3>1. Sweep(s, j, Failed(row[j]), "none")
      BY <2>1, <2>4
    <3>2. row[j].state \notin {"WAITING_FOR_WEBHOOK", "INGEST_PENDING"}
      BY <2>4 DEF ActiveStates
    <3> QED
      BY <1>5, <2>2, <3>1, <3>2
  <2> QED
    BY <2>3, <2>4
<1>11. CASE SweepFailures(s)
  <2>1. PICK j \in Jobs : Sweep(s, j, [row[j] EXCEPT !.failure_handled = TRUE], "refund")
    BY <1>11 DEF SweepFailures
  <2>2. swp[s].owes = "none" /\ [row[j] EXCEPT !.failure_handled = TRUE].state = row[j].state
    BY <1>0, <1>11 DEF SweepFailures, Sweeping, Row
  <2> QED
    BY <1>5, <2>1, <2>2
<1>12. CASE SweeperRelease(s)
  BY <1>0, <1>6, <1>12, SafeReleaseFrees DEF SweeperRelease
<1>13. CASE SweeperRefund(s) /\ faults' = faults
  <2>1. row' = row /\ slots' = slots /\ s \notin FreeingSweeps
    BY <1>13 DEF SweeperRefund, slotVars, FreeingSweeps
  <2>2. HoldingRows' = HoldingRows
    BY <2>1 DEF HoldingRows, InState
  <2> QED
    BY <1>0, <1>3, <1>13, <2>1, <2>2
<1>14. CASE SweeperCrash(s) \/ (SweeperRefund(s) /\ faults' # faults)
  <2>1. row' = row /\ slots' = slots /\ faults' = faults + 1
    BY <1>14 DEF SweeperCrash, SweeperRefund, Fault, slotVars
  <2>2. slots' + faults <= slots + (-1) + faults'
    BY <1>0, <2>1
  <2> QED
    BY <1>6, <2>1, <2>2
<1>15. CASE NextStage(s) \/ Reconcile(s)
  <2>1. row' = row /\ faults' = faults /\ slots' <= slots
    BY <1>0, <1>15 DEF NextStage, Reconcile, ReadCount, ReadCountByUser, CorrectSlots,
       CorrectUserSlots, ReconcileGlobal, DecreaseTo, storeVars, slotVars
  <2>2. s \in FreeingSweeps => s \in FreeingSweeps'
    <3>1. CASE NextStage(s)
      BY <3>1 DEF NextStage, FreeingSweeps
    <3>2. CASE Reconcile(s)
      <4>1. swp[s].stage > 5
        BY <1>0, <3>2 DEF Reconcile, ReadCount, ReadCountByUser, CorrectSlots,
           CorrectUserSlots, At, Stages
      <4>2. swp[s].owes = "none"
        BY <1>0, <4>1 DEF SlotInv
      <4> QED
        BY <4>2 DEF FreeingSweeps
    <3> QED
      BY <1>15, <3>1, <3>2
  <2>3. HoldingRows' = HoldingRows
    BY <2>1 DEF HoldingRows, InState
  <2> QED
    BY <1>3, <2>1, <2>2, <2>3
<1> QED
  BY <1>7, <1>8, <1>9, <1>10, <1>11, <1>12, <1>13, <1>14, <1>15
     DEF WatchdogTick, WatchdogFault, SweeperStep
-----------------------------------------------------------------------------
(* The invariant is preserved *)

\* A job that has ended undriven stays so until nobody owes its slot any more.
LEMMA OwedJobsStayFailed ==
  ASSUME LeaseCoversCall, IInv, DriverInv, SlotInv, [Next]_vars, NEW j \in hookOwes'
  PROVE  row'[j].state = "FAILED" /\ ~Driven(j)'
<1>0. row \in [Jobs -> Row] /\ hookOwes \subseteq Jobs
  BY DEF IInv, TypeOK, StoreTypeOK, WebhookTypeOK
<1>1. CASE j \in hookOwes
  <2>1. j \in Jobs /\ row[j].state = "FAILED" /\ ~Driven(j)
    BY <1>0, <1>1 DEF SlotInv
  <2>2. \A d \in Dispatchers : disp[d].job # j /\ ~ClaimsRow(d, j)
    BY <2>1 DEF Driven, ClaimsRow, Becomes
  <2>3. ~Moves(j)
    BY <2>1 DEF Moves, Becomes, NonTerminalStates, ActiveStates
  <2>4. row'[j].state = "FAILED"
    BY <2>1, <2>2, <2>3, StateSteps DEF Kept
  <2>5. ASSUME NEW d \in Dispatchers, disp'[d].job = j PROVE FALSE
    <3>1. disp'[d] # disp[d]
      BY <2>2, <2>5
    <3>2. Dispatch(d) \/ DispatchFault(d)
      BY <3>1, DispChanges
    <3>3. CASE \E m \in Jobs : ClaimsRow(d, m)
      BY <2>1, <2>2, <2>5, <3>3 DEF ClaimsRow
    <3>4. CASE disp'[d] = IdleDispatch
      BY <2>1, <2>5, <3>4 DEF IdleDispatch, NoJob, Jobs
    <3>5. CASE disp'[d].job = disp[d].job
      BY <2>2, <2>5, <3>5
    <3> QED
      BY <3>2, <3>3, <3>4, <3>5, DriverSteps
  <2> QED
    BY <2>4, <2>5 DEF Driven
<1>2. CASE j \notin hookOwes
  <2>1. j \in Jobs /\ Webhook(j) /\ WebhookFailure(j)
    BY <1>0, <1>2, HooksOwed
  <2>2. row[j].state = "WAITING_FOR_WEBHOOK" /\ row'[j].state = "FAILED" /\ disp' = disp
    BY <1>0, <2>1 DEF Webhook, WebhookFailure, Deliverable, Row
  <2>3. ~Driven(j)
    BY <2>1, <2>2 DEF Driven, DriverInv, Driving, NoJob, Jobs
  <2> QED
    BY <2>2, <2>3 DEF Driven
<1> QED
  BY <1>1, <1>2

LEMMA SlotInvPreserved ==
  ASSUME LeaseCoversCall, IInv, DriverInv, SlotInv, [Next]_vars, TypeOK'
  PROVE  SlotInv'
<1>0. TypeOK /\ NoPhantomSlot
  BY DEF IInv, SlotInv
<1>1. NoPhantomSlot'
  <2>1. CASE UNCHANGED vars \/ Deadline
    <3>1. UNCHANGED <<row, slots, faults, disp, hookOwes, ing, swp>>
      BY <2>1 DEF vars, Deadline, DeadlinePasses, storeVars, slotVars, ingestVars, watchdogVars
    <3> QED
      BY <1>0, <3>1 DEF NoPhantomSlot, Holders, HoldsSlot, InState
  <2> QED
    BY <1>0, <2>1, EntryKeepsUp, DispatchKeepsUp, IngestKeepsUp, SweepKeepsUp DEF Next
<1>2. \A j \in hookOwes' : row'[j].state = "FAILED" /\ ~Driven(j)'
  BY OwedJobsStayFailed
<1>3. \A s \in Sweepers : swp'[s].owes # "none" => swp'[s].stage <= 5
  BY StagesOwing
<1> QED
  BY <1>1, <1>2, <1>3 DEF SlotInv

LEMMA SlotInvariant ==
  ASSUME LeaseCoversCall
  PROVE  Spec => []SlotInv
<1>1. Init => SlotInv
  <2> SUFFICES ASSUME Init PROVE SlotInv
    OBVIOUS
  <2>1. TypeOK
    BY InitTypes DEF IInv
  <2>2. Holders \in Nat /\ faults = 0 /\ slots = 0
    <3>1. HoldersAreNat
      BY <2>1, HoldersCounted
    <3> QED
      BY <3>1 DEF HoldersAreNat, Holders, HoldingLoops, HoldingRows, FreeingLoops,
         FreeingSweeps, Init, StoreInit, SlotInit
  <2> QED
    BY <2>2 DEF Init, WebhookInit, WatchdogInit, TickStart, SlotInv, NoPhantomSlot
<1>2. IInv /\ DriverInv /\ SlotInv /\ TypeOK' /\ [Next]_vars => SlotInv'
  BY SlotInvPreserved
<1>3. IInv => TypeOK
  BY DEF IInv
<1> QED
  BY <1>1, <1>2, <1>3, InductiveInvariant, DriverInvariant, PTL DEF Spec

\* While the lease outlasts every live dispatch, the global counter never shows a
\* slot that nobody holds, but for one leaked per fault: whatever the watchdogs'
\* reconcile and the many release paths do, capacity is lost to crashes only.
THEOREM SlotsAccountedFor ==
  ASSUME LeaseCoversCall
  PROVE  Spec => []NoPhantomSlot
<1>1. SlotInv => NoPhantomSlot
  BY DEF SlotInv
<1> QED
  BY <1>1, SlotInvariant, PTL

-----------------------------------------------------------------------------
(* The counter of each user: the opposite bound *)

\* The five parts of UserHolders.
UserLoops(u) == {d \in Dispatchers : HoldsSlot(d) /\ User(d) = u}
UserRows(u) == {j \in InState({"WAITING_FOR_WEBHOOK", "INGEST_PENDING"}) : Owner[j] = u}
UserHooks(u) == {j \in hookOwes : Owner[j] = u}
UserFreeing(u) == {i \in Ingesters : ing[i].pc = "release" /\ Owner[ing[i].job] = u}
UserSweeps(u) == {s \in Sweepers : swp[s].owes = "release" /\ Owner[swp[s].job] = u}

UserPartsFinite ==
  \A u : /\ IsFiniteSet(UserLoops(u)) /\ IsFiniteSet(UserRows(u)) /\ IsFiniteSet(UserHooks(u))
         /\ IsFiniteSet(UserFreeing(u)) /\ IsFiniteSet(UserSweeps(u))

LEMMA UserPartsAreFinite == TypeOK => UserPartsFinite
<1> SUFFICES ASSUME TypeOK, NEW u
             PROVE  /\ IsFiniteSet(UserLoops(u)) /\ IsFiniteSet(UserRows(u))
                    /\ IsFiniteSet(UserHooks(u)) /\ IsFiniteSet(UserFreeing(u))
                    /\ IsFiniteSet(UserSweeps(u))
  BY DEF UserPartsFinite
<1>1. IsFiniteSet(Jobs)
  BY FS_Interval, JobStoreAssumption DEF Jobs
<1>2. /\ UserLoops(u) \subseteq Dispatchers /\ UserRows(u) \subseteq Jobs
      /\ UserHooks(u) \subseteq Jobs /\ UserFreeing(u) \subseteq Ingesters
      /\ UserSweeps(u) \subseteq Sweepers
  BY DEF UserLoops, UserRows, InState, UserHooks, TypeOK, WebhookTypeOK, UserFreeing, UserSweeps
<1> QED
  BY <1>1, <1>2, FS_Subset, DispatchAssumption, IngestAssumption, WatchdogAssumption

UserHoldersAreInts ==
  \A u \in Users : UserHolders(u) \in Nat /\ userSlots[u] \in Nat

LEMMA UserHoldersCounted == TypeOK => UserHoldersAreInts
<1> SUFFICES ASSUME TypeOK, NEW u \in Users
             PROVE  UserHolders(u) \in Nat /\ userSlots[u] \in Nat
  BY DEF UserHoldersAreInts
<1>1. userSlots[u] \in Nat
  BY DEF TypeOK, SlotTypeOK
<1>2. /\ Cardinality(UserLoops(u)) \in Nat /\ Cardinality(UserRows(u)) \in Nat
      /\ Cardinality(UserHooks(u)) \in Nat /\ Cardinality(UserFreeing(u)) \in Nat
      /\ Cardinality(UserSweeps(u)) \in Nat
  BY UserPartsAreFinite, FS_CardinalityType DEF UserPartsFinite
<1> QED
  BY <1>1, <1>2 DEF UserHolders, UserLoops, UserRows, UserHooks, UserFreeing, UserSweeps

\* The mirror image of Gains: a part loses at least n members.
Loses(new, old, n) == Cardinality(old) >= Cardinality(new) + n
LosesAsSets(new, old) ==
  /\ new \subseteq old => Loses(new, old, 0)
  /\ \A x : new \ {x} \subseteq old => Loses(new, old, -1)
  /\ \A x \in old \ new : new \subseteq old => Loses(new, old, 1)

LEMMA UserPartsLose ==
  ASSUME TypeOK, TypeOK', NEW u
  PROVE  /\ LosesAsSets(UserLoops(u)', UserLoops(u)) /\ LosesAsSets(UserRows(u)', UserRows(u))
         /\ LosesAsSets(UserHooks(u)', UserHooks(u))
         /\ LosesAsSets(UserFreeing(u)', UserFreeing(u))
         /\ LosesAsSets(UserSweeps(u)', UserSweeps(u))
<1>1. UserPartsFinite /\ UserPartsFinite'
  BY UserPartsAreFinite, PTL
<1>2. ASSUME NEW S, NEW T, IsFiniteSet(S), IsFiniteSet(T) PROVE LosesAsSets(T, S)
  BY <1>2, SetGains DEF GainsAsSets, Gains, LosesAsSets, Loses
<1> QED
  BY <1>1, <1>2 DEF UserPartsFinite

\* Of user u's slots no more become held than the counter of u goes up by.
Covered(u) == UserHolders(u)' - userSlots'[u] <= UserHolders(u) - userSlots[u]

LEMMA UserHoldersChange ==
  ASSUME TypeOK, TypeOK', NEW u \in Users,
         NEW a \in {-1, 0, 1}, NEW b \in {-1, 0, 1}, NEW c \in {-1, 0, 1},
         NEW d \in {-1, 0, 1}, NEW e \in {-1, 0, 1},
         Loses(UserLoops(u)', UserLoops(u), a), Loses(UserRows(u)', UserRows(u), b),
         Loses(UserHooks(u)', UserHooks(u), c), Loses(UserFreeing(u)', UserFreeing(u), d),
         Loses(UserSweeps(u)', UserSweeps(u), e),
         userSlots[u] - userSlots'[u] <= a + b + c + d + e
  PROVE  Covered(u)
<1> DEFINE x1 == Cardinality(UserLoops(u))     y1 == Cardinality(UserLoops(u)')
           x2 == Cardinality(UserRows(u))      y2 == Cardinality(UserRows(u)')
           x3 == Cardinality(UserHooks(u))     y3 == Cardinality(UserHooks(u)')
           x4 == Cardinality(UserFreeing(u))   y4 == Cardinality(UserFreeing(u)')
           x5 == Cardinality(UserSweeps(u))    y5 == Cardinality(UserSweeps(u)')
           s == userSlots[u]                   t == userSlots'[u]
<1>1. UserPartsFinite /\ UserPartsFinite'
  BY UserPartsAreFinite, PTL
<1>2. /\ x1 \in Int /\ x2 \in Int /\ x3 \in Int /\ x4 \in Int /\ x5 \in Int
      /\ y1 \in Int /\ y2 \in Int /\ y3 \in Int /\ y4 \in Int /\ y5 \in Int
  BY <1>1, FS_CardinalityType DEF UserPartsFinite
<1>3. s \in Int /\ t \in Int
  BY DEF TypeOK, SlotTypeOK
<1>4. x1 >= y1 + a /\ x2 >= y2 + b /\ x3 >= y3 + c /\ x4 >= y4 + d /\ x5 >= y5 + e
  BY DEF Loses
<1>5. UserHolders(u) = x1 + x2 + x3 + x4 + x5 /\ UserHolders(u)' = y1 + y2 + y3 + y4 + y5
  BY DEF UserHolders, UserLoops, UserRows, UserHooks, UserFreeing, UserSweeps
<1>6. s - t <= a + b + c + d + e
  OBVIOUS
<1> HIDE DEF x1, x2, x3, x4, x5, y1, y2, y3, y4, y5, s, t
<1>7. y1 + y2 + y3 + y4 + y5 + (a + b + c + d + e) <= x1 + x2 + x3 + x4 + x5
  BY <1>2, <1>4
<1>8. (y1 + y2 + y3 + y4 + y5) - t <= (x1 + x2 + x3 + x4 + x5) - s
  BY <1>2, <1>3, <1>6, <1>7
<1> QED
  BY <1>5, <1>8 DEF Covered, s, t

\* A release takes a slot off the counter of one user, or of nobody.
LEMMA SafeReleaseTakes ==
  ASSUME TypeOK, NEW v \in Users, SafeRelease(v), NEW u \in Users
  PROVE  /\ userSlots'[u] <= userSlots[u]
         /\ userSlots[u] - userSlots'[u] <= 1
         /\ u # v => userSlots'[u] = userSlots[u]
<1>1. userSlots \in [Users -> Nat]
  BY DEF TypeOK, SlotTypeOK
<1> QED
  BY <1>1 DEF SafeRelease, Release, Decrement

\* A loop that gives its slot back has no task to store: it does not count as a
\* holder any more when it comes to its commit.
ReleasesFailures ==
  \A d \in Dispatchers :
    disp[d].pc \in {"release", "count", "correct"} => disp[d].result \in Failures

LEMMA ReleasesFailuresKept ==
  ASSUME IInv, ReleasesFailures, [Next]_vars
  PROVE  ReleasesFailures'
<1>0. disp \in [Dispatchers -> [pc : DispatchPCs, job : Jobs \cup {NoJob},
                   result : Results \cup {"none"}, task : Tasks \cup {NoTask}, count : Nat]]
  BY DEF IInv, TypeOK, DispatchTypeOK
<1> SUFFICES ASSUME NEW d \in Dispatchers, disp'[d].pc \in {"release", "count", "correct"}
             PROVE  disp'[d].result \in Failures
  BY DEF ReleasesFailures
<1>1. CASE disp'[d] = disp[d]
  BY <1>1 DEF ReleasesFailures
<1>2. CASE Claim(d) \/ CommitResult(d) \/ DispatchCrash(d)
  BY <1>0, <1>2, ClaimStep DEF ClaimsRow, CommitResult, DispatchCrash, IdleDispatch
<1>3. CASE AcquireGlobal(d) \/ AcquireUser(d) \/ RollBackGlobal(d)
  BY <1>0, <1>3 DEF AcquireGlobal, AcquireUser, RollBackGlobal, Goto, GotoWith
<1>4. CASE CallApi(d)
  BY <1>0, <1>4 DEF CallApi, GotoWith, Failures
<1>5. CASE DispatchRelease(d) \/ CountActive(d) \/ CorrectGlobal(d)
  BY <1>0, <1>5 DEF DispatchRelease, CountActive, CorrectGlobal, Goto, ReleasesFailures
<1> QED
  BY <1>1, <1>2, <1>3, <1>4, <1>5, DispChanges DEF Dispatch, DispatchFault, DispatchStep

LEMMA DispatchCovers ==
  ASSUME IInv, ReleasesFailures, TypeOK', NEW d \in Dispatchers,
         Dispatch(d) \/ DispatchFault(d), NEW u \in Users
  PROVE  Covered(u)
<1> DEFINE j == disp[d].job
<1>0. /\ disp \in [Dispatchers -> [pc : DispatchPCs, job : Jobs \cup {NoJob},
                   result : Results \cup {"none"}, task : Tasks \cup {NoTask}, count : Nat]]
      /\ row \in [Jobs -> Row] /\ TypeOK
      /\ userSlots \in [Users -> Nat] /\ Owner \in [Jobs -> Users]
      /\ disp[d].pc # "idle" => j \in Jobs
  BY JobStoreAssumption DEF IInv, TypeOK, StoreTypeOK, DispatchTypeOK, SlotTypeOK, LoopsHaveJobs
<1>1. /\ Loses(UserHooks(u)', UserHooks(u), 0) /\ Loses(UserFreeing(u)', UserFreeing(u), 0)
      /\ Loses(UserSweeps(u)', UserSweeps(u), 0)
  <2>1. UNCHANGED <<UserHooks(u), UserFreeing(u), UserSweeps(u)>>
    BY DEF Dispatch, DispatchFault, ingestVars, watchdogVars, UserHooks, UserFreeing, UserSweeps
  <2> QED
    BY <1>0, <2>1, UserPartsLose DEF LosesAsSets
<1>2. UserLoops(u)' \ {d} \subseteq UserLoops(u)
  BY DriverSteps DEF UserLoops, HoldsSlot, User
<1>3. ~CommitResult(d) => UserRows(u)' \subseteq UserRows(u)
  BY DriverSteps DEF UserRows, InState, ClaimsRow, Becomes, IdleDispatch
<1>4. ASSUME ~CommitResult(d), userSlots' = userSlots, d \in UserLoops(u)' => d \in UserLoops(u)
      PROVE  Covered(u)
  <2>1. Loses(UserLoops(u)', UserLoops(u), 0) /\ Loses(UserRows(u)', UserRows(u), 0)
    BY <1>0, <1>2, <1>3, <1>4, UserPartsLose DEF LosesAsSets
  <2>2. userSlots[u] - userSlots'[u] <= 0 + 0 + 0 + 0 + 0
    BY <1>0, <1>4
  <2> QED
    BY <1>0, <1>1, <2>1, <2>2, UserHoldersChange
<1>5. CASE Claim(d) \/ AcquireGlobal(d) \/ RollBackGlobal(d) \/ CountActive(d)
             \/ CorrectGlobal(d) \/ (DispatchCrash(d) /\ ~CommitResult(d))
  <2>1. userSlots' = userSlots /\ ~CommitResult(d)
    BY <1>5 DEF Claim, AcquireGlobal, RollBackGlobal, CountActive, CorrectGlobal,
       DispatchCrash, CommitResult
  <2>2. ~HoldsSlot(d)'
    <3>1. CASE Claim(d)
      BY <1>0, <3>1, ClaimStep DEF ClaimsRow, HoldsSlot
    <3>2. CASE AcquireGlobal(d)
      BY <1>0, <3>2 DEF AcquireGlobal, Goto, GotoWith, HoldsSlot
    <3>3. CASE RollBackGlobal(d)
      BY <1>0, <3>3 DEF RollBackGlobal, GotoWith, HoldsSlot
    <3>4. CASE CountActive(d)
      BY <1>0, <3>4 DEF CountActive, HoldsSlot
    <3>5. CASE CorrectGlobal(d)
      BY <1>0, <3>5 DEF CorrectGlobal, Goto, HoldsSlot, ReleasesFailures, Failures
    <3>6. CASE DispatchCrash(d)
      BY <1>0, <3>6 DEF DispatchCrash, IdleDispatch, HoldsSlot
    <3> QED
      BY <1>5, <3>1, <3>2, <3>3, <3>4, <3>5, <3>6
  <2> QED
    BY <1>4, <2>1, <2>2 DEF UserLoops
<1>6. CASE CallApi(d)
  <2>1. disp[d].pc = "call" /\ disp'[d].job = j /\ userSlots' = userSlots
    BY <1>0, <1>6 DEF CallApi, GotoWith
  <2>2. d \in UserLoops(u)' => d \in UserLoops(u)
    BY <2>1 DEF UserLoops, User, HoldsSlot
  <2> QED
    BY <1>4, <2>1, <2>2 DEF CommitResult
<1>7. CASE AcquireUser(d)
  <2>1. disp[d].pc = "acquire_user" /\ disp'[d].job = j /\ ~CommitResult(d)
    BY <1>0, <1>7 DEF AcquireUser, Goto, CommitResult
  <2>2. CASE userSlots' = userSlots
    <3>1. disp'[d].pc = "rollback"
      <4>1. userSlots[User(d)] \in Nat
        BY <1>0, <2>1 DEF User
      <4>2. userSlots'[User(d)] = userSlots[User(d)]
        BY <2>2
      <4> QED
        BY <1>0, <1>7, <2>1, <4>1, <4>2 DEF AcquireUser, Goto, User
    <3> QED
      BY <1>4, <2>1, <2>2, <3>1 DEF UserLoops, HoldsSlot
  <2>3. CASE userSlots' = [userSlots EXCEPT ![User(d)] = @ + 1]
    <3>1. CASE User(d) = u
      <4>1. Loses(UserLoops(u)', UserLoops(u), -1) /\ Loses(UserRows(u)', UserRows(u), 0)
        BY <1>0, <1>2, <1>3, <2>1, UserPartsLose DEF LosesAsSets
      <4>2. userSlots[u] - userSlots'[u] <= (-1) + 0 + 0 + 0 + 0
        BY <1>0, <2>3, <3>1
      <4> QED
        BY <1>0, <1>1, <4>1, <4>2, UserHoldersChange
    <3>2. CASE User(d) # u
      <4>1. User(d)' # u
        BY <2>1, <3>2 DEF User
      <4>2. UserLoops(u)' \subseteq UserLoops(u)
        BY <1>2, <4>1 DEF UserLoops
      <4>3. Loses(UserLoops(u)', UserLoops(u), 0) /\ Loses(UserRows(u)', UserRows(u), 0)
        BY <1>0, <1>3, <2>1, <4>2, UserPartsLose DEF LosesAsSets
      <4>4. userSlots[u] - userSlots'[u] <= 0 + 0 + 0 + 0 + 0
        BY <1>0, <2>3, <3>2
      <4> QED
        BY <1>0, <1>1, <4>3, <4>4, UserHoldersChange
    <3> QED
      BY <3>1, <3>2
  <2> QED
    BY <1>7, <2>2, <2>3 DEF AcquireUser
<1>8. CASE DispatchRelease(d)
  <2>1. /\ disp[d].pc = "release" /\ disp[d].result \in Failures /\ User(d) \in Users
        /\ SafeRelease(User(d)) /\ ~CommitResult(d)
    BY <1>0, <1>8 DEF DispatchRelease, ReleasesFailures, User, CommitResult
  <2>2. disp'[d].pc \in {"count", "commit"} /\ disp'[d].result \in Failures
    BY <1>0, <1>8, <2>1 DEF DispatchRelease, Goto
  <2>3. d \notin UserLoops(u)'
    BY <2>2 DEF UserLoops, HoldsSlot, Failures
  <2>4. UserLoops(u)' \subseteq UserLoops(u)
    BY <1>2, <2>3
  <2>5. Loses(UserRows(u)', UserRows(u), 0)
    BY <1>0, <1>3, <2>1, UserPartsLose DEF LosesAsSets
  <2>6. CASE User(d) = u
    <3>1. d \in UserLoops(u)
      BY <2>1, <2>6 DEF UserLoops, HoldsSlot
    <3>2. Loses(UserLoops(u)', UserLoops(u), 1)
      BY <1>0, <2>3, <2>4, <3>1, UserPartsLose DEF LosesAsSets
    <3>3. userSlots[u] - userSlots'[u] <= 1 + 0 + 0 + 0 + 0
      BY <1>0, <2>1, SafeReleaseTakes
    <3> QED
      BY <1>0, <1>1, <2>5, <3>2, <3>3, UserHoldersChange
  <2>7. CASE User(d) # u
    <3>1. Loses(UserLoops(u)', UserLoops(u), 0)
      BY <1>0, <2>4, UserPartsLose DEF LosesAsSets
    <3>2. userSlots[u] - userSlots'[u] <= 0 + 0 + 0 + 0 + 0
      BY <1>0, <2>1, <2>7, SafeReleaseTakes
    <3> QED
      BY <1>0, <1>1, <2>5, <3>1, <3>2, UserHoldersChange
  <2> QED
    BY <2>6, <2>7
<1>9. CASE CommitResult(d)
  <2>1. /\ disp[d].pc = "commit" /\ j \in Jobs /\ disp'[d] = IdleDispatch
        /\ row'[j] = Written(row[j], disp[d].result, disp[d].task)
        /\ \A k \in Jobs : k # j => row'[k] = row[k]
        /\ userSlots' = userSlots
    BY <1>0, <1>9 DEF CommitResult
  <2>2. d \notin UserLoops(u)' /\ UserLoops(u)' \subseteq UserLoops(u)
    BY <1>2, <2>1 DEF UserLoops, HoldsSlot, IdleDispatch
  <2>3. UserRows(u)' \ {j} \subseteq UserRows(u)
    BY <2>1 DEF UserRows, InState
  <2>4. CASE disp[d].result = "created" /\ User(d) = u
    <3>1. d \in UserLoops(u)
      BY <2>1, <2>4 DEF UserLoops, HoldsSlot
    <3>2. Loses(UserLoops(u)', UserLoops(u), 1) /\ Loses(UserRows(u)', UserRows(u), -1)
      BY <1>0, <2>2, <2>3, <3>1, UserPartsLose DEF LosesAsSets
    <3>3. userSlots[u] - userSlots'[u] <= 1 + (-1) + 0 + 0 + 0
      BY <1>0, <2>1
    <3> QED
      BY <1>0, <1>1, <3>2, <3>3, UserHoldersChange
  <2>5. CASE disp[d].result # "created" \/ User(d) # u
    <3>1. j \notin UserRows(u)'
      <4>1. CASE User(d) # u
        BY <4>1 DEF User, UserRows
      <4>2. CASE disp[d].result # "created"
        <5>1. row'[j].state \in {"QUEUED", "FAILED"}
          BY <1>0, <2>1, <4>2 DEF Written, Row
        <5> QED
          BY <5>1 DEF UserRows, InState
      <4> QED
        BY <2>5, <4>1, <4>2
    <3>2. Loses(UserLoops(u)', UserLoops(u), 0) /\ Loses(UserRows(u)', UserRows(u), 0)
      BY <1>0, <2>2, <2>3, <3>1, UserPartsLose DEF LosesAsSets
    <3>3. userSlots[u] - userSlots'[u] <= 0 + 0 + 0 + 0 + 0
      BY <1>0, <2>1
    <3> QED
      BY <1>0, <1>1, <3>2, <3>3, UserHoldersChange
  <2> QED
    BY <2>4, <2>5
<1> QED
  BY <1>5, <1>6, <1>7, <1>8, <1>9 DEF Dispatch, DispatchFault, DispatchStep

LEMMA EntryCovers ==
  ASSUME IInv, TypeOK', NEW j \in Jobs, NEW u \in Users,
         Create(j) \/ Clock(j) \/ Webhook(j) \/ WebhookTail(j)
  PROVE  Covered(u)
<1>0. /\ row \in [Jobs -> Row] /\ TypeOK
      /\ userSlots \in [Users -> Nat] /\ Owner \in [Jobs -> Users]
  BY JobStoreAssumption DEF IInv, TypeOK, StoreTypeOK, SlotTypeOK
<1>1. /\ Loses(UserLoops(u)', UserLoops(u), 0) /\ Loses(UserFreeing(u)', UserFreeing(u), 0)
      /\ Loses(UserSweeps(u)', UserSweeps(u), 0)
  <2>1. UNCHANGED <<UserLoops(u), UserFreeing(u), UserSweeps(u)>>
    BY DEF Create, Clock, Webhook, WebhookTail, ingestVars, watchdogVars, UserLoops,
       HoldsSlot, User, UserFreeing, UserSweeps
  <2> QED
    BY <1>0, <2>1, UserPartsLose DEF LosesAsSets
<1>2. CASE Create(j) \/ Clock(j) \/ (WebhookAudio(j) /\ Webhook(j))
  <2>1. UserRows(u)' \subseteq UserRows(u) /\ UserHooks(u)' = UserHooks(u)
    BY <1>0, <1>2 DEF Create, CreateJob, Clock, BackoffElapses, WebhookAudio, Deliverable,
       UserRows, UserHooks, InState, Row
  <2>2. Loses(UserRows(u)', UserRows(u), 0) /\ Loses(UserHooks(u)', UserHooks(u), 0)
    BY <1>0, <2>1, UserPartsLose DEF LosesAsSets
  <2>3. userSlots[u] - userSlots'[u] <= 0 + 0 + 0 + 0 + 0
    BY <1>0, <1>2 DEF Create, CreateJob, Clock, BackoffElapses, WebhookAudio, slotVars
  <2> QED
    BY <1>0, <1>1, <2>2, <2>3, UserHoldersChange
<1>3. CASE WebhookFailure(j)
  <2>1. /\ row[j].state = "WAITING_FOR_WEBHOOK" /\ row' = [row EXCEPT ![j].state = "FAILED"]
        /\ hookOwes' = hookOwes \cup {j} /\ userSlots' = userSlots
    BY <1>3 DEF WebhookFailure, Deliverable
  <2>2. row'[j].state = "FAILED" /\ \A k \in Jobs : k # j => row'[k] = row[k]
    BY <1>0, <2>1 DEF Row
  <2>3. UserRows(u)' \subseteq UserRows(u) /\ j \notin UserRows(u)'
    BY <2>2 DEF UserRows, InState
  <2>4. userSlots[u] - userSlots'[u] = 0
    BY <1>0, <2>1
  <2>5. CASE Owner[j] = u
    <3>1. j \in UserRows(u) /\ UserHooks(u)' \ {j} \subseteq UserHooks(u)
      BY <2>1, <2>5 DEF UserRows, InState, UserHooks
    <3>2. Loses(UserRows(u)', UserRows(u), 1) /\ Loses(UserHooks(u)', UserHooks(u), -1)
      BY <1>0, <2>3, <3>1, UserPartsLose DEF LosesAsSets
    <3>3. userSlots[u] - userSlots'[u] <= 0 + 1 + (-1) + 0 + 0
      BY <2>4
    <3> QED
      BY <1>0, <1>1, <3>2, <3>3, UserHoldersChange
  <2>6. CASE Owner[j] # u
    <3>1. UserHooks(u)' \subseteq UserHooks(u)
      BY <2>1, <2>6 DEF UserHooks
    <3>2. Loses(UserRows(u)', UserRows(u), 0) /\ Loses(UserHooks(u)', UserHooks(u), 0)
      BY <1>0, <2>3, <3>1, UserPartsLose DEF LosesAsSets
    <3>3. userSlots[u] - userSlots'[u] <= 0 + 0 + 0 + 0 + 0
      BY <2>4
    <3> QED
      BY <1>0, <1>1, <3>2, <3>3, UserHoldersChange
  <2> QED
    BY <2>5, <2>6
<1>4. CASE WebhookTail(j)
  <2>1. /\ row' = row /\ j \in hookOwes /\ hookOwes' = hookOwes \ {j}
        /\ SafeRelease(Owner[j]) /\ Owner[j] \in Users
    BY <1>0, <1>4 DEF WebhookTail, WebhookRelease
  <2>2. UserHooks(u)' \subseteq UserHooks(u) /\ UserRows(u)' = UserRows(u)
    BY <2>1 DEF UserHooks, UserRows, InState
  <2>3. Loses(UserRows(u)', UserRows(u), 0)
    BY <1>0, <2>2, UserPartsLose DEF LosesAsSets
  <2>4. CASE Owner[j] = u
    <3>1. j \in UserHooks(u) \ UserHooks(u)'
      BY <2>1, <2>4 DEF UserHooks
    <3>2. Loses(UserHooks(u)', UserHooks(u), 1)
      BY <1>0, <2>2, <3>1, UserPartsLose DEF LosesAsSets
    <3>3. userSlots[u] - userSlots'[u] <= 0 + 0 + 1 + 0 + 0
      BY <1>0, <2>1, SafeReleaseTakes
    <3> QED
      BY <1>0, <1>1, <2>3, <3>2, <3>3, UserHoldersChange
  <2>5. CASE Owner[j] # u
    <3>1. Loses(UserHooks(u)', UserHooks(u), 0)
      BY <1>0, <2>2, UserPartsLose DEF LosesAsSets
    <3>2. userSlots[u] - userSlots'[u] <= 0 + 0 + 0 + 0 + 0
      BY <1>0, <2>1, <2>5, SafeReleaseTakes
    <3> QED
      BY <1>0, <1>1, <2>3, <3>1, <3>2, UserHoldersChange
  <2> QED
    BY <2>4, <2>5
<1>5. Webhook(j) => WebhookAudio(j) \/ WebhookFailure(j)
  BY DEF Webhook, WebhookDelivery
<1> QED
  BY <1>2, <1>3, <1>4, <1>5

LEMMA IngestCovers ==
  ASSUME IInv, TypeOK', NEW i \in Ingesters, NEW u \in Users, IngestLoop(i) \/ IngestFault(i)
  PROVE  Covered(u)
<1> DEFINE m == ing[i].job
<1>0. /\ ing \in [Ingesters -> [pc : IngestPCs, job : Jobs \cup {NoJob}, enqueue : BOOLEAN]]
      /\ row \in [Jobs -> Row] /\ TypeOK
      /\ userSlots \in [Users -> Nat] /\ Owner \in [Jobs -> Users]
      /\ ing[i].pc # "idle" => m \in Jobs
  BY JobStoreAssumption DEF IInv, TypeOK, StoreTypeOK, IngestTypeOK, SlotTypeOK, LoopsHaveJobs
<1>1. /\ Loses(UserLoops(u)', UserLoops(u), 0) /\ Loses(UserHooks(u)', UserHooks(u), 0)
      /\ Loses(UserSweeps(u)', UserSweeps(u), 0)
  <2>1. UNCHANGED <<UserLoops(u), UserHooks(u), UserSweeps(u)>>
    BY DEF IngestLoop, IngestFault, watchdogVars, UserLoops, HoldsSlot, User, UserHooks,
       UserSweeps
  <2> QED
    BY <1>0, <2>1, UserPartsLose DEF LosesAsSets
<1>2. UserFreeing(u)' \ {i} \subseteq UserFreeing(u)
  <2>1. \A k \in Ingesters : k # i => ing'[k] = ing[k]
    BY <1>0 DEF IngestLoop, IngestFault, IngestStep, IngestClaim, IngestFetch,
       IngestPut, IngestFinalize, IngestCommit, IngestGiveUp, IngestRelease, IngestCrash,
       GotoIngest
  <2> QED
    BY <2>1 DEF UserFreeing
<1>3. ASSUME UserRows(u)' \subseteq UserRows(u), userSlots' = userSlots, i \notin UserFreeing(u)'
      PROVE  Covered(u)
  <2>1. Loses(UserRows(u)', UserRows(u), 0) /\ Loses(UserFreeing(u)', UserFreeing(u), 0)
    BY <1>0, <1>2, <1>3, UserPartsLose DEF LosesAsSets
  <2>2. userSlots[u] - userSlots'[u] <= 0 + 0 + 0 + 0 + 0
    BY <1>0, <1>3
  <2> QED
    BY <1>0, <1>1, <2>1, <2>2, UserHoldersChange
<1>4. CASE IngestClaim(i) \/ IngestFetch(i) \/ IngestPut(i) \/ IngestFinalize(i) \/ IngestCrash(i)
  <2>1. ing'[i].pc # "release" /\ row' = row /\ userSlots' = userSlots
    BY <1>0, <1>4 DEF IngestClaim, IngestFetch, IngestPut, IngestFinalize, IngestCrash,
       GotoIngest, IdleIngest, storeVars, slotVars
  <2>2. UserRows(u)' = UserRows(u) /\ i \notin UserFreeing(u)'
    BY <2>1 DEF UserRows, InState, UserFreeing
  <2> QED
    BY <1>3, <2>1, <2>2
\* The row is INGEST_PENDING while the loop holds it, so a slot goes with its job.
<1>5. ASSUME m \in Jobs, row[m].state = "INGEST_PENDING", ing'[i].job = m,
             row'[m].state \notin {"WAITING_FOR_WEBHOOK", "INGEST_PENDING"},
             \A k \in Jobs : k # m => row'[k] = row[k], userSlots' = userSlots
      PROVE  Covered(u)
  <2>1. UserRows(u)' \subseteq UserRows(u) /\ m \notin UserRows(u)'
    BY <1>5 DEF UserRows, InState
  <2>2. CASE Owner[m] = u
    <3>1. m \in UserRows(u)
      BY <1>5, <2>2 DEF UserRows, InState
    <3>2. Loses(UserRows(u)', UserRows(u), 1) /\ Loses(UserFreeing(u)', UserFreeing(u), -1)
      BY <1>0, <1>2, <2>1, <3>1, UserPartsLose DEF LosesAsSets
    <3>3. userSlots[u] - userSlots'[u] <= 0 + 1 + 0 + (-1) + 0
      BY <1>0, <1>5
    <3> QED
      BY <1>0, <1>1, <3>2, <3>3, UserHoldersChange
  <2>3. CASE Owner[m] # u
    <3>1. i \notin UserFreeing(u)'
      BY <1>5, <2>3 DEF UserFreeing
    <3> QED
      BY <1>3, <1>5, <2>1, <3>1
  <2> QED
    BY <2>2, <2>3
<1>6. CASE IngestCommit(i)
  <2>1. userSlots' = userSlots /\ ing'[i].job = m
    BY <1>0, <1>6 DEF IngestCommit, GotoIngest, slotVars
  <2>2. /\ m \in Jobs /\ row[m].state = "INGEST_PENDING" /\ row'[m].state = "READY"
        /\ \A k \in Jobs : k # m => row'[k] = row[k]
    BY <1>6, CommitMakesReady
  <2> QED
    BY <1>5, <2>1, <2>2
<1>7. CASE IngestGiveUp(i)
  <2>1. PICK r \in {RequeueOrFail(row[m]), [row[m] EXCEPT !.state = "FAILED"]} :
          /\ row' = [row EXCEPT ![m] = r]
          /\ ing' = [ing EXCEPT ![i] = IF r.state = "FAILED"
                                       THEN [@ EXCEPT !.pc = "release"] ELSE IdleIngest]
    BY <1>7 DEF IngestGiveUp
  <2>2. /\ m \in Jobs /\ row[m] \in Row /\ row[m].state = "INGEST_PENDING"
        /\ userSlots' = userSlots
    BY <1>0, <1>7 DEF IngestGiveUp, IInv, LocksExclusive, HoldsRow, slotVars
  <2>3. row'[m] = r /\ \A k \in Jobs : k # m => row'[k] = row[k]
    BY <1>0, <2>1, <2>2
  <2>4. CASE r.state = "FAILED"
    <3>1. ing'[i] = [ing[i] EXCEPT !.pc = "release"]
      BY <1>0, <2>1, <2>4
    <3>2. ing'[i].job = m
      BY <1>0, <3>1
    <3> QED
      BY <1>5, <2>2, <2>3, <2>4, <3>2
  <2>5. CASE r.state # "FAILED"
    <3>1. ing'[i].pc = "idle"
      BY <1>0, <2>1, <2>5 DEF IdleIngest
    <3>2. UserRows(u)' \subseteq UserRows(u) /\ i \notin UserFreeing(u)'
      BY <2>2, <2>3, <3>1 DEF UserRows, InState, UserFreeing
    <3> QED
      BY <1>3, <2>2, <3>2
  <2> QED
    BY <2>4, <2>5
<1>8. CASE IngestRelease(i)
  <2>1. /\ row' = row /\ ing[i].pc = "release" /\ ing'[i].pc = "idle"
        /\ SafeRelease(Owner[m]) /\ Owner[m] \in Users
    BY <1>0, <1>8 DEF IngestRelease, IdleIngest
  <2>2. UserRows(u)' = UserRows(u) /\ UserFreeing(u)' \subseteq UserFreeing(u)
    BY <1>2, <2>1 DEF UserRows, InState, UserFreeing
  <2>3. Loses(UserRows(u)', UserRows(u), 0)
    BY <1>0, <2>2, UserPartsLose DEF LosesAsSets
  <2>4. CASE Owner[m] = u
    <3>1. i \in UserFreeing(u) \ UserFreeing(u)'
      BY <2>1, <2>4 DEF UserFreeing
    <3>2. Loses(UserFreeing(u)', UserFreeing(u), 1)
      BY <1>0, <2>2, <3>1, UserPartsLose DEF LosesAsSets
    <3>3. userSlots[u] - userSlots'[u] <= 0 + 0 + 0 + 1 + 0
      BY <1>0, <2>1, SafeReleaseTakes
    <3> QED
      BY <1>0, <1>1, <2>3, <3>2, <3>3, UserHoldersChange
  <2>5. CASE Owner[m] # u
    <3>1. Loses(UserFreeing(u)', UserFreeing(u), 0)
      BY <1>0, <2>2, UserPartsLose DEF LosesAsSets
    <3>2. userSlots[u] - userSlots'[u] <= 0 + 0 + 0 + 0 + 0
      BY <1>0, <2>1, <2>5, SafeReleaseTakes
    <3> QED
      BY <1>0, <1>1, <2>3, <3>1, <3>2, UserHoldersChange
  <2> QED
    BY <2>4, <2>5
<1> QED
  BY <1>4, <1>6, <1>7, <1>8 DEF IngestLoop, IngestFault, IngestStep

LEMMA SweepCovers ==
  ASSUME IInv, TypeOK', NEW s \in Sweepers, NEW u \in Users,
         WatchdogTick(s) \/ WatchdogFault(s), ~WatchdogCredits
  PROVE  Covered(u)
<1>0. /\ swp \in [Sweepers -> [stage : 1..9, owes : {"none", "release", "refund"},
                     job : Jobs \cup {NoJob}, count : Nat, byUser : [Users -> Nat]]]
      /\ row \in [Jobs -> Row] /\ TypeOK
      /\ userSlots \in [Users -> Nat] /\ Owner \in [Jobs -> Users]
      /\ swp[s].owes # "none" => swp[s].job \in Jobs
  BY JobStoreAssumption DEF IInv, TypeOK, StoreTypeOK, WatchdogTypeOK, SlotTypeOK, LoopsHaveJobs
<1>1. /\ Loses(UserLoops(u)', UserLoops(u), 0) /\ Loses(UserHooks(u)', UserHooks(u), 0)
      /\ Loses(UserFreeing(u)', UserFreeing(u), 0)
  <2>1. UNCHANGED <<UserLoops(u), UserHooks(u), UserFreeing(u)>>
    BY SweepersTouch DEF UserLoops, HoldsSlot, User, UserHooks, UserFreeing
  <2> QED
    BY <1>0, <2>1, UserPartsLose DEF LosesAsSets
<1>2. UserSweeps(u)' \ {s} \subseteq UserSweeps(u)
  BY SweepersTouch DEF UserSweeps
<1>3. ASSUME UserRows(u)' \subseteq UserRows(u), userSlots' = userSlots,
             s \in UserSweeps(u)' => s \in UserSweeps(u)
      PROVE  Covered(u)
  <2>1. Loses(UserRows(u)', UserRows(u), 0) /\ Loses(UserSweeps(u)', UserSweeps(u), 0)
    BY <1>0, <1>2, <1>3, UserPartsLose DEF LosesAsSets
  <2>2. userSlots[u] - userSlots'[u] <= 0 + 0 + 0 + 0 + 0
    BY <1>0, <1>3
  <2> QED
    BY <1>0, <1>1, <2>1, <2>2, UserHoldersChange
\* A sweep that fails a job past dispatch takes over its slot.
<1>4. ASSUME NEW j \in Jobs, Sweep(s, j, Failed(row[j]), "release"),
             row[j].state \in {"WAITING_FOR_WEBHOOK", "INGEST_PENDING"}
      PROVE  Covered(u)
  <2>1. /\ row'[j].state = "FAILED" /\ \A k \in Jobs : k # j => row'[k] = row[k]
        /\ swp'[s].job = j /\ userSlots' = userSlots
    BY <1>0, <1>4 DEF Sweep, Failed, Row, slotVars
  <2>2. UserRows(u)' \subseteq UserRows(u) /\ j \notin UserRows(u)'
    BY <2>1 DEF UserRows, InState
  <2>3. CASE Owner[j] = u
    <3>1. j \in UserRows(u)
      BY <1>4, <2>3 DEF UserRows, InState
    <3>2. Loses(UserRows(u)', UserRows(u), 1) /\ Loses(UserSweeps(u)', UserSweeps(u), -1)
      BY <1>0, <1>2, <2>2, <3>1, UserPartsLose DEF LosesAsSets
    <3>3. userSlots[u] - userSlots'[u] <= 0 + 1 + 0 + 0 + (-1)
      BY <1>0, <2>1
    <3> QED
      BY <1>0, <1>1, <3>2, <3>3, UserHoldersChange
  <2>4. CASE Owner[j] # u
    <3>1. s \notin UserSweeps(u)'
      BY <2>1, <2>4 DEF UserSweeps
    <3> QED
      BY <1>3, <2>1, <2>2, <3>1
  <2> QED
    BY <2>3, <2>4
\* A sweep that owes no release, and makes no row one that has a slot.
<1>5. ASSUME NEW j \in Jobs, NEW r, NEW owes, Sweep(s, j, r, owes), owes \in {"none", "refund"},
             swp[s].owes = "none",
             r.state \in {"WAITING_FOR_WEBHOOK", "INGEST_PENDING"} =>
               row[j].state \in {"WAITING_FOR_WEBHOOK", "INGEST_PENDING"}
      PROVE  Covered(u)
  <2>1. UserRows(u)' \subseteq UserRows(u)
    BY <1>0, <1>5 DEF Sweep, UserRows, InState
  <2>2. s \notin UserSweeps(u)' /\ userSlots' = userSlots
    BY <1>0, <1>5 DEF Sweep, slotVars, UserSweeps
  <2> QED
    BY <1>3, <2>1, <2>2
<1>6. CASE SweepWaiting(s)
  <2>1. PICK j \in Jobs :
          /\ row[j].state = "WAITING_FOR_WEBHOOK"
          /\ \/ Sweep(s, j, [row[j] EXCEPT !.state = "INGEST_PENDING"], "none")
             \/ Sweep(s, j, Failed(row[j]), "release")
    BY <1>6 DEF SweepWaiting, InState
  <2>2. swp[s].owes = "none"
    BY <1>6 DEF SweepWaiting, Sweeping
  <2> QED
    BY <1>4, <1>5, <2>1, <2>2
<1>7. CASE SweepIngest(s)
  <2>1. PICK j \in Jobs :
          /\ row[j].state = "INGEST_PENDING"
          /\ \/ Sweep(s, j, Failed(row[j]), "release")
             \/ Sweep(s, j, [row[j] EXCEPT !.available = TRUE], "none")
    BY <1>7 DEF SweepIngest, InState
  <2>2. swp[s].owes = "none"
    BY <1>7 DEF SweepIngest, Sweeping
  <2> QED
    BY <1>4, <1>5, <2>1, <2>2
<1>8. CASE SweepExpired(s)
  <2>1. PICK j \in Jobs : Expire(s, j)
    BY <1>8 DEF SweepExpired
  <2>2. swp[s].owes = "none" /\ row[j].state # "SUBMITTING"
        /\ Sweep(s, j, Failed(row[j]),
                 IF row[j].state \in ActiveStates THEN "release" ELSE "none")
    BY <2>1 DEF Expire, Sweeping, WatchdogCredits
  <2>3. Failed(row[j]).state = "FAILED"
    BY <1>0 DEF Failed, Row
  <2>4. CASE row[j].state \in ActiveStates
    BY <1>4, <2>2, <2>4 DEF ActiveStates
  <2>5. CASE row[j].state \notin ActiveStates
    <3>1. Sweep(s, j, Failed(row[j]), "none")
      BY <2>2, <2>5
    <3> QED
      BY <1>5, <2>2, <2>3, <3>1
  <2> QED
    BY <2>4, <2>5
<1>9. CASE SweepFailures(s)
  <2>1. PICK j \in Jobs : Sweep(s, j, [row[j] EXCEPT !.failure_handled = TRUE], "refund")
    BY <1>9 DEF SweepFailures
  <2>2. swp[s].owes = "none" /\ [row[j] EXCEPT !.failure_handled = TRUE].state = row[j].state
    BY <1>0, <1>9 DEF SweepFailures, Sweeping, Row
  <2> QED
    BY <1>5, <2>1, <2>2
<1>10. CASE SweeperRelease(s)
  <2>1. /\ row' = row /\ swp[s].owes = "release" /\ swp'[s].owes = "none"
        /\ SafeRelease(Owner[swp[s].job]) /\ Owner[swp[s].job] \in Users
    BY <1>0, <1>10 DEF SweeperRelease
  <2>2. UserRows(u)' = UserRows(u) /\ UserSweeps(u)' \subseteq UserSweeps(u)
    BY <1>2, <2>1 DEF UserRows, InState, UserSweeps
  <2>3. Loses(UserRows(u)', UserRows(u), 0)
    BY <1>0, <2>2, UserPartsLose DEF LosesAsSets
  <2>4. CASE Owner[swp[s].job] = u
    <3>1. s \in UserSweeps(u) \ UserSweeps(u)'
      BY <2>1, <2>4 DEF UserSweeps
    <3>2. Loses(UserSweeps(u)', UserSweeps(u), 1)
      BY <1>0, <2>2, <3>1, UserPartsLose DEF LosesAsSets
    <3>3. userSlots[u] - userSlots'[u] <= 0 + 0 + 0 + 0 + 1
      BY <1>0, <2>1, SafeReleaseTakes
    <3> QED
      BY <1>0, <1>1, <2>3, <3>2, <3>3, UserHoldersChange
  <2>5. CASE Owner[swp[s].job] # u
    <3>1. Loses(UserSweeps(u)', UserSweeps(u), 0)
      BY <1>0, <2>2, UserPartsLose DEF LosesAsSets
    <3>2. userSlots[u] - userSlots'[u] <= 0 + 0 + 0 + 0 + 0
      BY <1>0, <2>1, <2>5, SafeReleaseTakes
    <3> QED
      BY <1>0, <1>1, <2>3, <3>1, <3>2, UserHoldersChange
  <2> QED
    BY <2>4, <2>5
<1>11. CASE SweeperRefund(s) \/ NextStage(s) \/ SweeperCrash(s) \/ ReadCount(s)
              \/ ReadCountByUser(s) \/ CorrectSlots(s)
  <2>1. row' = row /\ userSlots' = userSlots
    BY <1>11 DEF SweeperRefund, NextStage, SweeperCrash, ReadCount, ReadCountByUser,
       CorrectSlots, storeVars, slotVars
  <2>2. swp'[s].owes = "none" \/ (swp'[s].owes = swp[s].owes /\ swp'[s].job = swp[s].job)
    BY <1>0, <1>11 DEF SweeperRefund, NextStage, SweeperCrash, ReadCount, ReadCountByUser,
       CorrectSlots, TickStart
  <2>3. UserRows(u)' = UserRows(u)
    BY <2>1 DEF UserRows, InState
  <2> QED
    BY <1>3, <2>1, <2>2, <2>3 DEF UserSweeps
<1>12. ~CorrectUserSlots(s) /\ ~SweepSubmitting(s)
  BY DEF WatchdogCredits
<1> QED
  BY <1>6, <1>7, <1>8, <1>9, <1>10, <1>11, <1>12
     DEF WatchdogTick, WatchdogFault, SweeperStep, Reconcile

LEMMA StepsCover ==
  ASSUME IInv, ReleasesFailures, [Next]_vars, TypeOK', ~WatchdogCredits, NEW u \in Users
  PROVE  Covered(u)
<1>1. CASE UNCHANGED vars \/ Deadline
  <2>1. /\ TypeOK
        /\ UNCHANGED <<UserLoops(u), UserRows(u), UserHooks(u), UserFreeing(u), UserSweeps(u)>>
    BY <1>1 DEF IInv, vars, Deadline, DeadlinePasses, storeVars, slotVars, ingestVars,
       watchdogVars, UserLoops, HoldsSlot, User, UserRows, InState, UserHooks, UserFreeing,
       UserSweeps
  <2>2. /\ Loses(UserLoops(u)', UserLoops(u), 0) /\ Loses(UserRows(u)', UserRows(u), 0)
        /\ Loses(UserHooks(u)', UserHooks(u), 0) /\ Loses(UserFreeing(u)', UserFreeing(u), 0)
        /\ Loses(UserSweeps(u)', UserSweeps(u), 0)
    BY <2>1, UserPartsLose DEF LosesAsSets
  <2>3. userSlots[u] - userSlots'[u] <= 0 + 0 + 0 + 0 + 0
    BY <1>1, <2>1 DEF TypeOK, SlotTypeOK, vars, Deadline, DeadlinePasses, slotVars
  <2> QED
    BY <2>1, <2>2, <2>3, UserHoldersChange
<1> QED
  BY <1>1, EntryCovers, DispatchCovers, IngestCovers, SweepCovers DEF Next

LEMMA ReleasesFailuresAlways == Spec => []ReleasesFailures
<1>1. Init => ReleasesFailures
  BY DEF Init, DispatchInit, IdleDispatch, ReleasesFailures
<1> QED
  BY <1>1, ReleasesFailuresKept, InductiveInvariant, PTL DEF Spec

CoveredUnlessCredit ==
  \A u \in Users :
    UserHolders(u)' - userSlots'[u] > UserHolders(u) - userSlots[u] => WatchdogCredits

\* For any number of loops, jobs and faults, and whatever the timing: a step that
\* leaves more of a user's slots held than its counter shows, against what was
\* before, is one of the watchdog's three credits.
THEOREM CreditsAreWatchdogs == Spec => OnlyWatchdogCredits
<1>1. IInv /\ ReleasesFailures /\ TypeOK' /\ [Next]_vars => CoveredUnlessCredit
  <2> SUFFICES ASSUME IInv, ReleasesFailures, TypeOK', [Next]_vars, NEW u \in Users,
                      UserHolders(u)' - userSlots'[u] > UserHolders(u) - userSlots[u],
                      ~WatchdogCredits
               PROVE  FALSE
    BY DEF CoveredUnlessCredit
  <2>1. Covered(u)
    BY StepsCover
  <2>2. UserHoldersAreInts /\ UserHoldersAreInts'
    BY UserHoldersCounted, PTL DEF IInv
  <2> QED
    BY <2>1, <2>2 DEF Covered, UserHoldersAreInts
<1>2. IInv => TypeOK
  BY DEF IInv
<1> QED
  BY <1>1, <1>2, InductiveInvariant, ReleasesFailuresAlways, PTL
     DEF Spec, OnlyWatchdogCredits, CoveredUnlessCredit

-----------------------------------------------------------------------------
(* The cap of each user, until the watchdog gives a slot away *)

\* What a user has in flight holds a slot, a slot is on the counter, and the
\* counter stops at the cap.
UserCapInv ==
  \A u \in Users : UserHolders(u) <= userSlots[u] /\ userSlots[u] <= UserCap

UserCountersStayLow == \A u \in Users : userSlots'[u] <= userSlots[u] \/ userSlots'[u] <= UserCap

\* Only a granted acquire raises a counter.
LEMMA CountersUnderCap ==
  ASSUME IInv, [Next]_vars
  PROVE  UserCountersStayLow
<1>0. TypeOK /\ userSlots \in [Users -> Nat] /\ Owner \in [Jobs -> Users]
  BY JobStoreAssumption DEF IInv, TypeOK, SlotTypeOK
<1>1. CASE UNCHANGED userSlots
  BY <1>0, <1>1 DEF UserCountersStayLow
<1>2. ASSUME NEW v \in Users, SafeRelease(v) PROVE UserCountersStayLow
  BY <1>0, <1>2, SafeReleaseTakes DEF UserCountersStayLow
<1>3. ASSUME NEW d \in Dispatchers, Dispatch(d) \/ DispatchFault(d) PROVE UserCountersStayLow
  <2>1. CASE AcquireUser(d)
    <3>1. CASE BelowCap(userSlots[User(d)], UserCap)
               /\ userSlots' = [userSlots EXCEPT ![User(d)] = @ + 1]
      <4>1. ASSUME NEW u \in Users PROVE userSlots'[u] <= userSlots[u] \/ userSlots'[u] <= UserCap
        <5>1. CASE u = User(d)
          BY <1>0, <3>1, <5>1, SemaphoreAssumption DEF BelowCap
        <5>2. CASE u # User(d)
          BY <1>0, <3>1, <5>2
        <5> QED
          BY <5>1, <5>2
      <4> QED
        BY <4>1 DEF UserCountersStayLow
    <3> QED
      BY <1>1, <2>1, <3>1 DEF AcquireUser
  <2>2. CASE DispatchRelease(d)
    <3>1. User(d) \in Users
      BY <1>0, <2>2 DEF DispatchRelease, User, IInv, LoopsHaveJobs
    <3> QED
      BY <1>2, <2>2, <3>1 DEF DispatchRelease
  <2> QED
    BY <1>1, <1>3, <2>1, <2>2 DEF Dispatch, DispatchFault, DispatchStep, Claim, AcquireGlobal,
       RollBackGlobal, CallApi, CountActive, CorrectGlobal, CommitResult, DispatchCrash
<1>4. ASSUME NEW j \in Jobs, Create(j) \/ Clock(j) \/ Webhook(j) \/ WebhookTail(j)
      PROVE  UserCountersStayLow
  BY <1>0, <1>1, <1>2, <1>4 DEF Create, Clock, Webhook, WebhookTail, WebhookDelivery,
     WebhookAudio, WebhookFailure, WebhookRelease, slotVars
<1>5. ASSUME NEW i \in Ingesters, IngestLoop(i) \/ IngestFault(i) PROVE UserCountersStayLow
  <2>1. CASE IngestRelease(i)
    <3>1. Owner[ing[i].job] \in Users
      BY <1>0, <2>1 DEF IngestRelease, IInv, LoopsHaveJobs
    <3> QED
      BY <1>2, <2>1, <3>1 DEF IngestRelease
  <2> QED
    BY <1>1, <1>5, <2>1 DEF IngestLoop, IngestFault, IngestStep, IngestClaim, IngestFetch,
       IngestPut, IngestFinalize, IngestCommit, IngestGiveUp, IngestCrash, slotVars
<1>6. ASSUME NEW s \in Sweepers, WatchdogTick(s) \/ WatchdogFault(s) PROVE UserCountersStayLow
  <2>1. CASE SweeperRelease(s)
    <3>1. Owner[swp[s].job] \in Users
      BY <1>0, <2>1 DEF SweeperRelease, IInv, LoopsHaveJobs
    <3> QED
      BY <1>2, <2>1, <3>1 DEF SweeperRelease
  <2>2. CASE CorrectUserSlots(s)
    <3>1. swp[s].byUser \in [Users -> Nat]
      BY <1>0 DEF TypeOK, WatchdogTypeOK
    <3> QED
      BY <1>0, <2>2, <3>1 DEF CorrectUserSlots, ReconcileUsers, DecreaseTo, UserCountersStayLow
  <2>3. CASE SweepWaiting(s) \/ SweepSubmitting(s) \/ SweepIngest(s) \/ SweepExpired(s)
               \/ SweepFailures(s)
    <3>1. \E j, r, owes : Sweep(s, j, r, owes)
      BY <2>3 DEF SweepWaiting, SweepSubmitting, SweepIngest, SweepExpired, Expire, SweepFailures
    <3> QED
      BY <1>1, <3>1 DEF Sweep, slotVars
  <2> QED
    BY <1>1, <1>6, <2>1, <2>2, <2>3 DEF WatchdogTick, WatchdogFault, SweeperStep, SweeperRefund,
       NextStage, Reconcile, ReadCount, ReadCountByUser, CorrectSlots, SweeperCrash, slotVars
<1> QED
  BY <1>1, <1>3, <1>4, <1>5, <1>6 DEF Next, vars, slotVars, Deadline, DeadlinePasses

\* The songs of user u in flight are no more than the slots that u's loops and
\* rows hold.
LEMMA InFlightHolds ==
  ASSUME TypeOK, NEW u \in Users
  PROVE  /\ Cardinality({j \in InFlight : Owner[j] = u}) \in Nat
         /\ Cardinality({j \in InFlight : Owner[j] = u}) <= UserHolders(u)
<1> DEFINE L == UserLoops(u)
           R == UserRows(u)
           T == {disp[d].job : d \in L}
           f == [d \in L |-> disp[d].job]
           F == {j \in InFlight : Owner[j] = u}
<1>1. /\ IsFiniteSet(L) /\ IsFiniteSet(R) /\ IsFiniteSet(UserHooks(u))
      /\ IsFiniteSet(UserFreeing(u)) /\ IsFiniteSet(UserSweeps(u))
  BY UserPartsAreFinite DEF UserPartsFinite
<1>2. F \subseteq T \cup R
  <2> SUFFICES ASSUME NEW j \in InFlight, Owner[j] = u PROVE j \in T \cup R
    OBVIOUS
  <2>1. CASE j \in InState({"WAITING_FOR_WEBHOOK"})
    BY <2>1 DEF InState, UserRows
  <2>2. CASE \E d \in Dispatchers : /\ disp[d].job = j
                                    /\ \/ disp[d].pc = "call"
                                       \/ disp[d].pc = "commit" /\ disp[d].result = "created"
    BY <2>2 DEF UserLoops, HoldsSlot, User
  <2> QED
    BY <2>1, <2>2 DEF InFlight
<1>3. f \in [L -> T] /\ T = {f[d] : d \in L}
  OBVIOUS
<1>4. f \in Surjection(L, T)
  BY <1>3 DEF Surjection
<1> HIDE DEF L, R, T, f, F
<1>5. IsFiniteSet(T) /\ Cardinality(T) <= Cardinality(L)
  BY <1>1, <1>4, FS_Surjection
<1>6. IsFiniteSet(T \cup R) /\ Cardinality(T \cup R) <= Cardinality(T) + Cardinality(R)
  <2>1. IsFiniteSet(T \cap R)
    BY <1>1, FS_Subset
  <2>2. Cardinality(T \cap R) \in Nat /\ Cardinality(T) \in Nat /\ Cardinality(R) \in Nat
    BY <1>1, <1>5, <2>1, FS_CardinalityType
  <2>3. /\ IsFiniteSet(T \cup R)
        /\ Cardinality(T \cup R) = Cardinality(T) + Cardinality(R) - Cardinality(T \cap R)
    BY <1>1, <1>5, FS_Union
  <2> QED
    BY <2>2, <2>3
<1>7. IsFiniteSet(F) /\ Cardinality(F) <= Cardinality(T \cup R)
  BY <1>2, <1>6, FS_Subset
<1>8. /\ Cardinality(L) \in Nat /\ Cardinality(R) \in Nat /\ Cardinality(UserHooks(u)) \in Nat
      /\ Cardinality(UserFreeing(u)) \in Nat /\ Cardinality(UserSweeps(u)) \in Nat
      /\ Cardinality(T) \in Nat /\ Cardinality(F) \in Nat /\ Cardinality(T \cup R) \in Nat
  BY <1>1, <1>5, <1>6, <1>7, FS_CardinalityType
<1>9. UserHolders(u) = Cardinality(L) + Cardinality(R) + Cardinality(UserHooks(u))
                       + Cardinality(UserFreeing(u)) + Cardinality(UserSweeps(u))
  BY DEF L, R, UserHolders, UserLoops, UserRows, UserHooks, UserFreeing, UserSweeps
<1>10. Cardinality(F) <= UserHolders(u)
  BY <1>5, <1>6, <1>7, <1>8, <1>9
<1> QED
  BY <1>8, <1>10 DEF F

\* A watchdog's correction or release after which a user holds more slots than the
\* counter shows.  One that takes off no more than what crashes have leaked is none.
TakesHeldSlot == WatchdogCredits /\ \E u \in Users : UserHolders(u)' > userSlots'[u]

\* Whatever crashes, retries, late answers and watchdog ticks there are, and however
\* long a call lasts: no user has more songs in flight than per_user_concurrent_jobs
\* before a watchdog step takes a slot that is held.
THEOREM UserCapsHold == Spec /\ [][~TakesHeldSlot]_vars => []UserCapRespected
<1>1. Init => UserCapInv
  <2> SUFFICES ASSUME Init, NEW u \in Users
               PROVE  UserHolders(u) <= userSlots[u] /\ userSlots[u] <= UserCap
    BY DEF UserCapInv
  <2>1. /\ UserLoops(u) = {} /\ UserRows(u) = {} /\ UserHooks(u) = {}
        /\ UserFreeing(u) = {} /\ UserSweeps(u) = {} /\ userSlots[u] = 0
    BY DEF Init, DispatchInit, IdleDispatch, StoreInit, NewRow, WebhookInit, IngestInit,
       IdleIngest, WatchdogInit, TickStart, SlotInit, UserLoops, HoldsSlot, UserRows, InState,
       UserHooks, UserFreeing, UserSweeps
  <2>2. UserHolders(u) = 0 + 0 + 0 + 0 + 0
    BY <2>1, FS_EmptySet DEF UserHolders, UserLoops, UserRows, UserHooks, UserFreeing, UserSweeps
  <2> QED
    BY <2>1, <2>2, SemaphoreAssumption
<1>2. IInv /\ ReleasesFailures /\ TypeOK' /\ UserCapInv /\ [Next]_vars /\ [~TakesHeldSlot]_vars
        => UserCapInv'
  <2> SUFFICES ASSUME IInv, ReleasesFailures, TypeOK', UserCapInv, [Next]_vars,
                      [~TakesHeldSlot]_vars, NEW u \in Users
               PROVE  UserHolders(u)' <= userSlots'[u] /\ userSlots'[u] <= UserCap
    BY DEF UserCapInv
  <2>1. CASE UNCHANGED vars
    <3>1. UserHolders(u)' = UserHolders(u) /\ userSlots' = userSlots
      BY <2>1 DEF vars, storeVars, slotVars, ingestVars, watchdogVars, UserHolders, HoldsSlot,
         User, InState
    <3> QED
      BY <3>1 DEF UserCapInv
  <2>2. CASE ~WatchdogCredits
    <3>1. Covered(u)
      BY <2>2, StepsCover
    <3>2. UserCountersStayLow
      BY CountersUnderCap
    <3>3. UserHoldersAreInts /\ UserHoldersAreInts'
      BY UserHoldersCounted, PTL DEF IInv
    <3> QED
      BY <3>1, <3>2, <3>3, SemaphoreAssumption
         DEF Covered, UserCapInv, UserCountersStayLow, UserHoldersAreInts
  <2>3. CASE WatchdogCredits /\ ~TakesHeldSlot
    <3>1. ~(UserHolders(u)' > userSlots'[u])
      BY <2>3 DEF TakesHeldSlot
    <3>2. UserCountersStayLow
      BY CountersUnderCap
    <3>3. UserHoldersAreInts /\ UserHoldersAreInts'
      BY UserHoldersCounted, PTL DEF IInv
    <3> QED
      BY <3>1, <3>2, <3>3, SemaphoreAssumption
         DEF UserCapInv, UserCountersStayLow, UserHoldersAreInts
  <2> QED
    BY <2>1, <2>2, <2>3
<1>3. TypeOK /\ UserCapInv => UserCapRespected
  <2> SUFFICES ASSUME TypeOK, UserCapInv, NEW u \in Users
               PROVE  Cardinality({j \in InFlight : Owner[j] = u}) <= UserCap
    BY DEF UserCapRespected
  <2>1. UserHoldersAreInts
    BY UserHoldersCounted
  <2> QED
    BY <2>1, InFlightHolds, SemaphoreAssumption DEF UserCapInv, UserHoldersAreInts
<1>4. IInv => TypeOK
  BY DEF IInv
<1> QED
  BY <1>1, <1>2, <1>3, <1>4, InductiveInvariant, ReleasesFailuresAlways, PTL DEF Spec
=============================================================================

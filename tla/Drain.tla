------------------------------- MODULE Drain --------------------------------
(***************************************************************************)
(* The first drain of the watchdog's tick, row by row:                     *)
(* _drain_waiting_overdue (worker/watchdog.py) over                        *)
(* claim_waiting_overdue_job and sweep_waiting_overdue (jobs/watchdog.py). *)
(* Watchdog.tla keeps only the polls that change a row; here are the polls *)
(* that leave it as it was, the batch a claim locks, and the rows a drain  *)
(* has examined.  Row r is the r-th oldest by updated_at, which a poll     *)
(* does not touch; its deadline depends on its own eta.                    *)
(***************************************************************************)
EXTENDS Integers, FiniteSets

CONSTANTS
  NumRows,     \* bound: the rows that reach WAITING_FOR_WEBHOOK
  BatchSize,   \* watchdog_claim_batch_size
  Drainers,    \* one watchdog loop per worker process
  IntervalCoversDrain  \* assume: a poll interval outlasts the other workers' drains

ASSUME DrainAssumption ==
  /\ NumRows \in Nat /\ BatchSize \in Nat \ {0} /\ IsFiniteSet(Drainers)
  /\ IntervalCoversDrain \in BOOLEAN

VARIABLES
  phase,      \* phase[r]: the row's life as far as this drain sees it
  stage,      \* stage[w]: where w's tick stands
  polled,     \* polled[w]: the row w has claimed and polls
  batch,      \* batch[w]: the rows w's transaction has locked
  examined    \* examined[w]: the rows w has claimed in this tick

drainVars == <<phase, stage, polled, batch, examined>>

WaitingRows == 1..NumRows
NoRow == 0

DrainInit ==
  /\ phase = [r \in WaitingRows |-> "absent"]
  /\ stage = [w \in Drainers |-> "draining"]
  /\ polled = [w \in Drainers |-> NoRow]
  /\ batch = [w \in Drainers |-> {}]
  /\ examined = [w \in Drainers |-> {}]

DrainTypeOK ==
  /\ phase \in [WaitingRows -> {"absent", "fresh", "overdue", "left"}]
  /\ stage \in [Drainers -> {"draining", "polling", "later"}]
  /\ polled \in [Drainers -> WaitingRows \cup {NoRow}]
  /\ batch \in [Drainers -> SUBSET WaitingRows]
  /\ examined \in [Drainers -> SUBSET WaitingRows]

Unlocked(r) == \A w \in Drainers : r \notin batch[w]

(***************************************************************************)
(* The rows: dispatch commits a new one, its eta and the buffer pass, a    *)
(* webhook, whose lookup waits for the row lock, takes it on.              *)
(***************************************************************************)
RowArrives(r) ==
  /\ phase[r] = "absent" /\ \A q \in 1..(r - 1) : phase[q] # "absent"
  /\ phase' = [phase EXCEPT ![r] = "fresh"]
  /\ UNCHANGED <<stage, polled, batch, examined>>

RowFallsDue(r) ==
  /\ phase[r] = "fresh"
  /\ phase' = [phase EXCEPT ![r] = "overdue"]
  /\ UNCHANGED <<stage, polled, batch, examined>>

WebhookTakes(r) ==
  /\ phase[r] \in {"fresh", "overdue"} /\ Unlocked(r)
  /\ phase' = [phase EXCEPT ![r] = "left"]
  /\ UNCHANGED <<stage, polled, batch, examined>>

(***************************************************************************)
(* The claim.                                                              *)
(***************************************************************************)
\* Mutated: the claim does not pass over what this drain has examined.
SelectableAgain(w) == {r \in WaitingRows : phase[r] \in {"fresh", "overdue"} /\ Unlocked(r)}

\* WAITING_FOR_WEBHOOK, not examined in this tick, and not locked (SKIP LOCKED).
Selectable(w) ==
  {r \in WaitingRows : phase[r] \in {"fresh", "overdue"} /\ Unlocked(r)} \ examined[w]

\* ORDER BY updated_at LIMIT watchdog_claim_batch_size FOR UPDATE.
Candidates(w) ==
  {r \in Selectable(w) : Cardinality({q \in Selectable(w) : q < r}) < BatchSize}

\* Mutated: only the oldest candidate is looked at.
OldestIfOverdue(w) ==
  {r \in Candidates(w) : phase[r] = "overdue" /\ \A q \in Candidates(w) : r <= q}

\* The oldest of the batch whose own deadline has passed.
Claimed(w) ==
  {r \in Candidates(w) : /\ phase[r] = "overdue"
                         /\ \A q \in Candidates(w) : phase[q] = "overdue" => r <= q}

ClaimRow(w) ==
  /\ stage[w] = "draining"
  /\ \E r \in Claimed(w) :
       /\ polled' = [polled EXCEPT ![w] = r]
       /\ examined' = [examined EXCEPT ![w] = @ \cup {r}]
  /\ batch' = [batch EXCEPT ![w] = Candidates(w)]
  /\ stage' = [stage EXCEPT ![w] = "polling"]
  /\ UNCHANGED phase

\* Nothing is overdue: the drain returns and the tick goes on to its other sweeps.
DrainReturns(w) ==
  /\ stage[w] = "draining" /\ Claimed(w) = {}
  /\ stage' = [stage EXCEPT ![w] = "later"]
  /\ UNCHANGED <<phase, polled, batch, examined>>

\* sweep_waiting_overdue and the commit: COMPLETED, ERROR and FAILED take the row
\* on; IN_QUEUE or an error of the lookup itself leaves it as it is.
PollRow(w) ==
  /\ stage[w] = "polling"
  /\ phase' \in {phase, [phase EXCEPT ![polled[w]] = "left"]}
  /\ stage' = [stage EXCEPT ![w] = "draining"]
  /\ polled' = [polled EXCEPT ![w] = NoRow]
  /\ batch' = [batch EXCEPT ![w] = {}]
  /\ UNCHANGED examined

\* The other sweeps, and the next tick with an empty `examined`.
NextTick(w) ==
  /\ stage[w] = "later"
  /\ IntervalCoversDrain => \A v \in Drainers : stage[v] = "later"
  /\ stage' = [stage EXCEPT ![w] = "draining"]
  /\ examined' = [examined EXCEPT ![w] = {}]
  /\ UNCHANGED <<phase, polled, batch>>

DrainStep(w) == ClaimRow(w) \/ DrainReturns(w) \/ PollRow(w) \/ NextTick(w)

DrainNext ==
  \/ \E r \in WaitingRows : RowArrives(r) \/ RowFallsDue(r) \/ WebhookTakes(r)
  \/ \E w \in Drainers : DrainStep(w)

DrainSpec == DrainInit /\ [][DrainNext]_drainVars

\* The loop goes on and every awaited lookup has a timeout.
DrainFairness == \A w \in Drainers : WF_drainVars(DrainStep(w))

(***************************************************************************)
(* Properties.                                                             *)
(***************************************************************************)
\* A tick comes to its other sweeps (the refunds among them) whatever /byId
\* answers: no drain claims the rows it left unchanged over and over, and again and
\* again none is under way (the interval outlasts them).
DrainEnds == []<>(\A w \in Drainers : stage[w] = "later")

\* The rows before r, oldest first, that fill a batch without being due.
HiddenBehind(r) == {q \in 1..(r - 1) : phase[q] = "fresh"}

\* A claim locks its whole batch, so that one worker's drain may find nothing while
\* another's is under way; but when the last of them returns, every overdue row has
\* been polled, whatever stood before it by updated_at, except one that stands behind
\* a whole batch of older rows of which none is due (their eta is longer): that one
\* is seen when they move on.
OverdueIsPolled ==
  [][(\E w \in Drainers : stage[w] # "later") /\ (\A w \in Drainers : stage'[w] = "later")
     => \A r \in WaitingRows :
          phase[r] = "overdue" => \/ \E w \in Drainers : r \in examined[w]
                                 \/ Cardinality(HiddenBehind(r)) >= BatchSize
    ]_drainVars
=============================================================================

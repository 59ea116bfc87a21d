------------------------------ MODULE Watchdog ------------------------------
(***************************************************************************)
(* The leaderless watchdog (worker/watchdog.py over jobs/watchdog.py).     *)
(* Every worker runs the same tick: drain five sweeps in order, then read  *)
(* the active counts and lower the semaphore towards them.  A sweep claims *)
(* one row FOR UPDATE SKIP LOCKED, changes it and commits; the slot        *)
(* release or the refund it calls for follows the commit, best effort.     *)
(***************************************************************************)
EXTENDS Dispatch

CONSTANTS
  Sweepers,            \* one watchdog loop per worker process
  LeaseCoversCall      \* assume: the SUBMITTING lease outlasts any live dispatch

ASSUME WatchdogAssumption ==
  /\ IsFiniteSet(Sweepers)
  /\ LeaseCoversCall \in BOOLEAN

VARIABLES
  swp,       \* swp[s]: the stage of sweeper s's tick and what it still owes
  refunds,   \* refunds[j]: how often job j's quota was given back
  overdue    \* jobs 1..overdue were created more than job_max_lifetime_seconds ago

watchdogVars == <<swp, refunds, overdue>>

Stages == <<"waiting", "submitting", "ingest", "expired", "failures",
            "count", "count_users", "correct", "correct_users">>
NoCounts == [u \in Users |-> 0]
TickStart == [stage |-> 1, owes |-> "none", job |-> NoJob, count |-> 0, byUser |-> NoCounts]

WatchdogInit ==
  /\ swp = [s \in Sweepers |-> TickStart]
  /\ refunds = [j \in Jobs |-> 0]
  /\ overdue = 0

WatchdogTypeOK ==
  /\ swp \in [Sweepers -> [stage : 1..9, owes : {"none", "release", "refund"},
                           job : Jobs \cup {NoJob}, count : Nat, byUser : [Users -> Nat]]]
  /\ refunds \in [Jobs -> Nat]
  /\ overdue \in 0..JobCount

\* A live dispatch loop is between its claim and its commit of job j.
Driven(j) == \E d \in Dispatchers : disp[d].job = j

At(s, stage) == Stages[swp[s].stage] = stage

\* Sweeper s may claim its next row in this stage.
Sweeping(s, stage) == At(s, stage) /\ swp[s].owes = "none"

\* The sweep leaves row j as r; `owes` is what follows the commit.
Sweep(s, j, r, owes) ==
  /\ row' = [row EXCEPT ![j] = r]
  /\ swp' = IF owes = "none" THEN swp
            ELSE [swp EXCEPT ![s].owes = owes, ![s].job = j]
  /\ UNCHANGED <<locked, calls, faults, slotVars, disp, refunds, overdue>>

Failed(r) == [r EXCEPT !.state = "FAILED"]

\* Mutated: a job whose webhook is overdue is sent back to dispatch.
SweepWaitingRedispatch(s) ==
  /\ Sweeping(s, "waiting")
  /\ \E j \in InState({"WAITING_FOR_WEBHOOK"}) \ locked :
       Sweep(s, j, [row[j] EXCEPT !.state = "QUEUED"], "release")

\* sweep_waiting_overdue polls /byId with the row locked, so the poll and the
\* commit are one step: /byId says COMPLETED, or ERROR/FAILED.  Still queued, or
\* an error of the lookup itself, changes nothing.
SweepWaiting(s) ==
  /\ Sweeping(s, "waiting")
  /\ \E j \in InState({"WAITING_FOR_WEBHOOK"}) \ locked :
       \/ Sweep(s, j, [row[j] EXCEPT !.state = "INGEST_PENDING"], "none")
       \/ Sweep(s, j, Failed(row[j]), "release")

\* Mutated: no age gate.
StuckAnyAge == {j \in InState({"SUBMITTING"}) : row[j].task_id = NoTask}

\* SUBMITTING without a task_id, older than the lease.
Stuck == {j \in InState({"SUBMITTING"}) :
            row[j].task_id = NoTask /\ (LeaseCoversCall => ~Driven(j))}

\* sweep_submitting_stuck: requeued, and a slot released whether or not the dead
\* dispatcher had come as far as taking one.
SweepSubmitting(s) ==
  /\ Sweeping(s, "submitting")
  /\ \E j \in Stuck \ locked :
       Sweep(s, j, [row[j] EXCEPT !.state = "QUEUED", !.available = TRUE], "release")

\* sweep_ingest_overdue: nudge, or give up at the ceiling.
SweepIngest(s) ==
  /\ Sweeping(s, "ingest")
  /\ \E j \in InState({"INGEST_PENDING"}) \ locked :
       IF row[j].ingest_attempts >= IngestMaxAttempts
       THEN Sweep(s, j, Failed(row[j]), "release")
       ELSE /\ ~row[j].available
            /\ Sweep(s, j, [row[j] EXCEPT !.available = TRUE], "none")

\* The oldest job that is not past its deadline yet now is.
DeadlinePasses ==
  /\ overdue < JobCount
  /\ row[overdue + 1].state # "ABSENT"
  /\ overdue' = overdue + 1
  /\ UNCHANGED <<storeVars, slotVars, disp, swp, refunds>>

\* Mutated: a job that still waits for its dispatch has no deadline.
ExpirableActive == {j \in ActiveJobs : j <= overdue}

Expirable == {j \in InState(NonTerminalStates) : j <= overdue}

\* sweep_expired_job: any non-terminal job past job_max_lifetime_seconds, oldest
\* first; one in an active state is taken to hold a slot.
Expire(s, j) ==
  /\ Sweeping(s, "expired")
  /\ Claims(j, Expirable)
  /\ Sweep(s, j, Failed(row[j]),
           IF row[j].state \in ActiveStates THEN "release" ELSE "none")

SweepExpired(s) == \E j \in Jobs : Expire(s, j)

\* Mutated: the stamp is not looked at.
FailedEver == InState({"FAILED"})

\* Mutated: only failures after a successful API call are handled.
UnhandledSubmitted ==
  {j \in InState({"FAILED"}) : ~row[j].failure_handled /\ row[j].task_id # NoTask}

Unhandled == {j \in InState({"FAILED"}) : ~row[j].failure_handled}

\* sweep_terminal_failures: stamp failure_handled_at; the refund follows.
SweepFailures(s) ==
  /\ Sweeping(s, "failures")
  /\ \E j \in Jobs :
       /\ Claims(j, Unhandled)
       /\ Sweep(s, j, [row[j] EXCEPT !.failure_handled = TRUE], "refund")

\* _safe_release_semaphore, after the commit.
SweeperRelease(s) ==
  /\ swp[s].owes = "release"
  /\ SafeRelease(Owner[swp[s].job])
  /\ swp' = [swp EXCEPT ![s].owes = "none", ![s].job = NoJob]
  /\ UNCHANGED <<row, locked, calls, disp, refunds, overdue>>

\* _safe_refund, after the commit; a Redis error is swallowed.
SweeperRefund(s) ==
  /\ swp[s].owes = "refund"
  /\ \/ refunds' = [refunds EXCEPT ![swp[s].job] = @ + 1] /\ UNCHANGED faults
     \/ Fault /\ UNCHANGED refunds
  /\ swp' = [swp EXCEPT ![s].owes = "none", ![s].job = NoJob]
  /\ UNCHANGED <<row, locked, calls, slotVars, disp, overdue>>

\* A drain whose claim comes back empty ends.  The ages of the first three sweeps
\* are measured from updated_at and not tracked: those may end at any point.
NextStage(s) ==
  /\ swp[s].owes = "none"
  /\ swp[s].stage <= 5
  /\ At(s, "expired") => Expirable \ locked = {}
  /\ At(s, "failures") => Unhandled \ locked = {}
  /\ swp' = [swp EXCEPT ![s].stage = @ + 1]
  /\ UNCHANGED <<storeVars, slotVars, disp, refunds, overdue>>

\* _safe_reconcile_semaphore reads two counts, a statement each ...
ReadCount(s) ==
  /\ At(s, "count")
  /\ swp' = [swp EXCEPT ![s].stage = @ + 1, ![s].count = ActiveCount]
  /\ UNCHANGED <<storeVars, slotVars, disp, refunds, overdue>>

ReadCountByUser(s) ==
  /\ At(s, "count_users")
  /\ swp' = [swp EXCEPT ![s].stage = @ + 1, ![s].byUser = ActiveCountByUser]
  /\ UNCHANGED <<storeVars, slotVars, disp, refunds, overdue>>

\* ... and applies them later, to the global counter before the users'.
CorrectSlots(s) ==
  /\ At(s, "correct")
  /\ ReconcileGlobal(swp[s].count)
  /\ swp' = [swp EXCEPT ![s].stage = @ + 1, ![s].count = 0]
  /\ UNCHANGED <<storeVars, userSlots, disp, refunds, overdue>>

CorrectUserSlots(s) ==
  /\ At(s, "correct_users")
  /\ ReconcileUsers(swp[s].byUser)
  /\ swp' = [swp EXCEPT ![s] = TickStart]
  /\ UNCHANGED <<storeVars, slots, disp, refunds, overdue>>

Reconcile(s) ==
  ReadCount(s) \/ ReadCountByUser(s) \/ CorrectSlots(s) \/ CorrectUserSlots(s)

\* The process dies or the tick aborts: what was still owed is never done.
SweeperCrash(s) ==
  /\ swp[s] # TickStart
  /\ Fault
  /\ swp' = [swp EXCEPT ![s] = TickStart]
  /\ UNCHANGED <<row, locked, calls, slotVars, disp, refunds, overdue>>

SweeperStep(s) ==
  \/ SweepWaiting(s) \/ SweepSubmitting(s) \/ SweepIngest(s) \/ SweepExpired(s)
  \/ SweepFailures(s) \/ SweeperRelease(s) \/ SweeperRefund(s)
  \/ NextStage(s) \/ Reconcile(s)
=============================================================================

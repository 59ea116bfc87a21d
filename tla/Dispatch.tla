------------------------------ MODULE Dispatch ------------------------------
(***************************************************************************)
(* The dispatch loop (worker/dispatch.py over jobs/dispatch.py): claim the *)
(* oldest QUEUED job and commit it SUBMITTING, take a global and a user    *)
(* slot, call the generation API, then write the outcome back.  The row    *)
(* lock is given up at the claim's commit, so the final commit is an       *)
(* UPDATE by primary key that looks at nothing the row may have become.    *)
(***************************************************************************)
EXTENDS Semaphore

CONSTANT Dispatchers    \* one dispatch loop per worker process

ASSUME DispatchAssumption == IsFiniteSet(Dispatchers)

VARIABLE disp   \* disp[d]: where loop d is, its job, new handle and 429 count

IdleDispatch ==
  [pc |-> "idle", job |-> NoJob, result |-> "none", task |-> NoTask, count |-> 0]

Failures == {"rate_limited", "rejected", "transient"}   \* client.create raised
Results == Failures \cup {"created", "denied"}

DispatchPCs ==
  {"idle", "acquire", "acquire_user", "rollback", "call", "release", "count",
   "correct", "commit"}

DispatchInit == disp = [d \in Dispatchers |-> IdleDispatch]

DispatchTypeOK ==
  disp \in [Dispatchers -> [pc : DispatchPCs, job : Jobs \cup {NoJob},
                            result : Results \cup {"none"},
                            task : Tasks \cup {NoTask}, count : Nat]]

Goto(d, pc) == disp' = [disp EXCEPT ![d].pc = pc]
GotoWith(d, pc, result) == disp' = [disp EXCEPT ![d].pc = pc, ![d].result = result]
User(d) == Owner[disp[d].job]

\* Loop d has a slot that it has neither given back nor passed on to the row.
HoldsSlot(d) ==
  \/ disp[d].pc \in {"call", "release"}
  \/ disp[d].pc = "commit" /\ disp[d].result = "created"

\* Loop d has flushed its job's row in a transaction it has not committed yet.
HasFlushed(d) ==
  \/ disp[d].pc = "correct"
  \/ disp[d].pc = "commit" /\ disp[d].result = "rate_limited"

\* claim_next_job, one transaction.
Claim(d) ==
  /\ disp[d].pc = "idle"
  /\ \E j \in Jobs :
       /\ Claims(j, {k \in InState({"QUEUED"}) : row[k].available})
       /\ row' = [row EXCEPT ![j].state = "SUBMITTING"]
       /\ disp' = [disp EXCEPT ![d] = [IdleDispatch EXCEPT !.pc = "acquire", !.job = j]]
  /\ UNCHANGED <<locked, calls, faults, slots, userSlots>>

\* RedisSemaphore.acquire, global leg.
AcquireGlobal(d) ==
  /\ disp[d].pc = "acquire"
  /\ \/ /\ BelowCap(slots, GlobalCap)
        /\ slots' = slots + 1
        /\ Goto(d, "acquire_user")
     \/ /\ ~BelowCap(slots, GlobalCap)
        /\ GotoWith(d, "commit", "denied")
        /\ UNCHANGED slots
  /\ UNCHANGED <<storeVars, userSlots>>

\* RedisSemaphore.acquire, user leg.
AcquireUser(d) ==
  /\ disp[d].pc = "acquire_user"
  /\ \/ /\ BelowCap(userSlots[User(d)], UserCap)
        /\ userSlots' = [userSlots EXCEPT ![User(d)] = @ + 1]
        /\ Goto(d, "call")
     \/ /\ ~BelowCap(userSlots[User(d)], UserCap)
        /\ Goto(d, "rollback")
        /\ UNCHANGED userSlots
  /\ UNCHANGED <<storeVars, slots>>

\* The user leg was denied: give the global slot back.
RollBackGlobal(d) ==
  /\ disp[d].pc = "rollback"
  /\ slots' = Decrement(slots)
  /\ GotoWith(d, "commit", "denied")
  /\ UNCHANGED <<storeVars, userSlots>>

\* client.create at the generation API.  A task can exist although the caller
\* saw an error: a timeout, a dropped connection or a malformed 200 body.
CallApi(d) ==
  LET j == disp[d].job IN
  /\ disp[d].pc = "call"
  /\ \/ /\ calls[j] < MaxCalls
        /\ calls' = [calls EXCEPT ![j] = @ + 1]
        /\ \/ disp' = [disp EXCEPT ![d].pc = "commit", ![d].result = "created",
                                   ![d].task = calls[j] + 1]
           \/ GotoWith(d, "release", "transient")
     \/ /\ \E f \in Failures : GotoWith(d, "release", f)
        /\ UNCHANGED calls
  /\ UNCHANGED <<row, locked, faults, slots, userSlots>>

\* _safe_release, before the row says anything about the failure.
DispatchRelease(d) ==
  /\ disp[d].pc = "release"
  /\ SafeRelease(User(d))
  /\ Goto(d, IF disp[d].result = "rate_limited" THEN "count" ELSE "commit")
  /\ UNCHANGED <<row, locked, calls>>

\* count_active_jobs in the job's own session: autoflush first sends the row's
\* pending UPDATE, so it sees its own job QUEUED and locks the row until commit.
CountActive(d) ==
  LET j == disp[d].job IN
  /\ disp[d].pc = "count"
  /\ j \notin locked
  /\ locked' = locked \cup {j}
  /\ disp' = [disp EXCEPT ![d].pc = "correct",
                          ![d].count = Cardinality(ActiveJobs \ {j})]
  /\ UNCHANGED <<row, calls, faults, slots, userSlots>>

\* _safe_reconcile: the global counter only, best effort.
CorrectGlobal(d) ==
  /\ disp[d].pc = "correct"
  /\ \/ ReconcileGlobal(disp[d].count) /\ UNCHANGED faults
     \/ Fault /\ UNCHANGED slots
  /\ Goto(d, "commit")
  /\ UNCHANGED <<row, locked, calls, userSlots>>

\* What each result writes to the row: UPDATE jobs SET ... WHERE job_id = j.
Written(r, result, task) ==
  CASE result = "created" -> [r EXCEPT !.state = "WAITING_FOR_WEBHOOK", !.task_id = task]
    [] result = "denied" -> [r EXCEPT !.state = "QUEUED"]
    [] result = "rejected" -> [r EXCEPT !.state = "FAILED"]
    [] OTHER -> [r EXCEPT !.state = "QUEUED", !.available = FALSE]   \* _apply_backoff

\* session.commit() in _drain_ready_jobs; it waits for a lock another one holds.
CommitResult(d) ==
  LET j == disp[d].job IN
  /\ disp[d].pc = "commit"
  /\ HasFlushed(d) \/ j \notin locked
  /\ row' = [row EXCEPT ![j] = Written(@, disp[d].result, disp[d].task)]
  /\ locked' = locked \ {j}
  /\ disp' = [disp EXCEPT ![d] = IdleDispatch]
  /\ UNCHANGED <<calls, faults, slots, userSlots>>

\* The process dies, or a Redis or Postgres error escapes to run_dispatch, which
\* starts over: an open transaction rolls back, everything else stays.
DispatchCrash(d) ==
  /\ disp[d].pc # "idle"
  /\ Fault
  /\ locked' = IF HasFlushed(d) THEN locked \ {disp[d].job} ELSE locked
  /\ disp' = [disp EXCEPT ![d] = IdleDispatch]
  /\ UNCHANGED <<row, calls, slots, userSlots>>

DispatchStep(d) ==
  \/ Claim(d) \/ AcquireGlobal(d) \/ AcquireUser(d) \/ RollBackGlobal(d)
  \/ CallApi(d) \/ DispatchRelease(d) \/ CountActive(d) \/ CorrectGlobal(d)
  \/ CommitResult(d)
=============================================================================

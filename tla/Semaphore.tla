----------------------------- MODULE Semaphore ------------------------------
(***************************************************************************)
(* The generation semaphore (jobs/semaphore.py): one global and one per-   *)
(* user counter in Redis.  Each Lua script is one atomic step.             *)
(***************************************************************************)
EXTENDS JobStore

CONSTANTS
  GlobalCap,   \* global_generation_concurrency
  UserCap      \* per_user_concurrent_jobs

ASSUME SemaphoreAssumption == GlobalCap \in Nat /\ UserCap \in Nat

VARIABLES
  slots,       \* the global counter
  userSlots    \* userSlots[u]: the counter of user u (0 when the key is missing)

slotVars == <<slots, userSlots>>

\* Mutated: the comparison is off by one.
BelowCapOffByOne(n, cap) == n <= cap

\* _TRY_INCREMENT_LUA succeeds iff the counter is below the cap.
BelowCap(n, cap) == n < cap

\* Mutated: no floor at 0.
DecrementPastZero(n) == n - 1

\* _DECREMENT_LUA
Decrement(n) == IF n > 0 THEN n - 1 ELSE n

\* Mutated: set the counter to the count that was read, up or down.
BlindSet(n, candidate) == candidate

\* _DECREASE_TO_LUA
DecreaseTo(n, candidate) == IF candidate < n THEN candidate ELSE n

\* RedisSemaphore.release: both counters, floored at 0.
Release(u) ==
  /\ slots' = Decrement(slots)
  /\ userSlots' = [userSlots EXCEPT ![u] = Decrement(@)]

\* Every _safe_release* wrapper: a Redis error before the first or between the
\* two decrements is logged and swallowed, and what was not released stays taken.
SafeRelease(u) ==
  \/ Release(u) /\ UNCHANGED faults
  \/ Fault /\ UNCHANGED userSlots /\ slots' \in {slots, Decrement(slots)}

\* reconcile_from_active_count
ReconcileGlobal(n) == slots' = DecreaseTo(slots, n)

\* Mutated: the users' counters are left out of the reconcile.
ReconcileNoUsers(byUser) == UNCHANGED userSlots

\* reconcile_user_from_active_count for every id scan_user_ids returns: a user
\* without a key has counter 0, which decrease_to leaves alone.
ReconcileUsers(byUser) ==
  userSlots' = [u \in Users |-> DecreaseTo(userSlots[u], byUser[u])]

SlotInit == slots = 0 /\ userSlots = [u \in Users |-> 0]

SlotTypeOK == slots \in Nat /\ userSlots \in [Users -> Nat]
=============================================================================

------------------------------- MODULE Quota -------------------------------
(***************************************************************************)
(* The daily quota around POST /create: the read-only check, the committed *)
(* row, the charge (web/rate_limit.py, web/routes/create.py) and the       *)
(* refund of a failed job (worker/watchdog.py).  Counters live in Redis,   *)
(* one per cookie and one per address and UTC day; every step below is one *)
(* await of the code.                                                      *)
(*                                                                         *)
(* Where a browser's identity comes from is module Page's subject: here a  *)
(* request comes with one.  Authenticated accounts are left out, as        *)
(* resolve_identity never makes one.                                       *)
(***************************************************************************)
EXTENDS Integers, FiniteSets

CONSTANTS
  Requests,     \* the POST /create requests of a run; each makes one job
  Identities,   \* the signed-cookie identities requests come with
  AddressOf,    \* AddressOf[i] is the client_ip of the browser that holds i
  CookieCap,    \* setting anon_daily_songs_per_cookie
  IpCap,        \* setting anon_daily_songs_per_ip
  LastDay,      \* bound: the last UTC day of a run (the first is 0)
  QuotaFaults   \* bound: crashes and Redis or NOTIFY errors in a run

Addresses == {AddressOf[i] : i \in Identities}
Days == 0..LastDay

ASSUME QuotaAssumption ==
  /\ IsFiniteSet(Requests) /\ IsFiniteSet(Identities) /\ Identities # {}
  /\ CookieCap \in Nat \ {0} /\ IpCap \in Nat \ {0}
  /\ LastDay \in Nat /\ QuotaFaults \in Nat

VARIABLES
  request,      \* request[r]: where the handler of r is, and for whom
  failure,      \* failure[r]: the row of r's job, as its failure is handled
  count,        \* count[k]: the Redis counter of key k
  today,        \* the current UTC day
  peak,         \* history: the most creates there ever were between check and charge
  taken,        \* history: the legs <<r, scope>> that were charged
  returned,     \* history: the legs that were refunded after their charge
  strays,       \* history: the legs that were refunded without a charge before
  quotaFaults

quotaVars == <<request, failure, count, today, peak, taken, returned, strays,
               quotaFaults>>
ledger == <<taken, returned, strays>>

(***************************************************************************)
(* Keys, scopes and counters.                                              *)
(***************************************************************************)
Scopes == {"cookie", "ip"}
Keys == [scope : {"cookie"}, who : Identities, day : Days]
          \cup [scope : {"ip"}, who : Addresses, day : Days]
Cap(scope) == IF scope = "cookie" THEN CookieCap ELSE IpCap

\* _scopes: the counter an anonymous identity runs on in each scope.
Leg(r, scope, day) ==
  [scope |-> scope, day |-> day,
   who |-> IF scope = "cookie" THEN request[r].identity
                               ELSE AddressOf[request[r].identity]]
Legs(r, day) == {Leg(r, s, day) : s \in Scopes}

\* Mutated: the day on which the refund is made.
RefundDayToday(r) == today

\* The bucket a refund goes to: the UTC day of Job.created_at.
RefundDay(r) == request[r].day

\* Mutated: DECR without the floor.
DecrementUnfloored(key) == [count EXCEPT ![key] = @ - 1]

\* _INCR_MANY_WITH_EXPIRY_LUA and _DECREMENT_LUA.
Increment(keys) == [k \in Keys |-> count[k] + IF k \in keys THEN 1 ELSE 0]
Decrement(key) == [count EXCEPT ![key] = IF @ > 0 THEN @ - 1 ELSE 0]

\* Mutated: a full counter has room for one more.
HasRoomAtCap(key) == count[key] <= Cap(key.scope)

\* RateLimiter.check, one scope.
HasRoom(key) == count[key] < Cap(key.scope)

CanFault == quotaFaults < QuotaFaults
Fault == CanFault /\ quotaFaults' = quotaFaults + 1
NoFault == UNCHANGED quotaFaults

At(r, pcs) == request[r].pc \in pcs
Goto(r, pc) == request' = [request EXCEPT ![r].pc = pc]

InCreate == {"check_cookie", "check_ip", "admitted", "committed"}
InFlight == {r \in Requests : At(r, InCreate)}

QuotaInit ==
  /\ request = [r \in Requests |->
                  [pc |-> "unsent", identity |-> CHOOSE i \in Identities : TRUE,
                   day |-> 0]]
  /\ failure = [r \in Requests |-> "no_row"]
  /\ count = [k \in Keys |-> 0]
  /\ today = 0
  /\ peak = 0
  /\ taken = {} /\ returned = {} /\ strays = {}
  /\ quotaFaults = 0

(***************************************************************************)
(* POST /create.                                                           *)
(***************************************************************************)
\* The bot check and the validation come first and may reject (403, 422).
Arrive(r, i) ==
  /\ At(r, {"unsent"})
  /\ \E pc \in {"check_cookie", "rejected"} :
       request' = [request EXCEPT ![r] = [pc |-> pc, identity |-> i, day |-> today]]
  /\ peak' = LET n == Cardinality(InFlight') IN IF n > peak THEN n ELSE peak
  /\ NoFault
  /\ UNCHANGED <<failure, count, today, ledger>>

\* Mutated: the gate charges what it admits, before there is a row.
CheckConsumes(r) ==
  /\ At(r, {"check_cookie"})
  /\ \/ /\ \A leg \in Legs(r, request[r].day) : HasRoom(leg)
        /\ Goto(r, "admitted")
        /\ count' = Increment(Legs(r, request[r].day))
        /\ taken' = taken \cup ({r} \X Scopes)
     \/ /\ \E leg \in Legs(r, request[r].day) : ~HasRoom(leg)
        /\ Goto(r, "rejected")
        /\ UNCHANGED <<count, taken>>
  /\ NoFault
  /\ UNCHANGED <<failure, today, peak, returned, strays>>

\* RateLimiter.check reads its scopes one after the other, for the day on
\* which it started, and denies (429) at the first full one.
Check(r) ==
  /\ \/ /\ At(r, {"check_cookie"})
        /\ Goto(r, IF HasRoom(Leg(r, "cookie", request[r].day))
                   THEN "check_ip" ELSE "rejected")
     \/ /\ At(r, {"check_ip"})
        /\ Goto(r, IF HasRoom(Leg(r, "ip", request[r].day))
                   THEN "admitted" ELSE "rejected")
  /\ NoFault
  /\ UNCHANGED <<failure, count, today, peak, ledger>>

\* The QUEUED row is committed; created_at gives it its day.
Commit(r) ==
  /\ At(r, {"admitted"})
  /\ request' = [request EXCEPT ![r].pc = "committed", ![r].day = today]
  /\ failure' = [failure EXCEPT ![r] = "active"]
  /\ NoFault
  /\ UNCHANGED <<count, today, peak, ledger>>

\* RateLimiter.charge: every leg in one script, or none when Redis fails.
Charge(r) ==
  /\ At(r, {"committed"})
  /\ Goto(r, "charged")
  /\ \/ /\ count' = Increment(Legs(r, request[r].day))
        /\ taken' = taken \cup ({r} \X Scopes)
        /\ NoFault
     \/ Fault /\ UNCHANGED <<count, taken>>
  /\ UNCHANGED <<failure, today, peak, returned, strays>>

\* The web instance dies, or the client goes away, between two awaits.
CrashCreate(r) ==
  /\ At(r, InCreate)
  /\ Goto(r, "dead")
  /\ Fault
  /\ UNCHANGED <<failure, count, today, peak, ledger>>

(***************************************************************************)
(* The job fails, a watchdog stamps its row and hands the slot back.       *)
(***************************************************************************)
HandleFailure(r) ==
  /\ failure[r] = "active"
  /\ failure' = [failure EXCEPT ![r] = "refund_cookie"]
  /\ NoFault
  /\ UNCHANGED <<request, count, today, peak, ledger>>

\* RateLimiter.refund: one decrement per scope, each an await of its own.
RefundLeg(r, scope) ==
  /\ count' = Decrement(Leg(r, scope, RefundDay(r)))
  /\ IF <<r, scope>> \in taken
     THEN returned' = returned \cup {<<r, scope>>} /\ UNCHANGED strays
     ELSE strays' = strays \cup {<<r, scope>>} /\ UNCHANGED returned
  /\ UNCHANGED taken

Refund(r) ==
  /\ \/ /\ failure[r] = "refund_cookie"
        /\ failure' = [failure EXCEPT ![r] = "refund_ip"]
        /\ RefundLeg(r, "cookie")
     \/ /\ failure[r] = "refund_ip"
        /\ failure' = [failure EXCEPT ![r] = "handled"]
        /\ RefundLeg(r, "ip")
  /\ NoFault
  /\ UNCHANGED <<request, today, peak>>

\* A Redis error or a crash between the stamp and a leg: what is left is lost.
LoseRefund(r) ==
  /\ failure[r] \in {"refund_cookie", "refund_ip"}
  /\ failure' = [failure EXCEPT ![r] = "handled"]
  /\ Fault
  /\ UNCHANGED <<request, count, today, peak, ledger>>

(***************************************************************************)
(* Time: UTC midnight, and the expiry of a bucket of an earlier day.       *)
(***************************************************************************)
Midnight ==
  /\ today < LastDay
  /\ today' = today + 1
  /\ NoFault
  /\ UNCHANGED <<request, failure, count, peak, ledger>>

Expire(k) ==
  /\ k.day < today /\ count[k] > 0
  /\ count' = [count EXCEPT ![k] = 0]
  /\ NoFault
  /\ UNCHANGED <<request, failure, today, peak, ledger>>

QuotaNext ==
  \/ \E r \in Requests :
       \/ \E i \in Identities : Arrive(r, i)
       \/ Check(r) \/ Commit(r) \/ Charge(r) \/ CrashCreate(r)
       \/ HandleFailure(r) \/ Refund(r) \/ LoseRefund(r)
  \/ Midnight
  \/ \E k \in Keys : Expire(k)

QuotaSpec == QuotaInit /\ [][QuotaNext]_quotaVars

(***************************************************************************)
(* Properties.                                                             *)
(***************************************************************************)
QuotaTypeOK ==
  /\ request \in [Requests ->
       [pc : InCreate \cup {"unsent", "rejected", "charged", "dead"},
        identity : Identities, day : Days]]
  /\ failure \in [Requests -> {"no_row", "active", "refund_cookie", "refund_ip", "handled"}]
  /\ count \in [Keys -> Nat]
  /\ today \in Days /\ peak \in 0..Cardinality(Requests)
  /\ taken \subseteq Requests \X Scopes
  /\ returned \subseteq taken /\ strays \subseteq Requests \X Scopes
  /\ quotaFaults \in 0..QuotaFaults

\* The charges and the strays of one counter.
On(legs, k) == {l \in legs : Leg(l[1], l[2], request[l[1]].day) = k}

\* Over-admission is bounded by concurrency alone: however creates, crashes,
\* refunds and midnights interleave, a counter passes its cap by at most the
\* number of creates that were ever between check and charge together, less one.
OverAdmissionBounded == \A k \in Keys : count[k] <= Cap(k.scope) + peak - 1

\* A counter never shows more than the charged slots that were not handed back,
\* and, until its bucket expires, less only by the refunds that came before or
\* without the charge of their job: charge and refund hit the same bucket,
\* also across midnight, and no refund is applied twice.
CountersMatchJobs ==
  \A k \in Keys :
    LET live == Cardinality(On(taken \ returned, k))
    IN  /\ count[k] <= live
        /\ k.day = today => live - Cardinality(On(strays, k)) <= count[k]

\* The durability boundary of create_job: a slot is only ever held by a job whose
\* row is committed, wherever the handler crashed.
NoSlotWithoutJob ==
  \A k \in Keys : count[k] <= Cardinality(
    {r \in Requests : /\ failure[r] # "no_row"
                      /\ k \in Legs(r, request[r].day)
                      /\ <<r, k.scope>> \notin returned})
=============================================================================

----------------------------- MODULE QuotaProofs -----------------------------
(***************************************************************************)
(* Proofs about module Quota, for any number of requests, browsers, days   *)
(* and faults.                                                             *)
(*                                                                         *)
(* What a counter shows is compared with the legs that were charged to it. *)
(* A job's legs can be told apart, and stay on one counter, because its    *)
(* day is fixed before it is charged or refunded.  The bound on            *)
(* over-admission counts, beside what a counter shows, the creates that    *)
(* may still be charged to it without looking at it again.                 *)
(***************************************************************************)
EXTENDS Quota, FiniteSetTheorems, TLAPS

-----------------------------------------------------------------------------
(* Requests, their jobs and their legs *)

Uncommitted == {"unsent", "check_cookie", "check_ip", "admitted", "rejected"}

\* A request has a row once it is committed, and from then on its day is fixed.
RequestInv ==
  /\ \A r \in Requests : request[r].day <= today
  /\ \A r \in Requests : At(r, Uncommitted) => failure[r] = "no_row"
  /\ \A r \in Requests : At(r, {"committed", "charged"}) => failure[r] # "no_row"

\* Only a charge takes legs, and a leg is given back once, by the refund's turn for it.
LegsInv ==
  /\ \A r \in Requests, s \in Scopes : <<r, s>> \in taken => At(r, {"charged"})
  /\ \A r \in Requests, s \in Scopes : <<r, s>> \in taken \cup strays => failure[r] # "no_row"
  /\ \A r \in Requests : failure[r] \in {"no_row", "active", "refund_cookie"} =>
       <<r, "cookie">> \notin returned \cup strays
  /\ \A r \in Requests : failure[r] \in {"no_row", "active", "refund_cookie", "refund_ip"} =>
       <<r, "ip">> \notin returned \cup strays

HandlersInv == QuotaTypeOK /\ RequestInv /\ LegsInv

LEMMA LegIsKey ==
  ASSUME QuotaTypeOK, NEW r \in Requests, NEW s \in Scopes, NEW d \in Days
  PROVE  Leg(r, s, d) \in Keys /\ Leg(r, s, d).scope = s /\ Leg(r, s, d).day = d
<1>1. request[r].identity \in Identities
  BY DEF QuotaTypeOK
<1>2. AddressOf[request[r].identity] \in Addresses
  BY <1>1 DEF Addresses
<1> QED
  BY <1>1, <1>2 DEF Leg, Keys, Scopes

\* What the requests' own steps do to the type of the counters and of the requests.
LEMMA CountersTyped ==
  ASSUME QuotaTypeOK
  PROVE  /\ \A keys : Increment(keys) \in [Keys -> Nat]
         /\ \A k \in Keys : Decrement(k) \in [Keys -> Nat]
         /\ \A k \in Keys : [count EXCEPT ![k] = 0] \in [Keys -> Nat]
<1>1. count \in [Keys -> Nat]
  BY DEF QuotaTypeOK
<1>2. ASSUME NEW keys PROVE Increment(keys) \in [Keys -> Nat]
  BY <1>1 DEF Increment
<1>3. ASSUME NEW k \in Keys PROVE Decrement(k) \in [Keys -> Nat]
  <2>1. count[k] \in Nat /\ (IF count[k] > 0 THEN count[k] - 1 ELSE count[k]) \in Nat
    BY <1>1
  <2> QED
    BY <1>1, <2>1 DEF Decrement
<1>4. ASSUME NEW k \in Keys PROVE [count EXCEPT ![k] = 0] \in [Keys -> Nat]
  BY <1>1
<1> QED
  BY <1>2, <1>3, <1>4

LEMMA RequestsCounted ==
  ASSUME NEW S, S \subseteq Requests
  PROVE  /\ IsFiniteSet(S) /\ Cardinality(S) \in 0..Cardinality(Requests)
         /\ Cardinality(Requests) \in Nat
BY QuotaAssumption, FS_Subset, FS_CardinalityType

\* A leg that is refunded goes to returned if it was taken, else to strays.
LEMMA RefundedLegs ==
  ASSUME HandlersInv, NEW r \in Requests, NEW s \in Scopes, RefundLeg(r, s)
  PROVE  /\ taken' = taken /\ returned' \subseteq taken' /\ strays' \subseteq Requests \X Scopes
         /\ returned' \cup strays' = returned \cup strays \cup {<<r, s>>}
BY DEF HandlersInv, QuotaTypeOK, RefundLeg

LEMMA HandlersStart == QuotaInit => HandlersInv
<1> SUFFICES ASSUME QuotaInit PROVE HandlersInv
  OBVIOUS
<1>1. (CHOOSE i \in Identities : TRUE) \in Identities
  BY QuotaAssumption
<1>2. 0 \in Days /\ 0 \in 0..QuotaFaults /\ 0 \in 0..Cardinality(Requests)
  BY RequestsCounted, QuotaAssumption DEF Days
<1> QED
  BY <1>1, <1>2 DEF QuotaInit, HandlersInv, QuotaTypeOK, RequestInv, LegsInv, At, InCreate

LEMMA HandlersKeep == HandlersInv /\ [QuotaNext]_quotaVars => HandlersInv'
<1> SUFFICES ASSUME HandlersInv, [QuotaNext]_quotaVars PROVE HandlersInv'
  OBVIOUS
<1>0. /\ request \in [Requests ->
            [pc : InCreate \cup {"unsent", "rejected", "charged", "dead"},
             identity : Identities, day : Days]]
      /\ failure \in [Requests -> {"no_row", "active", "refund_cookie", "refund_ip", "handled"}]
      /\ count \in [Keys -> Nat] /\ today \in Days
      /\ peak \in 0..Cardinality(Requests)
      /\ taken \subseteq Requests \X Scopes
      /\ returned \subseteq taken /\ strays \subseteq Requests \X Scopes
      /\ quotaFaults \in 0..QuotaFaults
  BY DEF HandlersInv, QuotaTypeOK
<1>a. Fault \/ NoFault => quotaFaults' \in 0..QuotaFaults
  BY <1>0, QuotaAssumption DEF Fault, NoFault, CanFault
<1>b. RequestInv /\ LegsInv /\ QuotaTypeOK
  BY DEF HandlersInv
<1>1. CASE UNCHANGED quotaVars
  BY <1>1 DEF quotaVars, ledger, HandlersInv, QuotaTypeOK, RequestInv, LegsInv, At
<1>2. ASSUME NEW r \in Requests, NEW i \in Identities, Arrive(r, i) PROVE HandlersInv'
  <2>1. PICK pc \in {"check_cookie", "rejected"} :
          request' = [request EXCEPT ![r] = [pc |-> pc, identity |-> i, day |-> today]]
    BY <1>2 DEF Arrive
  <2>2. request[r].pc = "unsent" /\ UNCHANGED <<failure, count, today, taken, returned, strays>>
    BY <1>2 DEF Arrive, At, ledger
  <2>3. peak' \in 0..Cardinality(Requests)
    <3>1. Cardinality(InFlight') \in 0..Cardinality(Requests)
      BY RequestsCounted DEF InFlight
    <3> QED
      BY <1>0, <1>2, <3>1 DEF Arrive
  <2>4. QuotaTypeOK'
    <3>1. request' \in [Requests -> [pc : InCreate \cup {"unsent", "rejected", "charged", "dead"},
                          identity : Identities, day : Days]]
      BY <1>0, <2>1 DEF InCreate
    <3> QED
      BY <1>0, <1>a, <1>2, <2>2, <2>3, <3>1 DEF QuotaTypeOK, Arrive
  <2>5. RequestInv' /\ LegsInv'
    BY <1>0, <1>b, <2>1, <2>2 DEF RequestInv, LegsInv, At, Uncommitted, Days
  <2> QED
    BY <2>4, <2>5 DEF HandlersInv
<1>3. ASSUME NEW r \in Requests, NEW pc, request' = [request EXCEPT ![r].pc = pc],
             UNCHANGED <<failure, today, peak, returned, strays>>,
             quotaFaults' \in 0..QuotaFaults, count' \in [Keys -> Nat],
             \/ /\ taken' = taken
                /\ \/ request[r].pc \in Uncommitted /\ pc \in Uncommitted
                   \/ request[r].pc \in InCreate /\ pc = "dead"
                   \/ request[r].pc = "committed" /\ pc = "charged"
             \/ /\ request[r].pc = "committed" /\ pc = "charged"
                /\ taken' = taken \cup ({r} \X Scopes)
      PROVE  HandlersInv'
  <2>1. request' \in [Requests -> [pc : InCreate \cup {"unsent", "rejected", "charged", "dead"},
                        identity : Identities, day : Days]]
    BY <1>0, <1>3 DEF InCreate, Uncommitted
  <2>2. QuotaTypeOK'
    BY <1>0, <1>3, <2>1 DEF QuotaTypeOK
  <2>3. RequestInv'
    BY <1>0, <1>b, <1>3 DEF RequestInv, At, Uncommitted, InCreate
  <2>4. LegsInv'
    BY <1>0, <1>b, <1>3 DEF RequestInv, LegsInv, At, Uncommitted, InCreate
  <2> QED
    BY <2>2, <2>3, <2>4 DEF HandlersInv
<1>4. ASSUME NEW r \in Requests, Check(r) PROVE HandlersInv'
  <2>1. \E pc \in {"check_ip", "admitted", "rejected"} : request' = [request EXCEPT ![r].pc = pc]
    BY <1>4 DEF Check, Goto
  <2>2. /\ request[r].pc \in {"check_cookie", "check_ip"}
        /\ UNCHANGED <<failure, count, today, peak, taken, returned, strays>>
        /\ quotaFaults' \in 0..QuotaFaults
    BY <1>a, <1>4 DEF Check, At, ledger
  <2> QED
    BY <1>0, <1>3, <2>1, <2>2 DEF Uncommitted
<1>5. ASSUME NEW r \in Requests, Commit(r) PROVE HandlersInv'
  <2>1. /\ request[r].pc = "admitted"
        /\ request' = [request EXCEPT ![r].pc = "committed", ![r].day = today]
        /\ failure' = [failure EXCEPT ![r] = "active"]
        /\ UNCHANGED <<count, today, peak, taken, returned, strays>>
        /\ quotaFaults' \in 0..QuotaFaults
    BY <1>a, <1>5 DEF Commit, At, ledger
  <2>2. request'[r] = [pc |-> "committed", identity |-> request[r].identity, day |-> today]
    BY <1>0, <2>1
  <2>3. \A q \in Requests : q # r => request'[q] = request[q]
    BY <1>0, <2>1
  <2>4. request' \in [Requests -> [pc : InCreate \cup {"unsent", "rejected", "charged", "dead"},
                        identity : Identities, day : Days]]
    BY <1>0, <2>1, <2>2, <2>3 DEF InCreate
  <2>5. QuotaTypeOK'
    BY <1>0, <2>1, <2>4 DEF QuotaTypeOK
  <2>6. RequestInv' /\ LegsInv'
    BY <1>0, <1>b, <2>1, <2>2, <2>3 DEF RequestInv, LegsInv, At, Uncommitted, Days
  <2> QED
    BY <2>5, <2>6 DEF HandlersInv
<1>6. ASSUME NEW r \in Requests, Charge(r) PROVE HandlersInv'
  <2>1. /\ request[r].pc = "committed" /\ request' = [request EXCEPT ![r].pc = "charged"]
        /\ UNCHANGED <<failure, today, peak, returned, strays>>
        /\ quotaFaults' \in 0..QuotaFaults /\ count' \in [Keys -> Nat]
        /\ taken' \in {taken, taken \cup ({r} \X Scopes)}
    BY <1>0, <1>a, <1>b, <1>6, CountersTyped DEF Charge, At, Goto
  <2> QED
    BY <1>3, <2>1
<1>7. ASSUME NEW r \in Requests, CrashCreate(r) PROVE HandlersInv'
  BY <1>0, <1>3, <1>a, <1>7 DEF CrashCreate, At, Goto, ledger
<1>8. ASSUME NEW r \in Requests, HandleFailure(r) \/ LoseRefund(r) PROVE HandlersInv'
  <2>1. /\ UNCHANGED <<request, count, today, peak, taken, returned, strays>>
        /\ failure[r] \in {"active", "refund_cookie", "refund_ip"}
        /\ failure' \in {[failure EXCEPT ![r] = "refund_cookie"], [failure EXCEPT ![r] = "handled"]}
        /\ failure[r] # "active" => failure' = [failure EXCEPT ![r] = "handled"]
        /\ quotaFaults' \in 0..QuotaFaults
    BY <1>a, <1>8 DEF HandleFailure, LoseRefund, ledger
  <2>2. QuotaTypeOK'
    BY <1>0, <2>1 DEF QuotaTypeOK
  <2>3. RequestInv' /\ LegsInv'
    BY <1>0, <1>b, <2>1 DEF RequestInv, LegsInv, At
  <2> QED
    BY <2>2, <2>3 DEF HandlersInv
<1>9. ASSUME NEW r \in Requests, Refund(r) PROVE HandlersInv'
  <2>1. PICK s \in Scopes :
          /\ RefundLeg(r, s)
          /\ \/ /\ s = "cookie" /\ failure[r] = "refund_cookie"
                /\ failure' = [failure EXCEPT ![r] = "refund_ip"]
             \/ /\ s = "ip" /\ failure[r] = "refund_ip"
                /\ failure' = [failure EXCEPT ![r] = "handled"]
    BY <1>9 DEF Refund, Scopes
  <2>2. /\ taken' = taken /\ returned' \subseteq taken' /\ strays' \subseteq Requests \X Scopes
        /\ returned' \cup strays' = returned \cup strays \cup {<<r, s>>}
    BY <2>1, RefundedLegs
  <2>3. UNCHANGED <<request, today, peak>> /\ quotaFaults' \in 0..QuotaFaults
    BY <1>a, <1>9 DEF Refund
  <2>4. QuotaTypeOK'
    <3>1. count' \in [Keys -> Nat]
      <4>1. Leg(r, s, request[r].day) \in Keys
        BY <1>0, <1>b, LegIsKey
      <4> QED
        BY <1>b, <2>1, <4>1, CountersTyped DEF RefundLeg, RefundDay
    <3>2. failure' \in [Requests -> {"no_row", "active", "refund_cookie", "refund_ip", "handled"}]
      BY <1>0, <2>1
    <3> QED
      BY <1>0, <2>2, <2>3, <3>1, <3>2 DEF QuotaTypeOK
  <2>5. RequestInv'
    BY <1>0, <1>b, <2>1, <2>3 DEF RequestInv, At
  <2>6. LegsInv'
    <3>1. \A q \in Requests, t \in Scopes :
            <<q, t>> \in strays' \cup returned' => <<q, t>> \in returned \cup strays \/ (q = r /\ t = s)
      BY <2>2
    <3>2. \A q \in Requests, t \in Scopes :
            <<q, t>> \in taken' \cup strays' => <<q, t>> \in taken \cup strays \/ q = r
      BY <1>0, <2>2, <3>1
    <3>3. /\ \A q \in Requests, t \in Scopes : <<q, t>> \in taken' => At(q, {"charged"})'
          /\ \A q \in Requests, t \in Scopes : <<q, t>> \in taken' \cup strays' => failure'[q] # "no_row"
      BY <1>0, <1>b, <2>1, <2>2, <2>3, <3>2 DEF LegsInv, At
    <3>4. \A q \in Requests : failure'[q] \in {"no_row", "active", "refund_cookie"} =>
            <<q, "cookie">> \notin returned' \cup strays'
      BY <1>0, <1>b, <2>1, <3>1 DEF LegsInv, Scopes
    <3>5. \A q \in Requests : failure'[q] \in {"no_row", "active", "refund_cookie", "refund_ip"} =>
            <<q, "ip">> \notin returned' \cup strays'
      BY <1>0, <1>b, <2>1, <3>1 DEF LegsInv, Scopes
    <3> QED
      BY <3>3, <3>4, <3>5 DEF LegsInv
  <2> QED
    BY <2>4, <2>5, <2>6 DEF HandlersInv
<1>10. CASE Midnight
  <2>1. today' = today + 1 /\ today' \in Days
    BY <1>0, <1>10, QuotaAssumption DEF Midnight, Days
  <2> QED
    BY <1>0, <1>a, <1>b, <1>10, <2>1 DEF Midnight, ledger, HandlersInv, QuotaTypeOK, RequestInv,
       LegsInv, At, Days
<1>11. ASSUME NEW k \in Keys, Expire(k) PROVE HandlersInv'
  <2>1. count' \in [Keys -> Nat]
    BY <1>b, <1>11, CountersTyped DEF Expire
  <2> QED
    BY <1>0, <1>a, <1>b, <1>11, <2>1 DEF Expire, ledger, HandlersInv, QuotaTypeOK, RequestInv,
       LegsInv, At
<1> QED
  BY <1>1, <1>2, <1>4, <1>5, <1>6, <1>7, <1>8, <1>9, <1>10, <1>11 DEF QuotaNext

LEMMA HandlersInvariant == QuotaSpec => []HandlersInv
BY HandlersStart, HandlersKeep, PTL DEF QuotaSpec

-----------------------------------------------------------------------------
(* What a counter shows, and what was charged to it *)

LiveOn(k) == On(taken \ returned, k)
StraysOn(k) == On(strays, k)

\* CountersMatchJobs, for the days to come as well: their counters are charged by nobody.
CountersInv ==
  \A k \in Keys : /\ count[k] <= Cardinality(LiveOn(k))
                  /\ k.day >= today => Cardinality(LiveOn(k)) - Cardinality(StraysOn(k)) <= count[k]

\* The steps that move a leg are a charge and a refund; nothing else moves a counter,
\* except the expiry of an earlier day's.
Charged(r) ==
  /\ At(r, {"committed"})
  /\ count' = Increment(Legs(r, request[r].day))
  /\ taken' = taken \cup ({r} \X Scopes)
  /\ UNCHANGED <<returned, strays>>
Refunded(r, s) ==
  /\ failure[r] = IF s = "cookie" THEN "refund_cookie" ELSE "refund_ip"
  /\ RefundLeg(r, s)
Expired(k) == k.day < today /\ count' = [count EXCEPT ![k] = 0] /\ UNCHANGED ledger

LEMMA LedgerSteps ==
  ASSUME [QuotaNext]_quotaVars
  PROVE  \/ UNCHANGED <<count, ledger>>
         \/ \E r \in Requests : Charged(r)
         \/ \E r \in Requests, s \in Scopes : Refunded(r, s)
         \/ \E k \in Keys : Expired(k)
<1>1. ASSUME NEW r \in Requests, Charge(r) PROVE UNCHANGED <<count, ledger>> \/ Charged(r)
  BY <1>1 DEF Charge, Charged, ledger
<1>2. ASSUME NEW r \in Requests, Refund(r) PROVE \E s \in Scopes : Refunded(r, s)
  BY <1>2 DEF Refund, Refunded, Scopes
<1>3. ASSUME NEW k \in Keys, Expire(k) PROVE Expired(k)
  BY <1>3 DEF Expire, Expired
<1>4. ASSUME UNCHANGED quotaVars \/ Midnight PROVE UNCHANGED <<count, ledger>>
  BY <1>4 DEF quotaVars, Midnight, ledger
<1>5. ASSUME NEW r \in Requests,
             \/ \E i \in Identities : Arrive(r, i)
             \/ Check(r) \/ Commit(r) \/ CrashCreate(r) \/ HandleFailure(r) \/ LoseRefund(r)
      PROVE  UNCHANGED <<count, ledger>>
  BY <1>5 DEF Arrive, Check, Commit, CrashCreate, HandleFailure, LoseRefund
<1> QED
  BY <1>1, <1>2, <1>3, <1>4, <1>5 DEF QuotaNext

\* Whose job has a row keeps its identity and its day.
LEMMA RowFixesLegs ==
  ASSUME HandlersInv, [QuotaNext]_quotaVars, NEW r \in Requests, failure[r] # "no_row"
  PROVE  request'[r].identity = request[r].identity /\ request'[r].day = request[r].day
<1>0. /\ request \in [Requests ->
            [pc : InCreate \cup {"unsent", "rejected", "charged", "dead"},
             identity : Identities, day : Days]]
      /\ ~At(r, Uncommitted)
  BY DEF HandlersInv, QuotaTypeOK, RequestInv
<1>1. CASE UNCHANGED request
  BY <1>1
<1>2. ASSUME NEW q \in Requests, NEW i \in Identities, Arrive(q, i) PROVE request'[r] = request[r]
  BY <1>0, <1>2 DEF Arrive, At, Uncommitted
<1>3. ASSUME NEW q \in Requests, Commit(q) PROVE request'[r] = request[r]
  BY <1>0, <1>3 DEF Commit, At, Uncommitted
<1>4. ASSUME NEW q \in Requests, Check(q) \/ Charge(q) \/ CrashCreate(q)
      PROVE  request'[r].identity = request[r].identity /\ request'[r].day = request[r].day
  <2>1. \E pc : request' = [request EXCEPT ![q].pc = pc]
    BY <1>4 DEF Check, Charge, CrashCreate, Goto
  <2> QED
    BY <1>0, <2>1
<1>5. ASSUME NEW q \in Requests, HandleFailure(q) \/ Refund(q) \/ LoseRefund(q)
      PROVE  UNCHANGED request
  BY <1>5 DEF HandleFailure, Refund, LoseRefund
<1>6. UNCHANGED quotaVars \/ Midnight \/ (\E k \in Keys : Expire(k)) => UNCHANGED request
  BY DEF quotaVars, Midnight, Expire
<1> QED
  BY <1>1, <1>2, <1>3, <1>4, <1>5, <1>6 DEF QuotaNext

LEMMA LegsHaveRows ==
  ASSUME HandlersInv, [QuotaNext]_quotaVars, NEW r \in Requests, NEW s \in Scopes,
         <<r, s>> \in taken' \cup strays'
  PROVE  failure[r] # "no_row"
<1>0. RequestInv /\ LegsInv
  BY DEF HandlersInv
<1>1. CASE UNCHANGED <<count, ledger>> \/ \E k \in Keys : Expired(k)
  BY <1>0, <1>1 DEF LegsInv, Expired, ledger
<1>2. ASSUME NEW q \in Requests, Charged(q) PROVE failure[r] # "no_row"
  <2>1. <<r, s>> \in taken \cup strays \/ r = q
    BY <1>2 DEF Charged
  <2> QED
    BY <1>0, <1>2, <2>1 DEF Charged, At, RequestInv, LegsInv
<1>3. ASSUME NEW q \in Requests, NEW t \in Scopes, Refunded(q, t) PROVE failure[r] # "no_row"
  <2>1. <<r, s>> \in taken \cup strays \/ r = q
    BY <1>3 DEF Refunded, RefundLeg
  <2> QED
    BY <1>0, <1>3, <2>1 DEF Refunded, LegsInv
<1> QED
  BY <1>1, <1>2, <1>3, LedgerSteps

\* So the legs of a counter are the same before and after a step, but for those it moves.
LEMMA LegsStay ==
  ASSUME HandlersInv, HandlersInv', [QuotaNext]_quotaVars, NEW k
  PROVE  LiveOn(k)' = On(taken' \ returned', k) /\ StraysOn(k)' = On(strays', k)
<1>1. ASSUME NEW l \in taken' \cup strays'
      PROVE  Leg(l[1], l[2], request[l[1]].day)' = Leg(l[1], l[2], request[l[1]].day)
  <2>1. l \in Requests \X Scopes
    BY DEF HandlersInv, QuotaTypeOK
  <2>2. l[1] \in Requests /\ l[2] \in Scopes /\ l = <<l[1], l[2]>>
    BY <2>1
  <2>3. failure[l[1]] # "no_row"
    BY <2>2, LegsHaveRows
  <2> QED
    BY <2>2, <2>3, RowFixesLegs DEF Leg
<1> QED
  BY <1>1 DEF LiveOn, StraysOn, On

LEMMA LegsCounted ==
  ASSUME NEW L, L \subseteq Requests \X Scopes, NEW k
  PROVE  IsFiniteSet(On(L, k)) /\ Cardinality(On(L, k)) \in Nat
<1>1. IsFiniteSet(Scopes)
  <2>1. Scopes = ({} \cup {"cookie"}) \cup {"ip"}
    BY DEF Scopes
  <2> QED
    BY <2>1, FS_EmptySet, FS_AddElement
<1>2. IsFiniteSet(Requests \X Scopes)
  BY <1>1, QuotaAssumption, FS_Product
<1>3. On(L, k) \subseteq Requests \X Scopes
  BY DEF On
<1> QED
  BY <1>2, <1>3, FS_Subset, FS_CardinalityType

\* One leg more is one more on its own counter, and none on any other.
One(cond) == IF cond THEN 1 ELSE 0

LEMMA LegAdded ==
  ASSUME NEW L, L \subseteq Requests \X Scopes, NEW r, NEW s, <<r, s>> \notin L, NEW k
  PROVE  Cardinality(On(L \cup {<<r, s>>}, k))
           = Cardinality(On(L, k)) + One(Leg(r, s, request[r].day) = k)
<1>1. IsFiniteSet(On(L, k)) /\ Cardinality(On(L, k)) \in Nat
  BY LegsCounted
<1>2. CASE Leg(r, s, request[r].day) = k
  <2>1. On(L \cup {<<r, s>>}, k) = On(L, k) \cup {<<r, s>>} /\ <<r, s>> \notin On(L, k)
    BY <1>2 DEF On
  <2>2. Cardinality(On(L, k) \cup {<<r, s>>}) = Cardinality(On(L, k)) + 1
    BY <1>1, <2>1, FS_AddElement
  <2> QED
    BY <1>2, <2>1, <2>2 DEF One
<1>3. CASE Leg(r, s, request[r].day) # k
  <2>1. On(L \cup {<<r, s>>}, k) = On(L, k)
    BY <1>3 DEF On
  <2> QED
    BY <1>1, <1>3, <2>1 DEF One
<1> QED
  BY <1>2, <1>3

LEMMA ChargeCounts ==
  ASSUME HandlersInv, NEW r \in Requests, Charged(r), NEW k \in Keys
  PROVE  /\ count'[k] = count[k] + One(k \in Legs(r, request[r].day))
         /\ Cardinality(On(taken' \ returned', k))
              = Cardinality(LiveOn(k)) + One(k \in Legs(r, request[r].day))
         /\ strays' = strays
<1> DEFINE L == taken \ returned
           c == <<r, "cookie">>   a == <<r, "ip">>
<1>0. QuotaTypeOK /\ RequestInv /\ LegsInv /\ L \subseteq Requests \X Scopes
  BY DEF HandlersInv, QuotaTypeOK
<1>1. c \notin taken /\ a \notin taken /\ returned \subseteq taken /\ c # a
  BY <1>0 DEF LegsInv, Charged, At, QuotaTypeOK, Scopes
<1>2. taken' \ returned' = (L \cup {c}) \cup {a}
  BY <1>1 DEF Charged, Scopes
<1>3. c \notin L /\ a \notin L \cup {c} /\ L \cup {c} \subseteq Requests \X Scopes
  BY <1>0, <1>1 DEF Scopes
<1>4. /\ Cardinality(On(L \cup {c}, k))
           = Cardinality(On(L, k)) + One(Leg(r, "cookie", request[r].day) = k)
      /\ Cardinality(On((L \cup {c}) \cup {a}, k))
           = Cardinality(On(L \cup {c}, k)) + One(Leg(r, "ip", request[r].day) = k)
  <2> HIDE DEF L
  <2>1. Cardinality(On(L \cup {c}, k))
           = Cardinality(On(L, k)) + One(Leg(r, "cookie", request[r].day) = k)
    BY <1>0, <1>3, LegAdded
  <2>2. Cardinality(On((L \cup {c}) \cup {a}, k))
           = Cardinality(On(L \cup {c}, k)) + One(Leg(r, "ip", request[r].day) = k)
    <3> DEFINE M == L \cup {c}
    <3>1. M \subseteq Requests \X Scopes /\ <<r, "ip">> \notin M
      BY <1>3
    <3> HIDE DEF M
    <3>2. Cardinality(On(M \cup {<<r, "ip">>}, k))
            = Cardinality(On(M, k)) + One(Leg(r, "ip", request[r].day) = k)
      BY <3>1, LegAdded
    <3> QED
      BY <3>2 DEF M
  <2> QED
    BY <2>1, <2>2
<1>5. One(Leg(r, "cookie", request[r].day) = k) + One(Leg(r, "ip", request[r].day) = k)
        = One(k \in Legs(r, request[r].day))
  <2>1. Leg(r, "cookie", request[r].day) # Leg(r, "ip", request[r].day)
    BY DEF Leg
  <2>2. k \in Legs(r, request[r].day) <=>
          Leg(r, "cookie", request[r].day) = k \/ Leg(r, "ip", request[r].day) = k
    BY DEF Legs, Scopes
  <2> QED
    BY <2>1, <2>2 DEF One
<1>6. Cardinality(On(L, k)) \in Nat /\ \A cond : One(cond) \in Nat
  BY <1>0, LegsCounted DEF One
<1> HIDE DEF L, c, a
<1>7. Cardinality(On((L \cup {c}) \cup {a}, k))
        = Cardinality(On(L, k)) + One(k \in Legs(r, request[r].day))
  BY <1>4, <1>5, <1>6
<1>8. count'[k] = count[k] + One(k \in Legs(r, request[r].day))
  BY <1>0 DEF Charged, Increment, One
<1> QED
  BY <1>2, <1>7, <1>8 DEF Charged, LiveOn, L

LEMMA RefundCounts ==
  ASSUME HandlersInv, NEW r \in Requests, NEW s \in Scopes, Refunded(r, s), NEW k \in Keys
  PROVE  LET hit == One(Leg(r, s, request[r].day) = k)
         IN  /\ count'[k] = IF count[k] > 0 THEN count[k] - hit ELSE count[k]
             /\ \/ /\ Cardinality(LiveOn(k)) = Cardinality(On(taken' \ returned', k)) + hit
                   /\ strays' = strays
                \/ /\ Cardinality(On(strays', k)) = Cardinality(StraysOn(k)) + hit
                   /\ taken' \ returned' = taken \ returned
<1> DEFINE l == <<r, s>>
           key == Leg(r, s, request[r].day)
           hit == One(key = k)
<1>0. /\ QuotaTypeOK /\ LegsInv /\ count \in [Keys -> Nat] /\ l \in Requests \X Scopes
      /\ taken \subseteq Requests \X Scopes /\ strays \subseteq Requests \X Scopes
  BY DEF HandlersInv, QuotaTypeOK
<1>1. l \notin returned \cup strays
  BY <1>0 DEF Refunded, LegsInv, Scopes
<1>2. count'[k] = IF count[k] > 0 THEN count[k] - hit ELSE count[k]
  <2>1. count' = Decrement(key)
    BY DEF Refunded, RefundLeg, RefundDay
  <2> HIDE DEF key
  <2> QED
    BY <1>0, <2>1 DEF Decrement, One
<1>3. CASE l \in taken
  <2>1. /\ taken' = taken /\ returned' = returned \cup {l} /\ strays' = strays
    BY <1>3 DEF Refunded, RefundLeg
  <2>2. /\ taken \ returned = (taken' \ returned') \cup {l} /\ l \notin taken' \ returned'
        /\ taken' \ returned' \subseteq Requests \X Scopes
    BY <1>0, <1>1, <1>3, <2>1
  <2>3. Cardinality(LiveOn(k)) = Cardinality(On(taken' \ returned', k)) + hit
    <3>1. Cardinality(On((taken' \ returned') \cup {l}, k))
            = Cardinality(On(taken' \ returned', k)) + hit
      <4> DEFINE M == taken' \ returned'
      <4>1. M \subseteq Requests \X Scopes /\ <<r, s>> \notin M
        BY <2>2
      <4> HIDE DEF M
      <4>2. Cardinality(On(M \cup {<<r, s>>}, k))
              = Cardinality(On(M, k)) + One(Leg(r, s, request[r].day) = k)
        BY <4>1, LegAdded
      <4> QED
        BY <4>2 DEF M
    <3> QED
      BY <2>2, <3>1 DEF LiveOn
  <2> QED
    BY <1>2, <2>1, <2>3
<1>4. CASE l \notin taken
  <2>1. /\ taken' = taken /\ returned' = returned /\ strays' = strays \cup {l}
    BY <1>4 DEF Refunded, RefundLeg
  <2>2. Cardinality(On(strays', k)) = Cardinality(StraysOn(k)) + hit
    BY <1>0, <1>1, <2>1, LegAdded DEF StraysOn
  <2> QED
    BY <1>2, <2>1, <2>2
<1> QED
  BY <1>3, <1>4

LEMMA RefundArithmetic ==
  ASSUME NEW n \in Nat, NEW m, NEW live \in Nat, NEW live2 \in Nat, NEW stray \in Nat,
         NEW stray2 \in Nat, NEW hit \in {0, 1},
         m = IF n > 0 THEN n - hit ELSE n,
         n <= live, \/ live = live2 + hit /\ stray2 = stray
                    \/ live2 = live /\ stray2 = stray + hit
  PROVE  m <= live2 /\ (live - stray <= n => live2 - stray2 <= m)
OBVIOUS

LEMMA CountersKeep ==
  ASSUME HandlersInv, HandlersInv', CountersInv, [QuotaNext]_quotaVars
  PROVE  CountersInv'
<1> SUFFICES ASSUME NEW k \in Keys
             PROVE  /\ count'[k] <= Cardinality(LiveOn(k)')
                    /\ k.day >= today' =>
                         Cardinality(LiveOn(k)') - Cardinality(StraysOn(k)') <= count'[k]
  BY DEF CountersInv
<1>0. /\ count \in [Keys -> Nat] /\ today \in Nat /\ k.day \in Nat /\ today' \in Nat
      /\ taken \subseteq Requests \X Scopes /\ strays \subseteq Requests \X Scopes
      /\ taken' \subseteq Requests \X Scopes /\ strays' \subseteq Requests \X Scopes
  BY DEF HandlersInv, QuotaTypeOK, Keys, Days
<1>1. today <= today'
  <2>1. CASE Midnight
    BY <1>0, <2>1 DEF Midnight
  <2>2. CASE ~Midnight
    <3>1. today' = today
      BY <2>2 DEF QuotaNext, quotaVars, Arrive, Check, Commit, Charge, CrashCreate,
         HandleFailure, Refund, LoseRefund, Expire
    <3> QED
      BY <1>0, <3>1
  <2> QED
    BY <2>1, <2>2
<1>2. LiveOn(k)' = On(taken' \ returned', k) /\ StraysOn(k)' = On(strays', k)
  BY LegsStay
<1>3. /\ Cardinality(LiveOn(k)) \in Nat /\ Cardinality(StraysOn(k)) \in Nat
      /\ Cardinality(On(taken' \ returned', k)) \in Nat /\ Cardinality(On(strays', k)) \in Nat
      /\ count[k] \in Nat
  <2>1. taken \ returned \subseteq Requests \X Scopes /\ taken' \ returned' \subseteq Requests \X Scopes
    BY <1>0
  <2> QED
    BY <1>0, <2>1, LegsCounted DEF LiveOn, StraysOn
<1>4. /\ count[k] <= Cardinality(LiveOn(k))
      /\ k.day >= today' => Cardinality(LiveOn(k)) - Cardinality(StraysOn(k)) <= count[k]
  BY <1>0, <1>1 DEF CountersInv
<1>5. CASE UNCHANGED <<count, ledger>>
  BY <1>2, <1>4, <1>5 DEF ledger, LiveOn, StraysOn
<1>6. ASSUME NEW r \in Requests, Charged(r)
      PROVE  /\ count'[k] <= Cardinality(On(taken' \ returned', k))
             /\ k.day >= today' =>
                  Cardinality(On(taken' \ returned', k)) - Cardinality(On(strays', k)) <= count'[k]
  <2>1. One(k \in Legs(r, request[r].day)) \in Nat
    BY DEF One
  <2> QED
    BY <1>3, <1>4, <1>6, <2>1, ChargeCounts DEF StraysOn
<1>7. ASSUME NEW r \in Requests, NEW s \in Scopes, Refunded(r, s)
      PROVE  /\ count'[k] <= Cardinality(On(taken' \ returned', k))
             /\ k.day >= today' =>
                  Cardinality(On(taken' \ returned', k)) - Cardinality(On(strays', k)) <= count'[k]
  <2> DEFINE hit == One(Leg(r, s, request[r].day) = k)
  <2>1. hit \in {0, 1}
    BY DEF One
  <2>2. /\ count'[k] = IF count[k] > 0 THEN count[k] - hit ELSE count[k]
        /\ \/ /\ Cardinality(LiveOn(k)) = Cardinality(On(taken' \ returned', k)) + hit
              /\ Cardinality(On(strays', k)) = Cardinality(StraysOn(k))
           \/ /\ Cardinality(On(taken' \ returned', k)) = Cardinality(LiveOn(k))
              /\ Cardinality(On(strays', k)) = Cardinality(StraysOn(k)) + hit
    BY <1>7, RefundCounts DEF LiveOn, StraysOn
  <2> HIDE DEF hit
  <2> QED
    BY <1>3, <1>4, <2>1, <2>2, RefundArithmetic
<1>8. ASSUME NEW e \in Keys, Expired(e)
      PROVE  /\ count'[k] <= Cardinality(LiveOn(k))
             /\ k.day >= today' =>
                  Cardinality(LiveOn(k)) - Cardinality(StraysOn(k)) <= count'[k]
             /\ UNCHANGED ledger
  <2>1. CASE k = e
    BY <1>0, <1>1, <1>3, <1>8, <2>1 DEF Expired
  <2>2. CASE k # e
    BY <1>0, <1>4, <1>8, <2>2 DEF Expired
  <2> QED
    BY <2>1, <2>2
<1>9. ASSUME NEW e \in Keys, Expired(e)
      PROVE  LiveOn(k)' = LiveOn(k) /\ StraysOn(k)' = StraysOn(k)
  BY <1>2, <1>9 DEF Expired, ledger, LiveOn, StraysOn
<1> QED
  BY <1>2, <1>5, <1>6, <1>7, <1>8, <1>9, LedgerSteps

LEMMA CountersInvariant == QuotaSpec => []CountersInv
<1>1. QuotaInit => CountersInv
  <2> SUFFICES ASSUME QuotaInit, NEW k \in Keys
               PROVE  /\ count[k] <= Cardinality(LiveOn(k))
                      /\ Cardinality(LiveOn(k)) - Cardinality(StraysOn(k)) <= count[k]
    BY DEF CountersInv
  <2>1. count[k] = 0 /\ LiveOn(k) = {} /\ StraysOn(k) = {}
    BY DEF QuotaInit, LiveOn, StraysOn, On
  <2> QED
    BY <2>1, FS_EmptySet
<1>2. HandlersInv /\ HandlersInv' /\ CountersInv /\ [QuotaNext]_quotaVars => CountersInv'
  BY CountersKeep
<1> QED
  BY <1>1, <1>2, HandlersInvariant, PTL DEF QuotaSpec

\* However charges, refunds, crashes and midnights interleave, a counter shows no more
\* than the slots that were charged and not handed back, and until its bucket expires
\* less only by the refunds made for jobs that were never charged, or not yet.
THEOREM CountersMatch == QuotaSpec => []CountersMatchJobs
<1>1. HandlersInv /\ CountersInv => CountersMatchJobs
  <2> SUFFICES ASSUME HandlersInv, CountersInv PROVE CountersMatchJobs
    OBVIOUS
  <2>1. today \in Nat
    BY DEF HandlersInv, QuotaTypeOK, Days
  <2> QED
    BY <2>1 DEF CountersInv, CountersMatchJobs, LiveOn, StraysOn
<1> QED
  BY <1>1, HandlersInvariant, CountersInvariant, PTL

\* A slot is only ever held by a job whose row is committed: no crash of a handler
\* between the check, the commit and the charge costs a visitor a song.
THEOREM SlotsHaveJobs == QuotaSpec => []NoSlotWithoutJob
<1>1. ASSUME HandlersInv, CountersInv PROVE NoSlotWithoutJob
  <2> DEFINE Holding(k) == {r \in Requests : /\ failure[r] # "no_row"
                                             /\ k \in Legs(r, request[r].day)
                                             /\ <<r, k.scope>> \notin returned}
  <2> SUFFICES ASSUME NEW k \in Keys PROVE count[k] <= Cardinality(Holding(k))
    BY DEF NoSlotWithoutJob
  <2>0. /\ count[k] \in Nat /\ taken \subseteq Requests \X Scopes /\ LegsInv
        /\ taken \ returned \subseteq Requests \X Scopes
    BY <1>1 DEF HandlersInv, QuotaTypeOK
  <2>1. IsFiniteSet(Holding(k)) /\ Cardinality(Holding(k)) \in Int
    <3>1. Holding(k) \subseteq Requests
      OBVIOUS
    <3> HIDE DEF Holding
    <3>2. IsFiniteSet(Holding(k))
      BY <3>1, RequestsCounted
    <3> QED
      BY <3>2, FS_CardinalityType
  <2>2. ASSUME NEW l \in LiveOn(k)
        PROVE  l[1] \in Holding(k) /\ l = <<l[1], k.scope>>
    <3>1. /\ l \in taken \ returned /\ l \in Requests \X Scopes
          /\ Leg(l[1], l[2], request[l[1]].day) = k
      BY <2>0, <2>2 DEF LiveOn, On
    <3>2. l[1] \in Requests /\ l[2] \in Scopes /\ l = <<l[1], l[2]>>
      BY <3>1
    <3>3. k.scope = l[2] /\ k \in Legs(l[1], request[l[1]].day)
      BY <3>1, <3>2 DEF Leg, Legs
    <3>4. failure[l[1]] # "no_row"
      BY <2>0, <3>1, <3>2 DEF LegsInv
    <3> QED
      BY <3>1, <3>2, <3>3, <3>4
  <2>3. [l \in LiveOn(k) |-> l[1]] \in Injection(LiveOn(k), Holding(k))
    <3> HIDE DEF Holding
    <3>1. [l \in LiveOn(k) |-> l[1]] \in [LiveOn(k) -> Holding(k)]
      BY <2>2
    <3>2. \A l, m \in LiveOn(k) : l[1] = m[1] => l = m
      BY <2>2
    <3> QED
      BY <3>1, <3>2 DEF Injection, IsInjective
  <2>4. Cardinality(LiveOn(k)) <= Cardinality(Holding(k))
    BY <2>1, <2>3, FS_Injection
  <2>5. Cardinality(LiveOn(k)) \in Int
    BY <2>0, LegsCounted DEF LiveOn
  <2> HIDE DEF Holding
  <2> QED
    BY <1>1, <2>0, <2>1, <2>4, <2>5 DEF CountersInv
<1> QED
  BY <1>1, HandlersInvariant, CountersInvariant, PTL

-----------------------------------------------------------------------------
(* Over-admission *)

\* Request r may still be charged to counter k without looking at it again: it is
\* committed on k's day, or will be if it is admitted today, and it has been past k's
\* check, or was checked against the counter of an earlier day.
PastCheck(r, k) ==
  \/ At(r, {"committed"}) /\ request[r].day = k.day
  \/ /\ k.day = today
     /\ \/ At(r, {"admitted"})
        \/ At(r, {"check_ip"}) /\ k.scope = "cookie"
        \/ At(r, {"check_cookie", "check_ip"}) /\ request[r].day < today
Due(k) == {r \in Requests : Leg(r, k.scope, k.day) = k /\ PastCheck(r, k)}

\* Every create that is due on a counter was in flight when the counter, which the
\* others had filled below its cap, let the last of them pass.
AdmissionInv ==
  /\ Cardinality(InFlight) <= peak
  /\ \A k \in Keys :
       /\ k.day > today => count[k] = 0
       /\ k.day <= today => count[k] + Cardinality(Due(k)) <= Cap(k.scope) + peak - 1

LEMMA DueInFlight ==
  ASSUME NEW k
  PROVE  /\ IsFiniteSet(Due(k)) /\ IsFiniteSet(InFlight)
         /\ Cardinality(Due(k)) \in Nat /\ Cardinality(InFlight) \in Nat
         /\ Cardinality(Due(k)) <= Cardinality(InFlight)
<1>1. Due(k) \subseteq InFlight
  BY DEF Due, PastCheck, InFlight, InCreate, At
<1>2. InFlight \subseteq Requests
  BY DEF InFlight
<1>3. IsFiniteSet(InFlight) /\ IsFiniteSet(Due(k))
  BY <1>1, <1>2, QuotaAssumption, FS_Subset
<1> QED
  BY <1>1, <1>3, FS_Subset, FS_CardinalityType

CountedDue(k) ==
  /\ IsFiniteSet(Due(k)) /\ Cardinality(Due(k)) \in Nat
  /\ Cardinality(Due(k)) <= Cardinality(InFlight) /\ Cardinality(InFlight) \in Nat
AllDueCounted == \A k \in Keys : CountedDue(k)
LEMMA DueCounted == AllDueCounted
BY DueInFlight DEF AllDueCounted, CountedDue

\* The most creates in flight together are remembered, and only an arrival adds one.
LEMMA PeakKeeps ==
  ASSUME HandlersInv, HandlersInv', Cardinality(InFlight) <= peak, [QuotaNext]_quotaVars
  PROVE  peak' >= peak /\ Cardinality(InFlight') <= peak'
<1>0. /\ request \in [Requests ->
            [pc : InCreate \cup {"unsent", "rejected", "charged", "dead"},
             identity : Identities, day : Days]]
      /\ peak \in Int
  BY DEF HandlersInv, QuotaTypeOK
<1>1. /\ Cardinality(InFlight) \in Int /\ Cardinality(InFlight') \in Int
      /\ IsFiniteSet(InFlight) /\ IsFiniteSet(InFlight')
  BY RequestsCounted DEF InFlight
<1>2. ASSUME NEW r \in Requests, NEW i \in Identities, Arrive(r, i)
      PROVE  peak' >= peak /\ Cardinality(InFlight') <= peak'
  BY <1>0, <1>1, <1>2 DEF Arrive
<1>3. ASSUME peak' = peak, InFlight' \subseteq InFlight
      PROVE  peak' >= peak /\ Cardinality(InFlight') <= peak'
  <2>1. Cardinality(InFlight') <= Cardinality(InFlight)
    BY <1>1, <1>3, FS_Subset
  <2> QED
    BY <1>0, <1>1, <1>3, <2>1
<1>4. ASSUME NEW r \in Requests, Check(r) \/ Charge(r) \/ CrashCreate(r) \/ Commit(r)
      PROVE  peak' = peak /\ InFlight' \subseteq InFlight
  <2>1. /\ peak' = peak /\ request[r].pc \in InCreate
        /\ \A q \in Requests : q # r => request'[q] = request[q]
    BY <1>0, <1>4 DEF Check, Charge, CrashCreate, Commit, Goto, At, InCreate
  <2> QED
    BY <2>1 DEF InFlight, At
<1>5. ASSUME NEW r \in Requests, HandleFailure(r) \/ Refund(r) \/ LoseRefund(r)
      PROVE  peak' = peak /\ InFlight' \subseteq InFlight
  BY <1>5 DEF HandleFailure, Refund, LoseRefund, InFlight, At
<1>6. UNCHANGED quotaVars \/ Midnight \/ (\E k \in Keys : Expire(k)) =>
        peak' = peak /\ InFlight' \subseteq InFlight
  BY DEF quotaVars, Midnight, Expire, InFlight, At
<1> QED
  BY <1>2, <1>3, <1>4, <1>5, <1>6 DEF QuotaNext

\* What a step may do to a counter of today or earlier: nothing for the worse; let one
\* more create pass it, below its cap; charge one that was due; or make its day begin.
DueFewer(k) == Due(k)' \subseteq Due(k) /\ count'[k] <= count[k]
RoomSeen(k) == count[k] < Cap(k.scope) /\ count'[k] = count[k]
DueCharged(k) ==
  \E r \in Due(k) : Due(k)' \subseteq Due(k) \ {r} /\ count'[k] <= count[k] + 1

LEMMA DueSteps ==
  ASSUME HandlersInv, AdmissionInv, [QuotaNext]_quotaVars, NEW k \in Keys, k.day <= today'
  PROVE  DueFewer(k) \/ RoomSeen(k) \/ DueCharged(k)
<1>0. /\ request \in [Requests ->
            [pc : InCreate \cup {"unsent", "rejected", "charged", "dead"},
             identity : Identities, day : Days]]
      /\ today \in Nat /\ count \in [Keys -> Nat] /\ k.day \in Nat /\ k.scope \in Scopes
      /\ \A r \in Requests : request[r].day \in Nat /\ request[r].day <= today
  BY DEF HandlersInv, QuotaTypeOK, RequestInv, Days, Keys, Scopes
<1>a. ASSUME NEW r \in Requests, \A q \in Requests : q # r => request'[q] = request[q],
             today' = today, r \in Due(k)' => r \in Due(k)
      PROVE  Due(k)' \subseteq Due(k)
  BY <1>a DEF Due, PastCheck, At, Leg
<1>1. ASSUME NEW r \in Requests, NEW i \in Identities, Arrive(r, i) PROVE DueFewer(k)
  <2>1. /\ \A q \in Requests : q # r => request'[q] = request[q]
        /\ request'[r].pc \in {"check_cookie", "rejected"} /\ request'[r].day = today
        /\ today' = today /\ count' = count
    BY <1>0, <1>1 DEF Arrive
  <2>2. r \notin Due(k)'
    BY <1>0, <2>1 DEF Due, PastCheck, At
  <2> QED
    BY <1>0, <1>a, <2>1, <2>2 DEF DueFewer
<1>2. ASSUME NEW r \in Requests, Check(r) PROVE DueFewer(k) \/ RoomSeen(k)
  <2>1. /\ \A q \in Requests : q # r => request'[q] = request[q]
        /\ today' = today /\ count' = count
        /\ request'[r].day = request[r].day /\ request'[r].identity = request[r].identity
        /\ \/ /\ request[r].pc = "check_cookie" /\ request'[r].pc \in {"check_ip", "rejected"}
              /\ request'[r].pc = "check_ip" => HasRoom(Leg(r, "cookie", request[r].day))
           \/ /\ request[r].pc = "check_ip" /\ request'[r].pc \in {"admitted", "rejected"}
              /\ request'[r].pc = "admitted" => HasRoom(Leg(r, "ip", request[r].day))
    BY <1>0, <1>2 DEF Check, Goto, At
  <2>2. Leg(r, k.scope, k.day)' = Leg(r, k.scope, k.day)
    BY <2>1 DEF Leg
  <2>3. CASE r \in Due(k)' /\ r \notin Due(k)
    <3>1. k.day = today /\ Leg(r, k.scope, k.day) = k /\ ~(request[r].day < today)
      BY <1>0, <2>1, <2>2, <2>3 DEF Due, PastCheck, At
    <3>2. request[r].day = k.day
      BY <1>0, <3>1
    <3>3. \/ k.scope = "cookie" /\ HasRoom(Leg(r, "cookie", request[r].day))
          \/ k.scope = "ip" /\ HasRoom(Leg(r, "ip", request[r].day))
      BY <1>0, <2>1, <2>2, <2>3, <3>1 DEF Due, PastCheck, At, Scopes
    <3>4. HasRoom(k)
      BY <3>1, <3>2, <3>3
    <3> QED
      BY <2>1, <3>4 DEF RoomSeen, HasRoom
  <2>4. CASE ~(r \in Due(k)' /\ r \notin Due(k))
    BY <1>0, <1>a, <2>1, <2>4 DEF DueFewer
  <2> QED
    BY <2>3, <2>4
<1>3. ASSUME NEW r \in Requests, Commit(r) PROVE DueFewer(k)
  <2>1. /\ \A q \in Requests : q # r => request'[q] = request[q]
        /\ request[r].pc = "admitted" /\ request'[r].pc = "committed"
        /\ request'[r].day = today /\ request'[r].identity = request[r].identity
        /\ today' = today /\ count' = count
    BY <1>0, <1>3 DEF Commit, At
  <2>2. r \in Due(k)' => r \in Due(k)
    BY <1>0, <2>1 DEF Due, PastCheck, At, Leg
  <2> QED
    BY <1>0, <1>a, <2>1, <2>2 DEF DueFewer
<1>4. ASSUME NEW r \in Requests, Charge(r) PROVE DueFewer(k) \/ DueCharged(k)
  <2>1. /\ \A q \in Requests : q # r => request'[q] = request[q]
        /\ request[r].pc = "committed" /\ request'[r].pc = "charged" /\ today' = today
        /\ count' = count \/ count' = Increment(Legs(r, request[r].day))
    BY <1>0, <1>4 DEF Charge, Goto, At
  <2>2. r \notin Due(k)'
    BY <2>1 DEF Due, PastCheck, At
  <2>3. Due(k)' \subseteq Due(k) \ {r}
    BY <1>a, <2>1, <2>2
  <2>4. CASE k \in Legs(r, request[r].day)
    <3>1. r \in Due(k)
      BY <2>1, <2>4 DEF Legs, Leg, Due, PastCheck, At
    <3>2. count'[k] <= count[k] + 1
      BY <1>0, <2>1, <2>4 DEF Increment
    <3> QED
      BY <2>3, <3>1, <3>2 DEF DueCharged
  <2>5. CASE k \notin Legs(r, request[r].day)
    <3>1. count'[k] = count[k]
      BY <1>0, <2>1, <2>5 DEF Increment
    <3> QED
      BY <1>0, <2>3, <3>1 DEF DueFewer
  <2> QED
    BY <2>4, <2>5
<1>5. ASSUME NEW r \in Requests, CrashCreate(r) PROVE DueFewer(k)
  <2>1. /\ \A q \in Requests : q # r => request'[q] = request[q]
        /\ request'[r].pc = "dead" /\ today' = today /\ count' = count
    BY <1>0, <1>5 DEF CrashCreate, Goto
  <2>2. r \notin Due(k)'
    BY <2>1 DEF Due, PastCheck, At
  <2> QED
    BY <1>0, <1>a, <2>1, <2>2 DEF DueFewer
<1>6. ASSUME NEW r \in Requests, HandleFailure(r) \/ Refund(r) \/ LoseRefund(r) PROVE DueFewer(k)
  <2>1. request' = request /\ today' = today
    BY <1>6 DEF HandleFailure, Refund, LoseRefund
  <2>2. count' = count \/ \E s \in Scopes : count' = Decrement(Leg(r, s, request[r].day))
    BY <1>6 DEF HandleFailure, Refund, LoseRefund, RefundLeg, RefundDay, Scopes
  <2>3. count'[k] <= count[k]
    BY <1>0, <2>2 DEF Decrement
  <2> QED
    BY <2>1, <2>3 DEF DueFewer, Due, PastCheck, At, Leg
<1>7. CASE Midnight
  <2>1. request' = request /\ today' = today + 1 /\ count' = count
    BY <1>7 DEF Midnight
  <2>2. CASE k.day = today'
    <3>1. count[k] = 0
      BY <1>0, <2>1, <2>2 DEF AdmissionInv
    <3> QED
      BY <2>1, <3>1, QuotaAssumption DEF RoomSeen, Cap
  <2>3. CASE k.day # today'
    BY <1>0, <2>1, <2>3 DEF DueFewer, Due, PastCheck, At, Leg
  <2> QED
    BY <2>2, <2>3
<1>8. ASSUME NEW e \in Keys, Expire(e) PROVE DueFewer(k)
  <2>1. count'[k] <= count[k]
    BY <1>0, <1>8 DEF Expire
  <2> QED
    BY <1>8, <2>1 DEF Expire, DueFewer, Due, PastCheck, At, Leg
<1>9. UNCHANGED quotaVars => DueFewer(k)
  BY <1>0 DEF quotaVars, DueFewer, Due, PastCheck, At, Leg
<1> QED
  BY <1>1, <1>2, <1>3, <1>4, <1>5, <1>6, <1>7, <1>8, <1>9 DEF QuotaNext

\* A counter that is not yet of today, and is after the step, has seen no charge.
LEMMA DayBegins ==
  ASSUME HandlersInv, AdmissionInv, [QuotaNext]_quotaVars, NEW k \in Keys,
         k.day <= today', ~RoomSeen(k)
  PROVE  k.day <= today
<1>0. today \in Nat /\ k.day \in Nat
  BY DEF HandlersInv, QuotaTypeOK, Keys, Days
<1> SUFFICES ASSUME k.day > today PROVE FALSE
  BY <1>0
<1>1. count[k] = 0
  BY DEF AdmissionInv
<1>2. today' # today
  BY <1>0
<1>3. Midnight
  BY <1>2 DEF QuotaNext, quotaVars, Arrive, Check, Commit, Charge, CrashCreate, HandleFailure,
     Refund, LoseRefund, Expire
<1>4. count' = count
  BY <1>3 DEF Midnight
<1> QED
  BY <1>1, <1>4, QuotaAssumption DEF RoomSeen, Cap

\* A counter of a day that has not come is not touched.
LEMMA FutureUntouched ==
  ASSUME HandlersInv, HandlersInv', CountersInv', NEW k \in Keys, k.day > today'
  PROVE  count'[k] = 0
<1>1. RequestInv' /\ QuotaTypeOK'
  BY DEF HandlersInv
<1>2. LiveOn(k)' = {}
  <2> SUFFICES ASSUME NEW l \in LiveOn(k)' PROVE FALSE
    OBVIOUS
  <2>1. l \in Requests \X Scopes /\ k.day = request'[l[1]].day
    BY <1>1 DEF LiveOn, On, QuotaTypeOK, Leg
  <2>2. request'[l[1]].day <= today' /\ request'[l[1]].day \in Nat /\ today' \in Nat
    BY <1>1, <2>1 DEF RequestInv, QuotaTypeOK, Days
  <2> QED
    BY <2>1, <2>2
<1>3. Cardinality(LiveOn(k)') = 0
  BY <1>2, FS_EmptySet
<1>4. count'[k] \in Nat /\ count'[k] <= Cardinality(LiveOn(k)')
  BY <1>1 DEF QuotaTypeOK, CountersInv
<1> QED
  BY <1>3, <1>4

LEMMA AdmissionArithmetic ==
  ASSUME NEW n \in Nat, NEW m \in Nat, NEW due \in Nat, NEW due2 \in Nat, NEW cap \in Nat,
         NEW p \in Nat, NEW q \in Nat, p <= q, due2 <= q,
         \/ n + due <= cap + p - 1 /\ due2 <= due /\ m <= n
         \/ n + due <= cap + p - 1 /\ due2 <= due - 1 /\ m <= n + 1
         \/ m < cap
  PROVE  m + due2 <= cap + q - 1
OBVIOUS

LEMMA AdmissionKeeps ==
  ASSUME HandlersInv, HandlersInv', CountersInv', AdmissionInv, [QuotaNext]_quotaVars
  PROVE  AdmissionInv'
<1>1. peak' >= peak /\ Cardinality(InFlight') <= peak'
  BY PeakKeeps DEF AdmissionInv
<1>2. ASSUME NEW k \in Keys, k.day > today' PROVE count'[k] = 0
  BY <1>2, FutureUntouched
<1>3. ASSUME NEW k \in Keys, k.day <= today'
      PROVE  count'[k] + Cardinality(Due(k)') <= Cap(k.scope) + peak' - 1
  <2>0. /\ today \in Nat /\ today' \in Nat /\ k.day \in Nat /\ peak \in Nat /\ peak' \in Nat
        /\ count[k] \in Nat /\ count'[k] \in Nat
        /\ Cap(k.scope) \in Nat \ {0}
    BY QuotaAssumption DEF HandlersInv, QuotaTypeOK, Keys, Days, Cap
  <2>1. CountedDue(k) /\ CountedDue(k)'
    <3>1. AllDueCounted /\ AllDueCounted'
      BY DueCounted, PTL
    <3> QED
      BY <3>1 DEF AllDueCounted
  <2>2. Cardinality(Due(k)) \in Nat /\ Cardinality(Due(k)') \in Nat /\ Cardinality(Due(k)') <= peak'
    BY <1>1, <2>0, <2>1 DEF CountedDue
  <2>3. CASE RoomSeen(k)
    BY <1>1, <2>0, <2>2, <2>3, AdmissionArithmetic DEF RoomSeen
  <2>4. CASE ~RoomSeen(k)
    <3>1. DueFewer(k) \/ DueCharged(k)
      BY <1>3, <2>4, DueSteps
    <3>2. k.day <= today
      BY <1>3, <2>0, <2>4, DayBegins
    <3>3. count[k] + Cardinality(Due(k)) <= Cap(k.scope) + peak - 1
      BY <3>2 DEF AdmissionInv
    <3>4. CASE DueFewer(k)
      <4>1. Cardinality(Due(k)') <= Cardinality(Due(k)) /\ count'[k] <= count[k]
        BY <2>1, <3>4, FS_Subset DEF CountedDue, DueFewer
      <4> QED
        BY <1>1, <2>0, <2>2, <3>3, <4>1, AdmissionArithmetic
    <3>5. CASE DueCharged(k)
      <4>1. PICK r \in Due(k) : Due(k)' \subseteq Due(k) \ {r} /\ count'[k] <= count[k] + 1
        BY <3>5 DEF DueCharged
      <4>2. IsFiniteSet(Due(k) \ {r}) /\ Cardinality(Due(k) \ {r}) = Cardinality(Due(k)) - 1
        BY <2>1, <4>1, FS_RemoveElement DEF CountedDue
      <4>3. Cardinality(Due(k)') <= Cardinality(Due(k)) - 1
        BY <4>1, <4>2, FS_Subset
      <4> QED
        BY <1>1, <2>0, <2>2, <3>3, <4>1, <4>3, AdmissionArithmetic
    <3> QED
      BY <3>1, <3>4, <3>5
  <2> QED
    BY <2>3, <2>4
<1> QED
  BY <1>1, <1>2, <1>3 DEF AdmissionInv

LEMMA AdmissionInvariant == QuotaSpec => []AdmissionInv
<1>1. QuotaInit => AdmissionInv
  <2> SUFFICES ASSUME QuotaInit PROVE AdmissionInv
    OBVIOUS
  <2>1. InFlight = {} /\ \A k \in Keys : Due(k) = {} /\ count[k] = 0
    BY DEF QuotaInit, InFlight, InCreate, Due, PastCheck, At
  <2>2. Cardinality({}) = 0
    BY FS_EmptySet
  <2>3. \A k \in Keys : Cap(k.scope) \in Nat \ {0}
    BY QuotaAssumption DEF Cap
  <2>4. peak = 0 /\ today = 0
    BY DEF QuotaInit
  <2> QED
    BY <2>1, <2>2, <2>3, <2>4 DEF AdmissionInv
<1>2. HandlersInv /\ HandlersInv' /\ CountersInv' /\ AdmissionInv /\ [QuotaNext]_quotaVars
        => AdmissionInv'
  BY AdmissionKeeps
<1> QED
  BY <1>1, <1>2, HandlersInvariant, CountersInvariant, PTL DEF QuotaSpec

\* The check that only reads and the charge that only counts let through no more than
\* were ever between the two at once, less one, whatever the midnights, crashes and
\* refunds between them.
THEOREM OverAdmission == QuotaSpec => []OverAdmissionBounded
<1>1. ASSUME HandlersInv, CountersInv, AdmissionInv PROVE OverAdmissionBounded
  <2> SUFFICES ASSUME NEW k \in Keys PROVE count[k] <= Cap(k.scope) + peak - 1
    BY DEF OverAdmissionBounded
  <2>1. /\ today \in Nat /\ k.day \in Nat /\ peak \in Nat /\ count[k] \in Nat
        /\ Cap(k.scope) \in Nat \ {0}
    BY <1>1, QuotaAssumption DEF HandlersInv, QuotaTypeOK, Keys, Days, Cap
  <2>2. Cardinality(Due(k)) \in Nat
    BY DueInFlight
  <2>3. CASE k.day > today
    BY <1>1, <2>1, <2>3 DEF AdmissionInv
  <2>4. CASE k.day <= today
    <3>1. count[k] + Cardinality(Due(k)) <= Cap(k.scope) + peak - 1
      BY <1>1, <2>4 DEF AdmissionInv
    <3> QED
      BY <2>1, <2>2, <3>1
  <2> QED
    BY <2>1, <2>3, <2>4
<1> QED
  BY <1>1, HandlersInvariant, CountersInvariant, AdmissionInvariant, PTL
=============================================================================

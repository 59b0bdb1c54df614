-------------------------- MODULE ReliabilityProofs --------------------------
(***************************************************************************)
(* Proofs about what limits, cuts and repeats calls: the two tiers of the  *)
(* gateway's RateLimiter, the CircuitBreaker, and RagSearch with its       *)
(* retries and timeouts.  They hold for any number of requests, gateway    *)
(* processes, callers, queries and threads, and for any limits.            *)
(***************************************************************************)
EXTENDS MCProgress, AgentGraphProofs, KnowledgePipelineProofs, RanksProofs, FiniteSetTheorems, TLAPS

-----------------------------------------------------------------------------
\* The rate limiter.

\* Where a request can be.
Places == {"new", "database", "fill", "local", "incr", "expire", "passed", "rejected", "failed"}

\* Requests yet to be counted, and the one that is to send EXPIRE.
Uncounted == {q \in Requests : at[q] \in {"new", "database", "fill", "local", "incr"}}

\* Requests that are about to set the expiry.
Expirers == {q \in Requests : at[q] = "expire"}

\* Requests of this life of the counter that passed, or may.
Claimed == passed \cup Expirers

\* The variables of the local tier and of the cached limit.
LocalOK ==
    /\ limit \in UserRps
    /\ cached \in UserRps \cup {Uncached}
    /\ capacity \in [Gates -> UserRps \cup {DefaultCapacity}]
    /\ tokens \in [Gates -> Nat]
    /\ \A g \in Gates : tokens[g] <= capacity[g]
    /\ at \in [Requests -> Places]
    /\ rps \in [Requests -> UserRps \cup {0}]
    /\ \A q \in Requests : at[q] \in {"fill", "local", "incr", "expire"} => rps[q] \in UserRps

\* Every INCR of this life of the counter was a request's, and each sent one.
CounterOK ==
    /\ counter \in Nat
    /\ counter + Cardinality(Uncounted) <= Cardinality(Requests)
    /\ passed \subseteq {q \in Requests : at[q] = "passed"}
    /\ Cardinality(Claimed) <= counter
    /\ passed # {} => \E q \in passed : Cardinality(Claimed) <= rps[q]

\* The first request of a life of the counter is the only one to send EXPIRE.
ExpiryOK ==
    /\ \A p, q \in Expirers : p = q
    /\ Expirers # {} => counter > 0 /\ ~expiring
    /\ expiring => counter > 0
    /\ counter > 0 /\ ~expiring => stranded \/ Expirers # {}
    /\ stranded => counter > 0 /\ ~expiring /\ Expirers = {}

\* Types of the flags.
FlagsOK == expiring \in BOOLEAN /\ stranded \in BOOLEAN

\* The inductive invariant.
RateIInv == LocalOK /\ CounterOK /\ ExpiryOK /\ FlagsOK

\* Limits are positive.
LEMMA LimitsArePositive ==
    /\ \A n \in UserRps : n \in Nat /\ n > 0
    /\ \A n \in UserRps \cup {0} : n \in Nat
<1>1. \A n \in UserRps : n \in Nat \ {0}
  BY RateAssumption DEF RateAssumption
<1>2. QED
  BY <1>1

\* The sets that are counted are finite, for the requests are.
LEMMA CountedAreFinite ==
    ASSUME CounterOK
    PROVE  /\ IsFiniteSet(Uncounted) /\ Cardinality(Uncounted) \in Nat
           /\ IsFiniteSet(Claimed) /\ Cardinality(Claimed) \in Nat
           /\ IsFiniteSet(passed) /\ Cardinality(passed) <= Cardinality(Claimed)
           /\ Cardinality(passed) \in Nat
           /\ Cardinality(Requests) \in Nat
<1>1. Uncounted \in SUBSET Requests /\ Claimed \in SUBSET Requests /\ passed \in SUBSET Claimed
  BY DEF CounterOK, Uncounted, Claimed, Expirers
<1>2. IsFiniteSet(Requests)
  BY RateAssumption DEF RateAssumption
<1>3. IsFiniteSet(Uncounted) /\ IsFiniteSet(Claimed)
  BY <1>1, <1>2, FS_Subset
<1>4. IsFiniteSet(passed) /\ Cardinality(passed) <= Cardinality(Claimed)
  BY <1>1, <1>3, FS_Subset
<1>5. QED
  BY <1>2, <1>3, <1>4, FS_CardinalityType

\* It is stronger than what the runs check.
LEMMA RateIsEnough == RateIInv => RateInv
<1> SUFFICES ASSUME RateIInv
             PROVE  RateInv
  OBVIOUS
<1> USE DEF RateIInv
<1>1. \A g \in Gates : tokens[g] \in 0..capacity[g]
  BY RateAssumption DEF RateAssumption, LocalOK, DefaultCapacity
<1>2. counter \in 0..Cardinality(Requests)
  BY CountedAreFinite DEF CounterOK
<1>3. passed # {} => \E q \in passed : Cardinality(passed) <= rps[q]
  <2> SUFFICES ASSUME passed # {}
               PROVE  \E q \in passed : Cardinality(passed) <= rps[q]
    OBVIOUS
  <2>1. PICK q \in passed : Cardinality(Claimed) <= rps[q]
    BY DEF CounterOK
  <2>2. rps[q] \in Nat
    <3>1. q \in Requests
      BY DEF CounterOK
    <3>2. rps[q] \in UserRps \cup {0}
      BY <3>1 DEF LocalOK
    <3>3. QED
      BY <3>2, LimitsArePositive
  <2>3. QED
    BY <2>1, <2>2, CountedAreFinite
<1>4. counter > 0 /\ ~expiring <=> stranded \/ \E q \in Requests : at[q] = "expire"
  BY DEF ExpiryOK, Expirers
<1>5. expiring \in BOOLEAN /\ stranded \in BOOLEAN
  BY DEF FlagsOK
<1>6. QED
  BY <1>1, <1>2, <1>3, <1>4, <1>5 DEF RateInv, LocalOK, CounterOK, Places

\* The first state has no counter.
LEMMA RateStarts == RateInit => RateIInv
<1> SUFFICES ASSUME RateInit
             PROVE  RateIInv
  OBVIOUS
<1>1. Uncounted = Requests /\ Expirers = {} /\ Claimed = {}
  BY DEF RateInit, Uncounted, Expirers, Claimed
<1>2. Cardinality(Claimed) = 0 /\ Cardinality(Requests) \in Nat
  BY <1>1, FS_EmptySet, FS_CardinalityType, RateAssumption DEF RateAssumption
<1>3. LocalOK
  BY RateAssumption DEF RateAssumption, RateInit, LocalOK, Places, DefaultCapacity, Uncached
<1>4. CounterOK
  BY <1>1, <1>2 DEF RateInit, CounterOK
<1>5. ExpiryOK
  BY <1>1 DEF RateInit, ExpiryOK
<1>6. FlagsOK
  BY DEF RateInit, FlagsOK
<1>7. QED
  BY <1>3, <1>4, <1>5, <1>6 DEF RateIInv

-----------------------------------------------------------------------------
\* A step that leaves the counter alone keeps the counts.
LEMMA CountsKept ==
    ASSUME RateIInv, UNCHANGED <<counter, passed>>,
           Uncounted' \subseteq Uncounted, Expirers' \subseteq Expirers,
           \A q \in passed : at'[q] = "passed" /\ rps'[q] = rps[q],
           rps' \in [Requests -> UserRps \cup {0}]
    PROVE  CounterOK'
<1> USE DEF RateIInv
<1>1. Claimed' \in SUBSET Claimed
  BY DEF Claimed
<1>2. /\ Cardinality(Claimed') <= Cardinality(Claimed)
      /\ Cardinality(Uncounted') <= Cardinality(Uncounted)
      /\ Cardinality(Claimed') \in Nat /\ Cardinality(Uncounted') \in Nat
  BY <1>1, CountedAreFinite, FS_Subset, FS_CardinalityType
<1>3. counter' + Cardinality(Uncounted') <= Cardinality(Requests) /\ Cardinality(Claimed') <= counter'
  BY <1>2, CountedAreFinite DEF CounterOK
<1>4. ASSUME passed # {}
      PROVE  \E q \in passed : Cardinality(Claimed') <= rps'[q]
  <2>1. PICK q \in passed : Cardinality(Claimed) <= rps[q]
    BY <1>4 DEF CounterOK
  <2>2. rps[q] \in Nat
    <3>1. q \in Requests
      BY DEF CounterOK
    <3>2. rps[q] \in UserRps \cup {0}
      BY <3>1 DEF LocalOK
    <3>3. QED
      BY <3>2, LimitsArePositive
  <2>3. QED
    BY <1>2, <2>1, <2>2, CountedAreFinite
<1>5. QED
  BY <1>3, <1>4 DEF CounterOK

\* The steps before INCR.
LEMMA LocalKeepsInv ==
    ASSUME RateIInv, NEW q \in Requests,
           ReadCache(q) \/ ReadLimit(q) \/ FillCache(q) \/ TakeToken(q)
    PROVE  RateIInv'
<1> USE DEF RateIInv
<1>1. UNCHANGED <<counter, expiring, passed, stranded>>
  BY DEF ReadCache, ReadLimit, FillCache, TakeToken
<1>2. /\ at[q] \in {"new", "database", "fill", "local"}
      /\ \E to \in {"database", "local", "fill", "incr", "rejected"} : at' = [at EXCEPT ![q] = to]
      /\ \A p \in Requests \ {q} : rps'[p] = rps[p]
  BY DEF ReadCache, ReadLimit, FillCache, TakeToken, LocalOK
<1>3. Uncounted' \subseteq Uncounted /\ Expirers' = Expirers
  BY <1>2 DEF Uncounted, Expirers, LocalOK
<1>4. LocalOK'
  <2> USE RateAssumption DEF RateAssumption, LocalOK, Places
  <2>1. CASE ReadCache(q)
    BY <2>1 DEF ReadCache, Uncached
  <2>2. CASE ReadLimit(q)
    BY <2>2 DEF ReadLimit
  <2>3. CASE FillCache(q)
    BY <2>3 DEF FillCache
  <2>4. CASE TakeToken(q)
    <3>1. gate[q] \in Gates /\ rps[q] \in UserRps /\ rps[q] \in Nat /\ rps[q] > 0
      BY <2>4, LimitsArePositive DEF TakeToken
    <3>2. tokens[gate[q]] \in Nat /\ tokens[gate[q]] <= capacity[gate[q]]
      BY <3>1
    <3>3. Bucket(q) \in Nat /\ Bucket(q) <= rps[q]
      BY <3>1, <3>2 DEF Bucket
    <3>4. /\ capacity' = [capacity EXCEPT ![gate[q]] = rps[q]]
          /\ \E n \in Nat : n <= rps[q] /\ tokens' = [tokens EXCEPT ![gate[q]] = n]
      <4>1. CASE Bucket(q) >= 1
        <5>1. Bucket(q) - 1 \in Nat /\ Bucket(q) - 1 <= rps[q]
          BY <3>1, <3>3, <4>1
        <5>2. QED
          BY <2>4, <3>3, <4>1, <5>1 DEF TakeToken
      <4>2. CASE Bucket(q) < 1
        BY <2>4, <3>3, <4>2 DEF TakeToken
      <4>3. QED
        BY <3>3, <4>1, <4>2
    <3>5. /\ tokens' \in [Gates -> Nat] /\ capacity' \in [Gates -> UserRps \cup {DefaultCapacity}]
          /\ \A g \in Gates : tokens'[g] <= capacity'[g]
      BY <3>1, <3>4
    <3>6. QED
      BY <1>2, <2>4, <3>1, <3>5 DEF TakeToken
  <2>5. QED
    BY <2>1, <2>2, <2>3, <2>4
<1>5. CounterOK'
  BY <1>1, <1>2, <1>3, <1>4, CountsKept DEF CounterOK, LocalOK
<1>6. ExpiryOK' /\ FlagsOK'
  BY <1>1, <1>3, Zenon DEF ExpiryOK, FlagsOK
<1>7. QED
  BY <1>4, <1>5, <1>6

\* INCR uses up one request; only the first of a life of the counter has yet to expire it.
LEMMA IncrKeepsInv ==
    ASSUME RateIInv, NEW q \in Requests, Incr(q)
    PROVE  RateIInv'
<1> USE DEF RateIInv
<1>1. /\ at[q] = "incr" /\ q \notin passed /\ q \in Uncounted /\ q \notin Expirers
      /\ rps[q] \in Nat /\ rps[q] > 0 /\ counter \in Nat
      /\ counter' = counter + 1
      /\ UNCHANGED <<limit, cached, capacity, tokens, rps, expiring, stranded>>
  BY LimitsArePositive DEF Incr, CounterOK, LocalOK, Uncounted, Expirers
<1>2. Uncounted \ {q} = Uncounted' /\ LocalOK'
  BY <1>1 DEF Incr, Verdict, Uncounted, LocalOK, Places
<1>3. /\ counter' + Cardinality(Uncounted') <= Cardinality(Requests)
      /\ counter' \in Nat
  <2>1. Cardinality(Uncounted \ {q}) = Cardinality(Uncounted) - 1
    BY <1>1, CountedAreFinite, FS_RemoveElement
  <2>2. Cardinality(Uncounted') = Cardinality(Uncounted) - 1
    BY <1>2, <2>1
  <2>3. /\ counter + Cardinality(Uncounted) <= Cardinality(Requests)
        /\ Cardinality(Uncounted) \in Nat /\ Cardinality(Requests) \in Nat
    BY CountedAreFinite DEF CounterOK
  <2>4. QED
    BY <1>1, <2>2, <2>3
<1>4. Cardinality(Claimed \cup {q}) = Cardinality(Claimed) + 1
  BY <1>1, CountedAreFinite, FS_AddElement DEF Claimed
<1>5. CASE counter + 1 = 1
  <2>1. at' = [at EXCEPT ![q] = "expire"] /\ passed' = passed
    BY <1>1, <1>5 DEF Incr, SetsExpiry
  <2>2. Cardinality(Claimed) = 0 /\ counter = 0
    BY <1>1, <1>5, CountedAreFinite DEF CounterOK
  <2>3. Claimed = {}
    BY <2>2, CountedAreFinite, FS_EmptySet
  <2>4. passed' = {} /\ Expirers' = {q} /\ Claimed' = {q}
    BY <2>1, <2>3 DEF Claimed, Expirers, LocalOK
  <2>5. CounterOK'
    BY <1>1, <1>3, <1>4, <2>2, <2>3, <2>4 DEF CounterOK
  <2>6. ~(counter > 0) /\ counter' > 0
    BY <1>1, <2>2
  <2>7. ExpiryOK'
    BY <1>1, <2>4, <2>6 DEF ExpiryOK
  <2>8. QED
    BY <1>1, <1>2, <2>5, <2>7 DEF FlagsOK
<1>6. CASE counter + 1 # 1
  <2>1. Verdict(counter + 1, q)
    BY <1>6 DEF Incr, SetsExpiry
  <2>2. Expirers' = Expirers
    BY <1>1, <2>1 DEF Verdict, Expirers, LocalOK
  <2>3. ExpiryOK' /\ FlagsOK'
    <3>1. counter > 0 /\ counter' > 0
      BY <1>1, <1>6
    <3>2. QED
      BY <1>1, <2>2, <3>1, Zenon DEF ExpiryOK, FlagsOK
  <2>4. CASE Above(counter + 1, q)
    <3>1. at' = [at EXCEPT ![q] = "rejected"] /\ passed' = passed
      BY <2>1, <2>4 DEF Verdict
    <3>2. Claimed' = Claimed
      BY <2>2, <3>1 DEF Claimed
    <3>3. CounterOK'
      BY <1>1, <1>3, <3>1, <3>2, CountedAreFinite DEF CounterOK, LocalOK
    <3>4. QED
      BY <1>2, <2>3, <3>3
  <2>5. CASE ~Above(counter + 1, q)
    <3>1. at' = [at EXCEPT ![q] = "passed"] /\ passed' = passed \cup {q}
      BY <2>1, <2>5 DEF Verdict
    <3>2. Claimed' = Claimed \cup {q}
      BY <2>2, <3>1 DEF Claimed
    <3>3. Cardinality(Claimed') <= counter'
      BY <1>1, <1>4, <3>2, CountedAreFinite DEF CounterOK
    <3>4. q \in passed' /\ Cardinality(Claimed') <= rps'[q]
      <4>1. counter' <= rps[q]
        BY <1>1, <2>5 DEF Above
      <4>2. Cardinality(Claimed') \in Nat
        BY <1>4, <3>2, CountedAreFinite
      <4>3. QED
        BY <1>1, <3>1, <3>3, <4>1, <4>2
    <3>5. CounterOK'
      BY <1>1, <1>3, <3>1, <3>3, <3>4 DEF CounterOK, LocalOK
    <3>6. QED
      BY <1>2, <2>3, <3>5
  <2>6. QED
    BY <2>4, <2>5
<1>7. QED
  BY <1>5, <1>6

\* EXPIRE ends the life of the counter some time; its sender passes.
LEMMA ExpiryKeepsInv ==
    ASSUME RateIInv, NEW q \in Requests, SetExpiry(q)
    PROVE  RateIInv'
<1> USE DEF RateIInv
<1>1. /\ at[q] = "expire" /\ q \in Expirers
      /\ rps[q] \in Nat /\ rps[q] > 0 /\ counter \in Nat /\ counter > 0
      /\ UNCHANGED <<limit, cached, capacity, tokens, rps, counter, stranded>>
      /\ expiring' = (counter > 0)
  BY LimitsArePositive DEF SetExpiry, CounterOK, ExpiryOK, LocalOK, Expirers
<1>2. ~Above(1, q)
  BY <1>1 DEF Above
<1>3. at' = [at EXCEPT ![q] = "passed"] /\ passed' = passed \cup {q}
  BY <1>2 DEF SetExpiry, Verdict
<1>4. Expirers' = {} /\ Uncounted' = Uncounted /\ Claimed' = Claimed
  BY <1>1, <1>3 DEF Expirers, Uncounted, Claimed, LocalOK, ExpiryOK
<1>5. LocalOK'
  BY <1>1, <1>3 DEF LocalOK, Places
<1>6. CounterOK'
  <2>1. CASE passed = {}
    <3>1. Claimed' = {q}
      BY <1>3, <1>4, <2>1 DEF Claimed
    <3>2. Cardinality(Claimed') = 1
      BY <3>1, FS_Singleton
    <3>3. QED
      BY <1>1, <1>3, <1>4, <3>2 DEF CounterOK, LocalOK
  <2>2. CASE passed # {}
    <3>1. PICK p \in passed : Cardinality(Claimed) <= rps[p]
      BY <2>2 DEF CounterOK
    <3>2. QED
      BY <1>1, <1>3, <1>4, <3>1 DEF CounterOK, LocalOK
  <2>3. QED
    BY <2>1, <2>2
<1>7. ExpiryOK' /\ FlagsOK'
  BY <1>1, <1>4, Zenon DEF ExpiryOK, FlagsOK
<1>8. QED
  BY <1>5, <1>6, <1>7

\* The second is over: a counter that ends has nobody waiting to expire it.
LEMMA WindowKeepsInv == RateIInv /\ EndWindow => RateIInv'
<1> SUFFICES ASSUME RateIInv, EndWindow
             PROVE  RateIInv'
  OBVIOUS
<1> USE DEF RateIInv
<1>1. /\ counter' = 0 /\ ~expiring' /\ passed' = {}
      /\ UNCHANGED <<limit, cached, capacity, tokens, at, rps, stranded>>
      /\ Expirers = {} /\ counter \in Nat
  BY DEF EndWindow, ExpiryOK, CounterOK
<1>2. Expirers' = {} /\ Uncounted' = Uncounted /\ Claimed' = {}
  BY <1>1 DEF Expirers, Uncounted, Claimed
<1>3. LocalOK'
  BY <1>1 DEF LocalOK
<1>4. CounterOK'
  BY <1>1, <1>2, CountedAreFinite, FS_EmptySet DEF CounterOK
<1>5. ExpiryOK'
  <2>1. ~stranded
    BY DEF EndWindow, ExpiryOK
  <2>2. ~(counter' > 0)
    BY <1>1
  <2>3. QED
    BY <1>1, <1>2, <2>1, <2>2, Zenon DEF ExpiryOK
<1>6. FlagsOK'
  BY <1>1, Zenon DEF EndWindow, FlagsOK
<1>7. QED
  BY <1>3, <1>4, <1>5, <1>6

\* Redis, the database or a process goes away.
LEMMA FaultsKeepInv ==
    ASSUME RateIInv, (\E q \in Requests : BackendDown(q)) \/ (\E g \in Gates : Crash(g))
    PROVE  RateIInv'
<1> USE DEF RateIInv
<1>1. UNCHANGED <<limit, cached, rps, counter, expiring, passed>>
  BY DEF BackendDown, Crash
<1>2. at' \in [Requests -> Places] /\ \A q \in Requests : at'[q] \in {at[q], "failed"}
  BY DEF BackendDown, Crash, LocalOK, Places
<1>3. \A q \in Requests : at[q] = "passed" => at'[q] = "passed"
  BY DEF BackendDown, Crash, LocalOK
<1>4. Uncounted' \subseteq Uncounted /\ Expirers' \subseteq Expirers
  BY <1>2 DEF Uncounted, Expirers
<1>5. LocalOK'
  <2>1. ASSUME NEW g \in Gates, Crash(g)
        PROVE  LocalOK'
    BY <1>1, <1>2, <2>1 DEF Crash, LocalOK, DefaultCapacity
  <2>2. ASSUME NEW q \in Requests, BackendDown(q)
        PROVE  LocalOK'
    BY <1>1, <1>2, <2>2 DEF BackendDown, LocalOK
  <2>3. QED
    BY <2>1, <2>2
<1>6. CounterOK'
  BY <1>1, <1>3, <1>4, <1>5, CountsKept DEF CounterOK, LocalOK
<1>7. FlagsOK'
  <2>1. stranded' \in BOOLEAN
    BY Zenon DEF BackendDown, Crash, FlagsOK
  <2>2. QED
    BY <1>1, <2>1, Zenon DEF FlagsOK
<1>8. /\ Expirers' = Expirers \/ stranded'
      /\ Expirers' # {} => stranded' = stranded
  <2>1. ASSUME NEW q \in Requests, BackendDown(q)
        PROVE  /\ Expirers' = Expirers \/ stranded'
               /\ Expirers' # {} => stranded' = stranded
    <3>1. CASE at[q] = "expire"
      <4>1. Expirers = {q} /\ stranded'
        BY <2>1, <3>1, Zenon DEF BackendDown, Expirers, ExpiryOK
      <4>2. Expirers' = {}
        BY <2>1, <4>1, <1>4 DEF BackendDown, Expirers, LocalOK
      <4>3. QED
        BY <4>1, <4>2
    <3>2. CASE at[q] # "expire"
      <4>1. stranded' = stranded
        BY <2>1, <3>2, Zenon DEF BackendDown, FlagsOK
      <4>2. Expirers' = Expirers
        BY <2>1, <3>2 DEF BackendDown, Expirers, LocalOK
      <4>3. QED
        BY <4>1, <4>2
    <3>3. QED
      BY <3>1, <3>2
  <2>2. ASSUME NEW g \in Gates, Crash(g)
        PROVE  /\ Expirers' = Expirers \/ stranded'
               /\ Expirers' # {} => stranded' = stranded
    <3>1. CASE \E q \in Requests : gate[q] = g /\ at[q] = "expire"
      <4>1. PICK q \in Requests : gate[q] = g /\ at[q] = "expire"
        BY <3>1
      <4>2. Expirers = {q} /\ stranded'
        <5>1. q \in Expirers /\ \A p \in Expirers : p = q
          BY <4>1, Zenon DEF Expirers, ExpiryOK
        <5>2. stranded'
          BY <2>2, <4>1, Zenon DEF Crash
        <5>3. QED
          BY <5>1, <5>2
      <4>3. Expirers' = {}
        BY <2>2, <4>1, <4>2, <1>4 DEF Crash, Expirers, LocalOK
      <4>4. QED
        BY <4>2, <4>3
    <3>2. CASE ~\E q \in Requests : gate[q] = g /\ at[q] = "expire"
      <4>1. stranded' = stranded
        BY <2>2, <3>2, Zenon DEF Crash, FlagsOK
      <4>2. Expirers' = Expirers
        BY <2>2, <3>2 DEF Crash, Expirers, LocalOK
      <4>3. QED
        BY <4>1, <4>2
    <3>3. QED
      BY <3>1, <3>2
  <2>3. QED
    BY <2>1, <2>2
<1>9. /\ stranded => stranded'
      /\ stranded' => stranded \/ Expirers # {}
  BY Zenon DEF BackendDown, Crash, Expirers
<1>10. ExpiryOK'
  <2>1. \A p, q \in Expirers' : p = q
    BY <1>4 DEF ExpiryOK
  <2>2. Expirers' # {} => counter' > 0 /\ ~expiring'
    BY <1>1, <1>4, Zenon DEF ExpiryOK
  <2>3. counter' > 0 /\ ~expiring' => stranded' \/ Expirers' # {}
    BY <1>1, <1>8, <1>9, Zenon DEF ExpiryOK
  <2>4. stranded' => counter' > 0 /\ ~expiring' /\ Expirers' = {}
    <3> SUFFICES ASSUME stranded'
                 PROVE  counter' > 0 /\ ~expiring' /\ Expirers' = {}
      OBVIOUS
    <3>1. counter > 0 /\ ~expiring
      BY <1>9, Zenon DEF ExpiryOK
    <3>2. Expirers' # {} => stranded
      BY <1>8
    <3>3. stranded => Expirers' = {}
      BY <1>4 DEF ExpiryOK
    <3>4. QED
      BY <1>1, <3>1, <3>2, <3>3
  <2>5. QED
    BY <1>1, <2>1, <2>2, <2>3, <2>4, Zenon DEF ExpiryOK
<1>11. QED
  BY <1>5, <1>6, <1>7, <1>10

\* Redis performs a command whose reply is lost: the request no longer counts as one that may pass.
LEMMA LossKeepsInv ==
    ASSUME RateIInv, NEW q \in Requests, ReplyLost(q)
    PROVE  RateIInv'
<1> USE DEF RateIInv
<1>1. /\ at' = [at EXCEPT ![q] = "failed"] /\ q \notin passed /\ counter \in Nat
      /\ UNCHANGED <<limit, cached, capacity, tokens, rps, passed>>
  BY DEF ReplyLost, CounterOK
<1>2. LocalOK' /\ Expirers' = Expirers \ {q} /\ Uncounted' = Uncounted \ {q}
  BY <1>1 DEF LocalOK, Places, Expirers, Uncounted
<1>3. CASE at[q] = "incr"
  <2>1. /\ counter' = counter + 1 /\ expiring' = expiring
        /\ stranded' = (stranded \/ counter = 0)
        /\ q \in Uncounted /\ Expirers' = Expirers /\ Claimed' = Claimed
    BY <1>1, <1>2, <1>3 DEF ReplyLost, SetsExpiry, Uncounted, Expirers, Claimed
  <2>2. Cardinality(Uncounted') = Cardinality(Uncounted) - 1
    BY <1>2, <2>1, CountedAreFinite, FS_RemoveElement
  <2>3. CounterOK'
    BY <1>1, <2>1, <2>2, CountedAreFinite DEF CounterOK, LocalOK
  <2>4. counter' > 0 /\ (counter > 0 \/ counter = 0) /\ ~(counter > 0 /\ counter = 0)
    BY <1>1, <2>1
  <2>5. ExpiryOK'
    BY <2>1, <2>4, Zenon DEF ExpiryOK
  <2>6. FlagsOK'
    BY <2>1, Zenon DEF FlagsOK
  <2>7. QED
    BY <1>2, <2>3, <2>5, <2>6
<1>4. CASE at[q] = "expire"
  <2>1. /\ counter' = counter /\ stranded' = stranded /\ expiring' = (counter > 0)
        /\ q \in Expirers
    BY <1>1, <1>4 DEF ReplyLost, Expirers
  <2>2. counter > 0 /\ ~stranded /\ Expirers' = {} /\ Uncounted' = Uncounted
    BY <1>2, <1>4, <2>1 DEF ExpiryOK, Uncounted
  <2>3. CounterOK'
    BY <1>1, <1>2, <2>1, <2>2, CountsKept DEF CounterOK, LocalOK
  <2>4. expiring' /\ counter' > 0 /\ ~stranded' /\ Expirers' = {}
    BY <2>1, <2>2
  <2>5. ExpiryOK'
    BY <2>4, Zenon DEF ExpiryOK
  <2>6. FlagsOK'
    <3>1. stranded' \in BOOLEAN
      BY <2>1, Zenon DEF FlagsOK
    <3>2. expiring' \in BOOLEAN
      BY <2>4
    <3>3. QED
      BY <3>1, <3>2, Zenon DEF FlagsOK
  <2>7. QED
    BY <1>2, <2>3, <2>5, <2>6
<1>5. QED
  BY <1>3, <1>4 DEF ReplyLost

\* Time passes, or the admin sets another limit.
LEMMA TimeKeepsInv ==
    ASSUME RateIInv,
           (\E g \in Gates : Refill(g)) \/ ExpireCache \/ (\E n \in UserRps : UpdateRateLimit(n))
    PROVE  RateIInv'
<1> USE DEF RateIInv
<1>1. UNCHANGED <<at, rps, counter, expiring, passed, stranded, capacity>>
  BY DEF Refill, ExpireCache, UpdateRateLimit
<1>2. Uncounted' = Uncounted /\ Expirers' = Expirers /\ Claimed' = Claimed
  BY <1>1 DEF Uncounted, Expirers, Claimed
<1>3. CounterOK' /\ ExpiryOK' /\ FlagsOK'
  BY <1>1, <1>2, Zenon DEF CounterOK, ExpiryOK, FlagsOK
<1>4. LocalOK'
  <2>1. ASSUME NEW g \in Gates, Refill(g)
        PROVE  LocalOK'
    <3>1. \A n \in UserRps \cup {DefaultCapacity} : n \in Nat
      BY LimitsArePositive DEF DefaultCapacity
    <3>2. tokens[g] \in Nat /\ capacity[g] \in Nat /\ tokens[g] < capacity[g]
      BY <2>1, <3>1 DEF Refill, LocalOK
    <3>3. tokens[g] + 1 \in Nat /\ tokens[g] + 1 <= capacity[g]
      BY <3>2
    <3>4. QED
      BY <1>1, <2>1, <3>3 DEF Refill, LocalOK
  <2>2. CASE ExpireCache
    BY <1>1, <2>2 DEF ExpireCache, LocalOK
  <2>3. ASSUME NEW n \in UserRps, UpdateRateLimit(n)
        PROVE  LocalOK'
    BY <1>1, <2>3 DEF UpdateRateLimit, LocalOK
  <2>4. QED
    BY <2>1, <2>2, <2>3
<1>5. QED
  BY <1>3, <1>4

\* Every step keeps the inductive invariant.
LEMMA RateNextKeepsInv == RateIInv /\ [RateNext]_rateVars => RateIInv'
<1> SUFFICES ASSUME RateIInv, [RateNext]_rateVars
             PROVE  RateIInv'
  OBVIOUS
<1>1. CASE \E q \in Requests : RequestStep(q)
  BY <1>1, LocalKeepsInv, IncrKeepsInv, ExpiryKeepsInv DEF RequestStep
<1>2. CASE (\E q \in Requests : BackendDown(q)) \/ (\E g \in Gates : Crash(g))
  BY <1>2, FaultsKeepInv
<1>3. CASE EndWindow
  BY <1>3, WindowKeepsInv
<1>6. CASE \E q \in Requests : ReplyLost(q)
  BY <1>6, LossKeepsInv
<1>4. CASE (\E g \in Gates : Refill(g)) \/ ExpireCache \/ (\E n \in UserRps : UpdateRateLimit(n))
  BY <1>4, TimeKeepsInv
<1>5. CASE UNCHANGED rateVars
  BY <1>5 DEF rateVars, RateIInv, LocalOK, CounterOK, ExpiryOK, FlagsOK, Uncounted, Expirers, Claimed
<1>7. QED
  BY <1>1, <1>2, <1>3, <1>4, <1>5, <1>6 DEF RateNext

\* The safety part of the specification is enough.
LEMMA RateAlways == RateInit /\ [][RateNext]_rateVars => []RateInv
BY RateStarts, RateNextKeepsInv, RateIsEnough, PTL

(***************************************************************************)
(* In one life of the Redis counter no more requests pass than the limit   *)
(* some of them was given, through any number of processes, and a counter  *)
(* has no time to live exactly while its first request is to set one, or   *)
(* for ever once that request has been cut off before it did.              *)
(***************************************************************************)
THEOREM RateInvariant == RateSpec => []RateInv
BY RateAlways DEF RateSpec

-----------------------------------------------------------------------------
\* The circuit breaker: the flags of its invariant and its counts are proved apart.

\* Types of the flags.
Flags == cooled \in BOOLEAN /\ healthy \in BOOLEAN /\ wasted \in BOOLEAN

\* The counts of the breaker, and the calls it let through.
Counts ==
    /\ circuit \in {"closed", "open", "half_open"}
    /\ failures \in 0..failure_threshold
    /\ half_open_calls \in 0..half_open_max_calls
    /\ successes \in 0..(half_open_max_calls - 1)
    /\ running \subseteq Callers
    /\ probing \subseteq running
    /\ probes \in 0..half_open_max_calls
    /\ circuit = "half_open" => probes = half_open_calls

\* The two halves are the invariant.
LEMMA Halves == BreakerInv <=> Flags /\ Counts
BY DEF BreakerInv, Flags, Counts

\* A closed, cold breaker satisfies the invariant.
LEMMA BreakerStarts == BreakerInit => Flags /\ Counts
<1> SUFFICES ASSUME BreakerInit PROVE Flags /\ Counts
  OBVIOUS
<1>1. Flags
  BY Zenon DEF BreakerInit, Flags
<1>2. Counts
  BY BreakerAssumption DEF BreakerAssumption, BreakerInit, Counts
<1>3. QED
  BY <1>1, <1>2

\* Flags stay flags in every step.
LEMMA FlagsKept ==
    ASSUME Flags, [BreakerNext]_breakerVars
    PROVE  Flags'
<1>1. CASE UNCHANGED breakerVars
  BY <1>1, Zenon DEF Flags, breakerVars
<1>2. ASSUME NEW c \in Callers, Call(c) \/ Refuse(c) \/ Succeed(c) \/ Fail(c) \/ Cancel(c)
      PROVE  Flags'
  BY <1>2, Zenon DEF Flags, Call, Refuse, Succeed, Fail, Cancel
<1>3. CASE GetStats \/ Reset \/ Cool \/ Heal
  BY <1>3, Zenon DEF Flags, GetStats, Reset, Cool, Heal
<1>4. QED
  BY <1>1, <1>2, <1>3 DEF BreakerNext

\* Reading the state, which may start a half-open phase, keeps the counts.
LEMMA CallsKeepCounts ==
    ASSUME Counts, NEW c \in Callers, Call(c) \/ Refuse(c)
    PROVE  Counts'
<1> USE BreakerAssumption DEF BreakerAssumption, Counts
<1>1. CASE Refuse(c)
  BY <1>1 DEF Refuse
<1>2. CASE Call(c)
  <2>1. CASE Turns
    BY <1>2, <2>1 DEF Call, State, UsedProbes, HalfOpened
  <2>2. CASE ~Turns
    BY <1>2, <2>2 DEF Call, State, UsedProbes
  <2>3. QED
    BY <2>1, <2>2
<1>3. QED
  BY <1>1, <1>2

\* So do the results of calls, of whatever phase they stem from.
LEMMA ResultsKeepCounts ==
    ASSUME Counts, NEW c \in Callers, Succeed(c) \/ Fail(c) \/ Cancel(c)
    PROVE  Counts'
<1> USE BreakerAssumption DEF BreakerAssumption, Counts
<1>1. CASE Succeed(c)
  BY <1>1 DEF Succeed
<1>2. CASE Fail(c)
  <2>1. Saturated(failures + 1) \in 0..failure_threshold
    BY DEF Saturated
  <2>2. QED
    BY <1>2, <2>1 DEF Fail
<1>3. CASE Cancel(c)
  BY <1>3 DEF Cancel
<1>4. QED
  BY <1>1, <1>2, <1>3

\* And the statistics, reset, time and the service itself.
LEMMA OthersKeepCounts ==
    ASSUME Counts, GetStats \/ Reset \/ Cool \/ Heal
    PROVE  Counts'
BY BreakerAssumption DEF BreakerAssumption, Counts, GetStats, Reset, Cool, Heal, HalfOpened

\* The safety part of the specification is enough.
LEMMA BreakerAlways == BreakerInit /\ [][BreakerNext]_breakerVars => []BreakerInv
<1>1. BreakerInit => Flags /\ Counts
  BY BreakerStarts
<1>2. Flags /\ Counts /\ [BreakerNext]_breakerVars => (Flags /\ Counts)'
  <2> SUFFICES ASSUME Flags, Counts, [BreakerNext]_breakerVars PROVE Flags' /\ Counts'
    OBVIOUS
  <2>1. CASE BreakerNext
    BY <2>1, FlagsKept, CallsKeepCounts, ResultsKeepCounts, OthersKeepCounts DEF BreakerNext
  <2>2. CASE UNCHANGED breakerVars
    BY <2>2, FlagsKept DEF Counts, breakerVars
  <2>3. QED
    BY <2>1, <2>2
<1>3. QED
  BY <1>1, <1>2, Halves, PTL

(***************************************************************************)
(* A half-open phase admits no more calls than it may, and the breaker is  *)
(* never left half-open with as many successes as close it, whatever late  *)
(* results, cancelled probes and resets do (CircuitBreaker.call).          *)
(***************************************************************************)
THEOREM BreakerInvariant == BreakerSpec => []BreakerInv
BY BreakerAlways DEF BreakerSpec

-----------------------------------------------------------------------------
\* The vector search and the reranking.

\* The inductive invariant: a query that pauses has an attempt left, and only a query
\* that was answered has scores.
RagIInv ==
    /\ RagTypeOK
    /\ Cardinality(RunningJobs) <= Threads
    /\ \A q \in RagQueries :
         /\ query[q] = "chat_only" => tries[q] = MaxRetries + 1
         /\ query[q] = "delay" => tries[q] <= MaxRetries
         /\ query[q] # "answered" => scored[q] = <<>>
         /\ query[q] = "answered" => BestFirst(context[q], scored[q], ranking[q])

\* The inductive invariant is stronger than what the runs check.
LEMMA AnswersAreBest == RagIInv => RagInv
BY DEF RagIInv, RagInv

\* The first state has searches alone.
LEMMA RagStart == RagInit => RagIInv
<1> SUFFICES ASSUME RagInit
             PROVE  RagIInv
  OBVIOUS
<1>1. <<>> \in Seq(Nat) /\ <<>> \in Seq(Scores)
  BY EmptySeq
<1>2. 1 \in 1..(MaxRetries + 1)
  BY RagAssumption
<1>3. RagTypeOK
  BY <1>1, <1>2 DEF RagInit, RagTypeOK, EndOfQuery
<1>4. RunningJobs = {} /\ Cardinality({}) = 0
  BY FS_EmptySet DEF RagInit, RunningJobs
<1>5. Cardinality(RunningJobs) <= Threads
  BY <1>4, RagAssumption
<1>6. QED
  BY <1>3, <1>5 DEF RagInit, RagIInv

\* The first chunks of a list that has each chunk once: as many as are used, each once.
LEMMA FirstOfOnce ==
    ASSUME NEW n \in Nat, NEW c \in [1..n -> 1..n],
           \A j, k \in 1..n : c[j] = c[k] => j = k
    PROVE  LET m == IF n < Top THEN n ELSE Top
           IN  /\ FirstOf(c) \in Seq(Nat) /\ Len(FirstOf(c)) = m
               /\ DOMAIN FirstOf(c) = 1..m /\ m <= n
               /\ \A r \in 1..m : FirstOf(c)[r] = c[r]
               /\ IsInjective(FirstOf(c))
<1> DEFINE m == IF n < Top THEN n ELSE Top
           f == FirstOf(c)
<1>1. c \in Seq(1..n) /\ Len(c) = n
  BY SeqDef
<1>2. m \in Nat /\ m <= n /\ Top \in Nat
  BY RagAssumption
<1>3. f = SubSeq(c, 1, m)
  BY <1>1 DEF FirstOf
<1> HIDE DEF m, f
<1>4. /\ f \in Seq(1..n) /\ Len(f) = m /\ DOMAIN f = 1..m
      /\ f \in [1..m -> 1..n] /\ \A r \in 1..m : f[r] = c[r]
  <2>1. \A i \in 1..m : i \in 1..Len(c)
    BY <1>1, <1>2
  <2>2. 1..m \subseteq 1..Len(c)
    BY <2>1
  <2>3. f = [i \in 1..m |-> c[i]]
    BY <1>1, <1>3, <1>2
  <2>4. f \in [1..m -> 1..n]
    BY <2>3, <1>2
  <2>5. f \in Seq(1..n) /\ Len(f) = m
    BY <2>4, <1>2, SeqDef
  <2>6. QED
    BY <2>3, <2>4, <2>5
<1>5. f \in Seq(Nat)
  <2>1. f \in [1..m -> Nat]
    <3>1. f \in [1..m -> 1..n] /\ 1..n \subseteq Nat
      BY <1>4
    <3>2. QED
      BY <3>1
  <2>2. QED
    BY <2>1, <1>2, SeqDef
<1>6. IsInjective(f)
  <2> SUFFICES ASSUME NEW j \in 1..m, NEW k \in 1..m, f[j] = f[k]
               PROVE  j = k
    BY <1>4 DEF IsInjective
  <2>1. j \in 1..n /\ k \in 1..n
    BY <1>2
  <2>2. c[j] = c[k]
    BY <1>4
  <2>3. QED
    BY <2>1, <2>2
<1>7. QED
  BY <1>2, <1>4, <1>5, <1>6 DEF m, f

\* The head of a list of all the chunks, each once, in falling score or in the order found,
\* is a best answer.
LEMMA HeadIsBest ==
    ASSUME NEW n \in Nat, NEW c \in [1..n -> 1..n], NEW s,
           \A j, k \in 1..n : c[j] = c[k] => j = k,
           \A i \in 1..n : \E k \in 1..n : c[k] = i,
           \A j, k \in 1..n : j < k => IF s = <<>> THEN c[j] < c[k] ELSE Before(s, c[j], c[k])
    PROVE  FirstOf(c) \in Seq(Nat) /\ BestFirst(FirstOf(c), s, n)
<1> DEFINE m == IF n < Top THEN n ELSE Top
           f == FirstOf(c)
           rises(x, y) == IF s = <<>> THEN x < y ELSE Before(s, x, y)
<1>1. /\ f \in Seq(Nat) /\ Len(f) = m /\ DOMAIN f = 1..m /\ m <= n
      /\ \A r \in 1..m : f[r] = c[r]
      /\ IsInjective(f)
  BY FirstOfOnce
<1>2. m \in Nat
  BY RagAssumption
<1>3. \A j, k \in 1..n : j < k => rises(c[j], c[k])
  OBVIOUS
<1>m. Len(f) = IF n < Top THEN n ELSE Top
  BY <1>1
<1> HIDE DEF f, m, rises
<1>4. ASSUME NEW r \in 1..m, NEW i \in 1..n, \A p \in 1..r : f[p] # i
      PROVE  rises(f[r], i)
  <2>1. PICK k \in 1..n : c[k] = i
    OBVIOUS
  <2>2. r \in Int /\ k \in Int /\ m \in Int
    BY <1>2
  <2>3. ASSUME k <= r
        PROVE  FALSE
    <3>1. k \in 1..r /\ k \in 1..m
      BY <2>2, <2>3
    <3>2. f[k] = i
      BY <3>1, <2>1, <1>1
    <3>3. QED
      BY <3>1, <3>2, <1>4
  <2>4. r < k /\ r \in 1..n
    BY <2>2, <2>3, <1>1
  <2>5. rises(c[r], c[k])
    BY <2>4, <1>3
  <2>6. f[r] = c[r]
    BY <1>1
  <2>7. QED
    BY <2>1, <2>5, <2>6
<1>5. \A r \in DOMAIN f : \A i \in 1..n :
         (\A p \in 1..r : f[p] # i) => IF s = <<>> THEN f[r] < i ELSE Before(s, f[r], i)
  BY <1>1, <1>4 DEF rises
<1>6. BestFirst(f, s, n)
  BY <1>1, <1>m, <1>5 DEF BestFirst
<1>7. QED
  BY <1>1, <1>6 DEF f

\* The threads are not exceeded by jobs that only end.
LEMMA ThreadsKept ==
    ASSUME RagIInv, \A p \in RagQueries : job'[p] = "running" => job[p] = "running"
    PROVE  Cardinality(RunningJobs)' <= Threads
<1>1. RunningJobs' \subseteq RunningJobs /\ IsFiniteSet(RunningJobs)
  <2>1. RunningJobs \subseteq RagQueries /\ RunningJobs' \subseteq RunningJobs
    BY DEF RunningJobs
  <2>2. QED
    BY <2>1, RagAssumption, FS_Subset
<1>2. /\ IsFiniteSet(RunningJobs') /\ Cardinality(RunningJobs') <= Cardinality(RunningJobs)
      /\ Cardinality(RunningJobs) \in Nat /\ Cardinality(RunningJobs') \in Nat
  BY <1>1, FS_Subset, FS_CardinalityType
<1>3. QED
  BY <1>2, RagAssumption DEF RagIInv

\* A step that gives a query a best answer, or none.
LEMMA OneQueryMoves ==
    ASSUME RagIInv, RagTypeOK', Cardinality(RunningJobs)' <= Threads,
           NEW q \in RagQueries,
           query'[q] = "chat_only" => tries'[q] = MaxRetries + 1,
           query'[q] = "delay" => tries'[q] <= MaxRetries,
           query'[q] # "answered" => scored'[q] = <<>>,
           query'[q] = "answered" => BestFirst(context'[q], scored'[q], ranking'[q]),
           \A p \in RagQueries \ {q} : /\ query'[p] = query[p] /\ tries'[p] = tries[p]
                                       /\ ranking'[p] = ranking[p]
                                       /\ context'[p] = context[p] /\ scored'[p] = scored[p]
    PROVE  RagIInv'
<1>1. (\A p \in RagQueries :
         /\ query[p] = "chat_only" => tries[p] = MaxRetries + 1
         /\ query[p] = "delay" => tries[p] <= MaxRetries
         /\ query[p] # "answered" => scored[p] = <<>>
         /\ query[p] = "answered" => BestFirst(context[p], scored[p], ranking[p]))'
  BY DEF RagIInv
<1>2. QED
  BY <1>1 DEF RagIInv
\* Failed searches and delays.
LEMMA SearchGoesOn ==
    ASSUME RagIInv, NEW q \in RagQueries, SearchFails(q) \/ SearchAgain(q)
    PROVE  RagIInv'
<1>t. tries[q] \in 1..(MaxRetries + 1) /\ MaxRetries \in Nat
  BY RagAssumption DEF RagIInv, RagTypeOK
<1>1. Cardinality(RunningJobs)' <= Threads
  <2>1. job' = job
    BY DEF SearchFails, SearchAgain
  <2>2. QED
    BY <2>1, ThreadsKept
<1>2. CASE SearchFails(q)
  <2>1. query'[q] \in {"chat_only", "delay"}
    BY <1>2 DEF SearchFails, RagIInv, RagTypeOK
  <2>2. query'[q] = "chat_only" => tries[q] = MaxRetries + 1
    BY <1>t, <1>2 DEF SearchFails, Exhausted, RagIInv, RagTypeOK
  <2>3. query'[q] = "delay" => tries[q] <= MaxRetries
    BY <1>t, <1>2 DEF SearchFails, Exhausted, RagIInv, RagTypeOK
  <2>4. /\ UNCHANGED <<tries, ranking, job, context, scored>>
        /\ scored[q] = <<>>
        /\ \A p \in RagQueries \ {q} : query'[p] = query[p]
    BY <1>2 DEF SearchFails, RagIInv, RagTypeOK
  <2>5. RagTypeOK'
    BY <1>2 DEF SearchFails, RagIInv, RagTypeOK, EndOfQuery
  <2>6. QED
    BY <1>1, <2>1, <2>2, <2>3, <2>4, <2>5, OneQueryMoves
<1>3. CASE SearchAgain(q)
  <2>1. query'[q] = "search" /\ tries[q] <= MaxRetries /\ tries' = [tries EXCEPT ![q] = @ + 1]
    BY <1>3 DEF SearchAgain, RagIInv, RagTypeOK
  <2>2. tries[q] + 1 \in 1..(MaxRetries + 1)
    BY <2>1, <1>t
  <2>3. RagTypeOK'
    <3>1. tries' \in [RagQueries -> 1..(MaxRetries + 1)]
      BY <2>1, <2>2 DEF RagIInv, RagTypeOK
    <3>2. QED
      BY <3>1, <1>3 DEF SearchAgain, RagIInv, RagTypeOK
  <2>4. /\ UNCHANGED <<ranking, job, context, scored>>
        /\ scored[q] = <<>>
        /\ \A p \in RagQueries \ {q} : query'[p] = query[p] /\ tries'[p] = tries[p]
    BY <1>3 DEF SearchAgain, RagIInv, RagTypeOK
  <2>5. QED
    BY <1>1, <2>1, <2>3, <2>4, OneQueryMoves
<1>4. QED
  BY <1>2, <1>3

\* A search that finds chunks gives them to the executor.
LEMMA FoundChunks ==
    ASSUME RagIInv, NEW q \in RagQueries, NEW n \in Found, SearchFinds(q, n)
    PROVE  RagIInv'
<1>1. query'[q] \in {"ranking", "no_answer"} /\ scored[q] = <<>>
  BY DEF SearchFinds, RagIInv, RagTypeOK
<1>2. /\ UNCHANGED <<tries, context, scored>>
      /\ \A p \in RagQueries \ {q} : query'[p] = query[p] /\ ranking'[p] = ranking[p]
      /\ \A p \in RagQueries : job'[p] = "running" => job[p] = "running"
  BY DEF SearchFinds, RagIInv, RagTypeOK
<1>3. RagTypeOK'
  BY DEF SearchFinds, RagIInv, RagTypeOK, EndOfQuery
<1>4. Cardinality(RunningJobs)' <= Threads
  BY <1>2, ThreadsKept
<1>5. QED
  BY <1>1, <1>2, <1>3, <1>4, OneQueryMoves

\* A job begins only in a thread that no other has.
LEMMA JobBegins ==
    ASSUME RagIInv, NEW q \in RagQueries, StartJob(q)
    PROVE  RagIInv'
<1>1. UNCHANGED <<query, tries, ranking, context, scored>> /\ job' = [job EXCEPT ![q] = "running"]
  BY DEF StartJob
<1>2. RagTypeOK'
  BY <1>1 DEF RagIInv, RagTypeOK
<1>3. RunningJobs' = RunningJobs \cup {q}
  BY <1>1 DEF RunningJobs, RagIInv, RagTypeOK
<1>4. IsFiniteSet(RunningJobs)
  <2>1. RunningJobs \subseteq RagQueries
    BY DEF RunningJobs
  <2>2. QED
    BY <2>1, RagAssumption, FS_Subset
<1>5. /\ Cardinality(RunningJobs) \in Nat /\ Cardinality(RunningJobs) < Threads
      /\ Cardinality(RunningJobs') <= Cardinality(RunningJobs) + 1
      /\ Cardinality(RunningJobs') \in Nat
  <2>1. Cardinality(RunningJobs) \in Nat
    BY <1>4, FS_CardinalityType
  <2>2. /\ IsFiniteSet(RunningJobs \cup {q})
        /\ Cardinality(RunningJobs \cup {q}) =
             IF q \in RunningJobs THEN Cardinality(RunningJobs) ELSE Cardinality(RunningJobs) + 1
    BY <1>4, FS_AddElement
  <2>3. Cardinality(RunningJobs) < Threads
    BY DEF StartJob
  <2>4. QED
    BY <1>3, <2>1, <2>2, <2>3
<1>6. Cardinality(RunningJobs)' <= Threads
  BY <1>5, RagAssumption
<1>7. QED
  BY <1>1, <1>2, <1>6 DEF RagIInv

\* The job of a query fails, or gives its scores after the query gave up waiting.
LEMMA JobIsOver ==
    ASSUME RagIInv, NEW q \in RagQueries, job' = [job EXCEPT ![q] = "over"],
           query' = query \/ (query[q] = "ranking" /\ query' = [query EXCEPT ![q] = "error"]),
           UNCHANGED <<tries, ranking, context, scored>>
    PROVE  RagIInv'
<1>1. RagTypeOK'
  BY DEF RagIInv, RagTypeOK, EndOfQuery
<1>2. Cardinality(RunningJobs)' <= Threads
  <2>1. \A p \in RagQueries : job'[p] = "running" => job[p] = "running"
    BY DEF RagIInv, RagTypeOK
  <2>2. QED
    BY <2>1, ThreadsKept
<1>3. CASE query' = query
  BY <1>1, <1>2, <1>3 DEF RagIInv
<1>4. CASE query[q] = "ranking" /\ query' = [query EXCEPT ![q] = "error"]
  <2>1. /\ query'[q] = "error" /\ scored[q] = <<>>
        /\ \A p \in RagQueries \ {q} : query'[p] = query[p]
    BY <1>4 DEF RagIInv, RagTypeOK
  <2>2. QED
    BY <1>1, <1>2, <2>1, OneQueryMoves
<1>5. QED
  BY <1>3, <1>4

\* A query ranks a number of chunks.
LEMMA Ranked ==
    ASSUME RagIInv, NEW q \in RagQueries
    PROVE  ranking[q] \in Nat
<1>1. ranking[q] \in Found \cup {0}
  BY DEF RagIInv, RagTypeOK
<1>2. Found \subseteq Nat /\ 0 \in Nat
  BY RagAssumption
<1> DEFINE n == ranking[q]
<1> HIDE DEF n
<1>3. n \in Found \cup {0}
  BY <1>1 DEF n
<1>4. n \in Nat
  BY <1>2, <1>3, Zenon
<1>5. QED
  BY <1>4 DEF n

\* A query that waits is given the head of a list of its chunks.
LEMMA HeadAnswers ==
    ASSUME RagIInv, NEW q \in RagQueries, NEW c \in [1..ranking[q] -> 1..ranking[q]],
           NEW s \in Seq(Scores),
           \A j, k \in 1..ranking[q] : c[j] = c[k] => j = k,
           \A i \in 1..ranking[q] : \E k \in 1..ranking[q] : c[k] = i,
           \A j, k \in 1..ranking[q] : j < k =>
               IF s = <<>> THEN c[j] < c[k] ELSE Before(s, c[j], c[k]),
           query' = [query EXCEPT ![q] = "answered"],
           context' = [context EXCEPT ![q] = FirstOf(c)],
           scored' \in [RagQueries -> Seq(Scores)], scored'[q] = s,
           \A p \in RagQueries \ {q} : scored'[p] = scored[p],
           job' \in [RagQueries -> {"none", "queued", "running", "over"}],
           \A p \in RagQueries : job'[p] = "running" => job[p] = "running",
           UNCHANGED <<tries, ranking>>
    PROVE  RagIInv'
<1>1. ranking[q] \in Nat
  BY Ranked
<1>2. FirstOf(c) \in Seq(Nat) /\ BestFirst(FirstOf(c), s, ranking[q])
  BY <1>1, HeadIsBest
<1>3. RagTypeOK'
  <2>1. context' \in [RagQueries -> Seq(Nat)]
    BY <1>2 DEF RagIInv, RagTypeOK
  <2>2. query' \in [RagQueries -> {"search", "delay", "ranking"} \cup EndOfQuery]
    BY DEF RagIInv, RagTypeOK, EndOfQuery
  <2>3. QED
    BY <2>1, <2>2 DEF RagIInv, RagTypeOK
<1>4. Cardinality(RunningJobs)' <= Threads
  BY ThreadsKept
<1>5. /\ query'[q] = "answered" /\ context'[q] = FirstOf(c)
      /\ \A p \in RagQueries \ {q} : query'[p] = query[p] /\ context'[p] = context[p]
  BY DEF RagIInv, RagTypeOK
<1>6. BestFirst(context'[q], scored'[q], ranking'[q])
  BY <1>2, <1>5
<1>7. QED
  BY <1>3, <1>4, <1>5, <1>6, OneQueryMoves

\* The scores of the job rank the chunks, unless the query gave up waiting.
LEMMA ScoresCome ==
    ASSUME RagIInv, NEW q \in RagQueries, NEW s \in [1..ranking[q] -> Scores], JobScores(q, s)
    PROVE  RagIInv'
<1>1. CASE query[q] # "ranking"
  BY <1>1, JobIsOver DEF JobScores
<1>2. CASE query[q] = "ranking"
  <2> DEFINE n == ranking[q]
             c == ByScore(s)
  <2>1. n \in Nat
    BY Ranked
  <2>2. s \in Seq(Scores) /\ (s = <<>> => n = 0)
    <3>1. s \in [1..n -> Scores] /\ Len(s) = n
      BY <2>1, SeqDef
    <3>2. QED
      BY <2>1, <3>1, SeqDef, EmptySeq
  <2>3. /\ c \in [1..n -> 1..n]
        /\ \A j, k \in 1..n : j < k => Before(s, c[j], c[k])
        /\ \A j, k \in 1..n : c[j] = c[k] => j = k
        /\ \A i \in 1..n : \E k \in 1..n : c[k] = i
    <3>1. s \in [1..n -> Int]
      <4>1. \A x \in Scores : x \in Int
        BY RagAssumption
      <4>2. s \in [1..n -> Scores]
        OBVIOUS
      <4> HIDE DEF n
      <4>3. QED
        BY <4>1, <4>2
    <3>2. c = Falling(s)
      BY DEF ByScore
    <3> HIDE DEF c, n
    <3>3. /\ Falling(s) \in [1..n -> 1..n]
          /\ \A j, k \in 1..n : j < k => Before(s, Falling(s)[j], Falling(s)[k])
          /\ \A j, k \in 1..n : Falling(s)[j] = Falling(s)[k] => j = k
          /\ \A i \in 1..n : \E k \in 1..n : Falling(s)[k] = i
      BY <2>1, <3>1, FallingRanks
    <3>4. QED
      BY <3>2, <3>3
  <2>4. \A j, k \in 1..n : j < k => IF s = <<>> THEN c[j] < c[k] ELSE Before(s, c[j], c[k])
    BY <2>1, <2>2, <2>3
  <2>5. /\ query' = [query EXCEPT ![q] = "answered"]
        /\ context' = [context EXCEPT ![q] = FirstOf(c)]
        /\ scored' = [scored EXCEPT ![q] = s]
        /\ job' = [job EXCEPT ![q] = "over"]
        /\ UNCHANGED <<tries, ranking>>
    BY <1>2 DEF JobScores
  <2>6. /\ scored' \in [RagQueries -> Seq(Scores)] /\ scored'[q] = s
        /\ \A p \in RagQueries \ {q} : scored'[p] = scored[p]
    BY <2>2, <2>5 DEF RagIInv, RagTypeOK
  <2>7. /\ job' \in [RagQueries -> {"none", "queued", "running", "over"}]
        /\ \A p \in RagQueries : job'[p] = "running" => job[p] = "running"
    BY <2>5 DEF RagIInv, RagTypeOK
  <2> HIDE DEF c
  <2>8. QED
    BY <2>2, <2>3, <2>4, <2>5, <2>6, <2>7, HeadAnswers
<1>3. QED
  BY <1>1, <1>2

\* A query that has waited too long takes the chunks in the order found.
LEMMA TimeIsOver ==
    ASSUME RagIInv, NEW q \in RagQueries, RankTimeout(q)
    PROVE  RagIInv'
<1> DEFINE n == ranking[q]
           c == [i \in 1..n |-> i]
<1>1. /\ c \in [1..n -> 1..n]
      /\ \A j, k \in 1..n : j < k => c[j] < c[k]
      /\ \A j, k \in 1..n : c[j] = c[k] => j = k
      /\ \A i \in 1..n : \E k \in 1..n : c[k] = i
  OBVIOUS
<1>2. /\ query' = [query EXCEPT ![q] = "answered"]
      /\ context' = [context EXCEPT ![q] = FirstOf(c)]
      /\ job' = [job EXCEPT ![q] = IF @ = "queued" THEN "over" ELSE @]
      /\ UNCHANGED <<tries, ranking, scored>>
      /\ query[q] = "ranking"
  BY DEF RankTimeout, Overdue
<1>3. /\ job' \in [RagQueries -> {"none", "queued", "running", "over"}]
      /\ \A p \in RagQueries : job'[p] = "running" => job[p] = "running"
  BY <1>2 DEF RagIInv, RagTypeOK
<1>4. /\ scored' \in [RagQueries -> Seq(Scores)] /\ scored'[q] = <<>>
      /\ \A p \in RagQueries \ {q} : scored'[p] = scored[p]
      /\ <<>> \in Seq(Scores)
  BY <1>2 DEF RagIInv, RagTypeOK
<1> HIDE DEF c
<1>5. QED
  BY <1>1, <1>2, <1>3, <1>4, HeadAnswers

\* The invariant is inductive.
LEMMA RagStep == RagIInv /\ [RagNext]_ragVars => RagIInv'
<1> SUFFICES ASSUME RagIInv, [RagNext]_ragVars
             PROVE  RagIInv'
  OBVIOUS
<1>1. CASE UNCHANGED ragVars
  BY <1>1 DEF ragVars, RagIInv, RagTypeOK, RunningJobs
<1>2. ASSUME NEW q \in RagQueries, QueryStep(q)
      PROVE  RagIInv'
  <2>1. CASE SearchFails(q) \/ SearchAgain(q)
    BY <2>1, SearchGoesOn
  <2>2. CASE \E n \in Found : SearchFinds(q, n)
    BY <2>2, FoundChunks
  <2>3. CASE StartJob(q)
    BY <2>3, JobBegins
  <2>4. CASE JobFails(q)
    <3>1. query' = query \/ (query[q] = "ranking" /\ query' = [query EXCEPT ![q] = "error"])
      BY <2>4 DEF JobFails, RagIInv, RagTypeOK
    <3>2. QED
      BY <2>4, <3>1, JobIsOver DEF JobFails
  <2>5. CASE RankTimeout(q)
    BY <2>5, TimeIsOver
  <2>6. CASE \E s \in [1..ranking[q] -> Scores] : JobScores(q, s)
    BY <2>6, ScoresCome
  <2>7. QED
    BY <1>2, <2>1, <2>2, <2>3, <2>4, <2>5, <2>6 DEF QueryStep
<1>3. QED
  BY <1>1, <1>2 DEF RagNext

\* The safety part of the specification is enough.
LEMMA RagAlways == RagInit /\ [][RagNext]_ragVars => []RagInv
BY RagStart, RagStep, AnswersAreBest, PTL

\* A query gives up its search only after max_retries + 1 attempts, the threads of the
\* executor are never exceeded, and an answer uses, once each, the best chunks by score, or
\* the first in the order found after a timeout: for any number of queries and threads.
THEOREM RagInvariant == RagSpec => []RagInv
BY RagAlways DEF RagSpec

-----------------------------------------------------------------------------
\* The components that must get on, side by side as in the run about progress.

\* Each of them is in one of its initial states.
LEMMA ProgressStarts ==
    ASSUME ProgressInit
    PROVE  Init /\ RagInit /\ BreakerInit /\ RateInit /\ OrchInit /\ PipelineInit
BY DEF ProgressInit

\* A step of all is a step of one of them, and leaves the others as they are.
LEMMA ProgressSteps ==
    ASSUME [ProgressNext]_allVars
    PROVE  /\ [Next]_vars
           /\ [RagNext]_ragVars
           /\ [BreakerNext]_breakerVars
           /\ [RateNext]_rateVars
           /\ [OrchNext]_orchVars
           /\ [PipelineNext]_pipelineVars
<1>1. CASE UNCHANGED allVars
  BY <1>1 DEF allVars
<1>2. CASE ProgressNext
  BY <1>2 DEF ProgressNext
<1>3. QED
  BY <1>1, <1>2

(***************************************************************************)
(* Whatever turns of the graph, searches, calls through the breaker,       *)
(* requests at the gateway and workflows do, humans are called (but for a  *)
(* request that the summary of a long history swallows, see HumanIsCalled),*)
(* answers corrected, sent once and billed, and limits, probes and agents  *)
(* are counted right: the invariants of the run about progress, for every  *)
(* value of the constants and without its fairness; and the documents,     *)
(* whose end that run checks, keep theirs.                                 *)
(***************************************************************************)
THEOREM ProgressIsSafe ==
    ProgressSpec =>
       /\ [](AgentInv /\ HumanIsCalled)
       /\ [](HallucinationIsCorrected /\ AnswerOnce /\ ReportedIsBilled)
       /\ [](BreakerInv /\ RateInv /\ RagInv /\ OrchInv)
       /\ []PipelineInv
<1>1. ProgressSpec => Spec /\ PipelineSpec
  BY ProgressStarts, ProgressSteps, PTL DEF ProgressSpec, Spec, PipelineSpec
<1>2. ProgressSpec =>
         /\ RagInit /\ [][RagNext]_ragVars
         /\ BreakerInit /\ [][BreakerNext]_breakerVars
         /\ RateInit /\ [][RateNext]_rateVars
         /\ OrchInit /\ [][OrchNext]_orchVars
  BY ProgressStarts, ProgressSteps, PTL DEF ProgressSpec
<1>3. Spec => /\ [](AgentInv /\ HumanIsCalled)
              /\ [](HallucinationIsCorrected /\ AnswerOnce /\ ReportedIsBilled)
  BY AgentInvariant, HumanAlwaysCalled, HallucinationsCorrected, AnswersOnce,
     ReportedUsageBilled, PTL
<1>4. QED
  BY <1>1, <1>2, <1>3, RagAlways, BreakerAlways, RateAlways, OrchAlways, PipelineInvariant, PTL
=============================================================================

---------------------------- MODULE RateLimiter ----------------------------
(***************************************************************************)
(* The two-tier rate limit of the API gateway for the requests of one user *)
(* (api_gateway/middleware/rate_limit.py): a token bucket in each gateway  *)
(* process, then a counter in Redis that INCR creates and EXPIRE 1 ends.   *)
(* The limit is read through a cache of 60 seconds in Redis; the admin API *)
(* (admin_service/routes/config.py) changes it in the database.            *)
(*                                                                         *)
(* A request awaits Redis or the database between its steps, and its       *)
(* process may die at any await.                                           *)
(***************************************************************************)
EXTENDS Integers, FiniteSets

CONSTANTS
    Gates,        \* gateway processes
    Requests,     \* requests of the user
    gate,         \* the process each request reaches
    UserRps       \* limits that an admin may set

ASSUME RateAssumption ==
    /\ gate \in [Requests -> Gates]
    /\ IsFiniteSet(Requests)
    /\ UserRps \subseteq Nat \ {0}

Uncached == 0

DefaultCapacity == 10

VARIABLES
    limit,     \* tenants.rate_limit -> user_rps
    cached,    \* Redis cuckoo:rps:{tenant}, or Uncached
    capacity,  \* capacity of the bucket of each process
    tokens,    \* its tokens
    at,        \* where each request is
    rps,       \* user_rps as each request got it
    counter,   \* Redis cuckoo:ratelimit:{tenant}:{user}, 0 for no key
    expiring,  \* that key has a time to live
    passed,    \* requests that passed in the current life of the counter
    stranded   \* that key was left without the EXPIRE it needed

rateVars == <<limit, cached, capacity, tokens, at, rps, counter, expiring, passed, stranded>>

RateInit ==
    /\ limit \in UserRps
    /\ cached = Uncached
    /\ capacity = [g \in Gates |-> DefaultCapacity]
    /\ tokens = [g \in Gates |-> DefaultCapacity]
    /\ at = [q \in Requests |-> "new"]
    /\ rps = [q \in Requests |-> 0]
    /\ counter = 0
    /\ expiring = FALSE
    /\ passed = {}
    /\ stranded = FALSE

(***************************************************************************)
(* _get_user_rps: the cached value, or the database's (also when Redis is  *)
(* down), which is then cached.                                            *)
(***************************************************************************)
ReadCache(q) ==
    /\ at[q] = "new"
    /\ \/ /\ cached # Uncached
          /\ at' = [at EXCEPT ![q] = "local"]
          /\ rps' = [rps EXCEPT ![q] = cached]
       \/ /\ at' = [at EXCEPT ![q] = "database"]
          /\ UNCHANGED rps
    /\ UNCHANGED <<limit, cached, capacity, tokens, counter, expiring, passed, stranded>>

ReadLimit(q) ==
    /\ at[q] = "database"
    /\ at' = [at EXCEPT ![q] = "fill"]
    /\ rps' = [rps EXCEPT ![q] = limit]
    /\ UNCHANGED <<limit, cached, capacity, tokens, counter, expiring, passed, stranded>>

FillCache(q) ==
    /\ at[q] = "fill"
    /\ at' = [at EXCEPT ![q] = "local"]
    /\ \/ cached' = rps[q]
       \/ UNCHANGED cached
    /\ UNCHANGED <<limit, capacity, tokens, rps, counter, expiring, passed, stranded>>

(***************************************************************************)
(* Tier 1: a bucket of another capacity is replaced by a full one; then a  *)
(* token is taken.                                                         *)
(***************************************************************************)
Bucket(q) == IF capacity[gate[q]] = rps[q] THEN tokens[gate[q]] ELSE rps[q]

TakeToken(q) ==
    /\ at[q] = "local"
    /\ capacity' = [capacity EXCEPT ![gate[q]] = rps[q]]
    /\ \/ /\ Bucket(q) >= 1
          /\ tokens' = [tokens EXCEPT ![gate[q]] = Bucket(q) - 1]
          /\ at' = [at EXCEPT ![q] = "incr"]
       \/ /\ Bucket(q) < 1
          /\ tokens' = [tokens EXCEPT ![gate[q]] = Bucket(q)]
          /\ at' = [at EXCEPT ![q] = "rejected"]
    /\ UNCHANGED <<limit, cached, rps, counter, expiring, passed, stranded>>

(***************************************************************************)
(* Tier 2: INCR; the first of a window sets the EXPIRE; a count above the  *)
(* limit is rejected.  Without Redis the request fails (500), and so it    *)
(* does when the reply to a command that Redis performed is lost.          *)
(***************************************************************************)
\* Mutant: the count that equals the limit plus one still passes.
Above_OffByOne(count, q) == count > rps[q] + 1

Above(count, q) == count > rps[q]

Verdict(count, q) ==
    /\ at' = [at EXCEPT ![q] = IF Above(count, q) THEN "rejected" ELSE "passed"]
    /\ passed' = IF Above(count, q) THEN passed ELSE passed \cup {q}

\* Mutant: EXPIRE is sent by the request that first exceeds the limit.
SetsExpiry_Late(count, q) == Above(count, q)

SetsExpiry(count, q) == count = 1

Incr(q) ==
    /\ at[q] = "incr"
    /\ counter' = counter + 1
    /\ IF SetsExpiry(counter + 1, q)
       THEN at' = [at EXCEPT ![q] = "expire"] /\ UNCHANGED passed
       ELSE Verdict(counter + 1, q)
    /\ UNCHANGED <<limit, cached, capacity, tokens, rps, expiring, stranded>>

SetExpiry(q) ==
    /\ at[q] = "expire"
    /\ expiring' = (counter > 0)
    /\ Verdict(1, q)
    /\ UNCHANGED <<limit, cached, capacity, tokens, rps, counter, stranded>>

\* Redis, or the database at the limit, fails before it does what it is asked.
BackendDown(q) ==
    /\ at[q] \in {"database", "incr", "expire"}
    /\ at' = [at EXCEPT ![q] = "failed"]
    /\ stranded' = (stranded \/ at[q] = "expire")
    /\ UNCHANGED <<limit, cached, capacity, tokens, rps, counter, expiring, passed>>

\* Redis has performed the command, but its reply is lost.
ReplyLost(q) ==
    /\ at' = [at EXCEPT ![q] = "failed"]
    /\ \/ /\ at[q] = "incr"
          /\ counter' = counter + 1
          /\ stranded' = (stranded \/ SetsExpiry(counter + 1, q))
          /\ UNCHANGED expiring
       \/ /\ at[q] = "expire"
          /\ expiring' = (counter > 0)
          /\ UNCHANGED <<counter, stranded>>
    /\ UNCHANGED <<limit, cached, capacity, tokens, rps, passed>>

\* A gateway process dies and starts anew, with new buckets.
Crash(g) ==
    /\ \E q \in Requests : gate[q] = g /\ at[q] \in {"database", "fill", "local", "incr", "expire"}
    /\ at' = [q \in Requests |->
                 IF gate[q] = g /\ at[q] \in {"database", "fill", "local", "incr", "expire"}
                 THEN "failed" ELSE at[q]]
    /\ stranded' = (stranded \/ \E q \in Requests : gate[q] = g /\ at[q] = "expire")
    /\ capacity' = [capacity EXCEPT ![g] = DefaultCapacity]
    /\ tokens' = [tokens EXCEPT ![g] = DefaultCapacity]
    /\ UNCHANGED <<limit, cached, rps, counter, expiring, passed>>

-----------------------------------------------------------------------------
\* Time: a bucket gains a token, the counter's second ends, the cache's minute ends.
Refill(g) ==
    /\ tokens[g] < capacity[g]
    /\ tokens' = [tokens EXCEPT ![g] = @ + 1]
    /\ UNCHANGED <<limit, cached, capacity, at, rps, counter, expiring, passed, stranded>>

EndWindow ==
    /\ expiring
    /\ counter' = 0
    /\ expiring' = FALSE
    /\ passed' = {}
    /\ UNCHANGED <<limit, cached, capacity, tokens, at, rps, stranded>>

\* Mutant: the limit is cached without a time to live.
CacheEnds_Never == FALSE

CacheEnds == cached # Uncached

ExpireCache ==
    /\ CacheEnds
    /\ cached' = Uncached
    /\ UNCHANGED <<limit, capacity, tokens, at, rps, counter, expiring, passed, stranded>>

\* update_rate_limit: the key that it deletes from Redis is not the cached one.
UpdateRateLimit(n) ==
    /\ limit' = n
    /\ UNCHANGED <<cached, capacity, tokens, at, rps, counter, expiring, passed, stranded>>

RequestStep(q) ==
    \/ ReadCache(q) \/ ReadLimit(q) \/ FillCache(q) \/ TakeToken(q)
    \/ Incr(q) \/ SetExpiry(q)

RateNext ==
    \/ \E q \in Requests : RequestStep(q) \/ BackendDown(q) \/ ReplyLost(q)
    \/ \E g \in Gates : Refill(g) \/ Crash(g)
    \/ EndWindow \/ ExpireCache
    \/ \E n \in UserRps : UpdateRateLimit(n)

RateFairness ==
    /\ \A q \in Requests : WF_rateVars(RequestStep(q))
    /\ WF_rateVars(EndWindow)
    /\ WF_rateVars(ExpireCache)

RateSpec == RateInit /\ [][RateNext]_rateVars /\ RateFairness

-----------------------------------------------------------------------------
(***************************************************************************)
(* Types; in one life of the counter no more requests pass, through all    *)
(* processes together, than the limit some of them was given; and a        *)
(* counter has no time to live exactly while its first request is about to *)
(* set one, or for ever, when that request's process died, its EXPIRE      *)
(* failed, or the reply to its INCR was lost.                              *)
(***************************************************************************)
RateInv ==
    /\ limit \in UserRps
    /\ cached \in UserRps \cup {Uncached}
    /\ capacity \in [Gates -> UserRps \cup {DefaultCapacity}]
    /\ \A g \in Gates : tokens[g] \in 0..capacity[g]
    /\ at \in [Requests -> {"new", "database", "fill", "local", "incr", "expire",
                           "passed", "rejected", "failed"}]
    /\ rps \in [Requests -> UserRps \cup {0}]
    /\ counter \in 0..Cardinality(Requests)
    /\ expiring \in BOOLEAN
    /\ passed \subseteq Requests
    /\ stranded \in BOOLEAN
    /\ passed # {} => \E q \in passed : Cardinality(passed) <= rps[q]
    /\ counter > 0 /\ ~expiring <=> stranded \/ \E q \in Requests : at[q] = "expire"

(***************************************************************************)
(* A user who is over the limit is let through again: the counter ends,    *)
(* unless its first request was cut off before its EXPIRE, which leaves it *)
(* for ever.                                                               *)
(***************************************************************************)
WindowEnds == (counter > 0) ~> (counter = 0 \/ stranded)

(***************************************************************************)
(* The limit in the cache, which no update deletes, becomes the one in the *)
(* database when the admin has stopped changing it.                        *)
(***************************************************************************)
LimitSettles ==
    \A n \in UserRps : <>[](limit = n) => <>[](cached \in {Uncached, n})
=============================================================================

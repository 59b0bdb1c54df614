------------------------------ MODULE RagSearch ------------------------------
(***************************************************************************)
(* The vector search and the reranking of the RAG node (nodes/             *)
(* rag_engine.py): a search that fails is tried again after a growing      *)
(* delay; the chunks found are scored by a model in the threads of the     *)
(* default executor, and a query waits 0.5 seconds for its scores.  The    *)
(* circuit breaker the node looks at is told of no failure and never       *)
(* opens.                                                                  *)
(***************************************************************************)
EXTENDS Naturals, Sequences, FiniteSets, Functions, Ranks

CONSTANTS
    RagQueries,  \* queries of the node, each with its tenant and text
    Threads,     \* threads of the default executor
    MaxRetries,  \* max_retries, 3
    Found,       \* chunks of active documents that a search may find
    Scores,      \* scores the reranker may give
    Top          \* chunks an answer may use, 3

ASSUME RagAssumption ==
    /\ IsFiniteSet(RagQueries)
    /\ Threads \in Nat
    /\ MaxRetries \in Nat
    /\ Found \subseteq Nat
    /\ Scores \subseteq Nat
    /\ Top \in Nat \ {0}

VARIABLES
    query,      \* where each query is
    tries,      \* searches each query has begun
    ranking,    \* number of chunks each query has to rank
    job,        \* the job of each query in the executor
    context,    \* the chunks of the answer, by their rank in the search
    scored      \* the scores the answer was chosen by

ragVars == <<query, tries, ranking, job, context, scored>>

RagInit ==
    /\ query = [q \in RagQueries |-> "search"]
    /\ tries = [q \in RagQueries |-> 1]
    /\ ranking = [q \in RagQueries |-> 0]
    /\ job = [q \in RagQueries |-> "none"]
    /\ context = [q \in RagQueries |-> <<>>]
    /\ scored = [q \in RagQueries |-> <<>>]

RunningJobs == {q \in RagQueries : job[q] = "running"}

(***************************************************************************)
(* _retry_with_backoff: a search that fails is followed by a delay, but    *)
(* the last of max_retries + 1 by the chat-only mode.                      *)
(***************************************************************************)
\* Mutant: the attempts are counted from one.
Exhausted_Early(q) == tries[q] = MaxRetries

Exhausted(q) == tries[q] > MaxRetries

SearchFails(q) ==
    /\ query[q] = "search"
    /\ query' = [query EXCEPT ![q] = IF Exhausted(q) THEN "chat_only" ELSE "delay"]
    /\ UNCHANGED <<tries, ranking, job, context, scored>>

SearchAgain(q) ==
    /\ query[q] = "delay"
    /\ query' = [query EXCEPT ![q] = "search"]
    /\ tries' = [tries EXCEPT ![q] = @ + 1]
    /\ UNCHANGED <<ranking, job, context, scored>>

\* The chunks are ranked by the executor, as soon as it has a thread to spare.
SearchFinds(q, n) ==
    /\ query[q] = "search"
    /\ ranking' = [ranking EXCEPT ![q] = n]
    /\ IF n = 0
       THEN query' = [query EXCEPT ![q] = "no_answer"] /\ UNCHANGED job
       ELSE /\ query' = [query EXCEPT ![q] = "ranking"]
            /\ job' = [job EXCEPT ![q] = "queued"]
    /\ UNCHANGED <<tries, context, scored>>

StartJob(q) ==
    /\ job[q] = "queued"
    /\ Cardinality(RunningJobs) < Threads
    /\ job' = [job EXCEPT ![q] = "running"]
    /\ UNCHANGED <<query, tries, ranking, context, scored>>

\* Mutant: the lowest scores come first.
ByScore_Ascending(s) ==
    [r \in DOMAIN s |-> CHOOSE i \in DOMAIN s : Cardinality({j \in DOMAIN s : Before(s, i, j)}) = r - 1]

\* The chunks by falling score.
ByScore(s) == Falling(s)

FirstOf(s) == SubSeq(s, 1, IF Len(s) < Top THEN Len(s) ELSE Top)

JobScores(q, s) ==
    /\ job[q] = "running"
    /\ job' = [job EXCEPT ![q] = "over"]
    /\ IF query[q] = "ranking"
       THEN /\ query' = [query EXCEPT ![q] = "answered"]
            /\ context' = [context EXCEPT ![q] = FirstOf(ByScore(s))]
            /\ scored' = [scored EXCEPT ![q] = s]
       ELSE UNCHANGED <<query, context, scored>>
    /\ UNCHANGED <<tries, ranking>>

\* Only a timeout is caught: an error of the model ends the turn.
JobFails(q) ==
    /\ job[q] = "running"
    /\ job' = [job EXCEPT ![q] = "over"]
    /\ query' = [query EXCEPT ![q] = IF @ = "ranking" THEN "error" ELSE @]
    /\ UNCHANGED <<tries, ranking, context, scored>>

(***************************************************************************)
(* wait_for gives up: a queued job is taken back, a running one runs on in *)
(* its thread; the answer uses the order of the search.                    *)
(***************************************************************************)
\* Mutant: the time begins to run when the job does.
Overdue_Running(q) == query[q] = "ranking" /\ job[q] = "running"

\* wait_for counts from the submission of the job.
Overdue(q) == query[q] = "ranking"

RankTimeout(q) ==
    /\ Overdue(q)
    /\ query' = [query EXCEPT ![q] = "answered"]
    /\ job' = [job EXCEPT ![q] = IF @ = "queued" THEN "over" ELSE @]
    /\ context' = [context EXCEPT ![q] = FirstOf([i \in 1..ranking[q] |-> i])]
    /\ UNCHANGED <<tries, ranking, scored>>

QueryStep(q) ==
    \/ SearchFails(q) \/ SearchAgain(q)
    \/ \E n \in Found : SearchFinds(q, n)
    \/ StartJob(q) \/ JobFails(q) \/ RankTimeout(q)
    \/ \E s \in [1..ranking[q] -> Scores] : JobScores(q, s)

RagNext == \E q \in RagQueries : QueryStep(q)

\* Milvus answers or fails, sleeps and timeouts end; the reranker may never return.
SearchEnds(q) == SearchFails(q) \/ SearchAgain(q) \/ \E n \in Found : SearchFinds(q, n)

RagFairness == \A q \in RagQueries : WF_ragVars(SearchEnds(q)) /\ WF_ragVars(RankTimeout(q))

RagSpec == RagInit /\ [][RagNext]_ragVars /\ RagFairness

-----------------------------------------------------------------------------
EndOfQuery == {"chat_only", "no_answer", "answered", "error"}

RagTypeOK ==
    /\ query \in [RagQueries -> {"search", "delay", "ranking"} \cup EndOfQuery]
    /\ tries \in [RagQueries -> 1..(MaxRetries + 1)]
    /\ ranking \in [RagQueries -> Found \cup {0}]
    /\ job \in [RagQueries -> {"none", "queued", "running", "over"}]
    /\ context \in [RagQueries -> Seq(Nat)]
    /\ scored \in [RagQueries -> Seq(Scores)]

(***************************************************************************)
(* Types; a query gives up its search only after max_retries + 1 attempts; *)
(* the threads are never exceeded; and an answer uses, once each, the      *)
(* first Top chunks by score, or in the order found after a timeout.       *)
(***************************************************************************)
BestFirst(c, s, n) ==
    /\ Len(c) = IF n < Top THEN n ELSE Top
    /\ IsInjective(c)
    /\ \A r \in DOMAIN c : \A i \in 1..n :
          (\A p \in 1..r : c[p] # i) =>
              IF s = <<>> THEN c[r] < i ELSE Before(s, c[r], i)

RagInv ==
    /\ RagTypeOK
    /\ \A q \in RagQueries : query[q] = "chat_only" => tries[q] = MaxRetries + 1
    /\ Cardinality(RunningJobs) <= Threads
    /\ \A q \in RagQueries :
          query[q] = "answered" => BestFirst(context[q], scored[q], ranking[q])

(***************************************************************************)
(* Every query ends, although the reranker may hold every thread for good. *)
(***************************************************************************)
QueryEnds == \A q \in RagQueries : <>(query[q] \in EndOfQuery)
=============================================================================

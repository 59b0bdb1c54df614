----------------------------- MODULE MCProgress -----------------------------
(***************************************************************************)
(* The components with a liveness property, side by side for TLC: the      *)
(* agent's graph, the search of its RAG node, the circuit breaker, the     *)
(* rate limiter, the orchestrator, the feedback and the knowledge          *)
(* pipeline.  They share no state here: the rigid variable part says whose *)
(* steps a behaviour is made of, and the others stay in one initial state. *)
(***************************************************************************)
EXTENDS AgentGraph, RagSearch, CircuitBreaker, RateLimiter, Orchestrator, Feedback,
        KnowledgePipeline, TLC

VARIABLE part

allVars == <<part, vars, ragVars, breakerVars, rateVars, orchVars, feedbackVars, pipelineVars>>

\* Requests of two gateway processes.
MCgate == [q \in Requests |-> IF q = "q3" THEN "g2" ELSE "g1"]

\* A specialist for the search, and a generalist.
MCrole == [a \in Agents |-> IF a = "a1" THEN "rag_specialist" ELSE "generalist"]

MCOffers == {<<"a1">>, <<"a2", "a1">>}

MCAsked == {{"generalist"}, {"rag_specialist", "tool_executor"}}

Components == {"agent", "rag", "breaker", "rate", "orchestrator", "feedback", "documents"}

\* The choices of the other components are fixed first: TLC takes conjuncts in order.
FixedChoices ==
    /\ part = "breaker" \/ healthy = TRUE
    /\ part = "rate" \/ limit = CHOOSE n \in UserRps : TRUE
    /\ \/ part = "feedback"
       \/ /\ ballot = [v \in Votes |-> CHOOSE b \in Ballots : TRUE]
          /\ wanted = [v \in Votes |-> "other"]
          /\ scope = [r \in Reads |-> CHOOSE s \in Scopes : TRUE]

ProgressInit ==
    /\ part \in Components
    /\ FixedChoices
    /\ Init /\ RagInit /\ BreakerInit /\ RateInit /\ OrchInit /\ FeedbackInit
    /\ PipelineInit

ProgressNext ==
    /\ UNCHANGED part
    /\ \/ /\ part = "agent" /\ Next
          /\ UNCHANGED <<ragVars, breakerVars, rateVars, orchVars, feedbackVars, pipelineVars>>
       \/ /\ part = "rag" /\ RagNext
          /\ UNCHANGED <<vars, breakerVars, rateVars, orchVars, feedbackVars, pipelineVars>>
       \/ /\ part = "breaker" /\ BreakerNext
          /\ UNCHANGED <<vars, ragVars, rateVars, orchVars, feedbackVars, pipelineVars>>
       \/ /\ part = "rate" /\ RateNext
          /\ UNCHANGED <<vars, ragVars, breakerVars, orchVars, feedbackVars, pipelineVars>>
       \/ /\ part = "orchestrator" /\ OrchNext
          /\ UNCHANGED <<vars, ragVars, breakerVars, rateVars, feedbackVars, pipelineVars>>
       \/ /\ part = "documents" /\ PipelineNext
          /\ UNCHANGED <<vars, ragVars, breakerVars, rateVars, orchVars, feedbackVars>>
       \/ /\ part = "feedback" /\ FeedbackNext
          /\ UNCHANGED <<vars, ragVars, breakerVars, rateVars, orchVars, pipelineVars>>

\* The fairness of each component, for the behaviours of that component.
ProgressFairness ==
    /\ WF_vars(part = "agent" /\ Step)
    /\ \A q \in RagQueries : /\ WF_ragVars(part = "rag" /\ SearchEnds(q))
                             /\ WF_ragVars(part = "rag" /\ RankTimeout(q))
    /\ \A c \in Callers : /\ WF_breakerVars(part = "breaker" /\ Call(c))
                          /\ WF_breakerVars(part = "breaker" /\ (Succeed(c) \/ Fail(c)))
    /\ WF_breakerVars(part = "breaker" /\ Cool)
    /\ \A q \in Requests : WF_rateVars(part = "rate" /\ RequestStep(q))
    /\ WF_rateVars(part = "rate" /\ EndWindow)
    /\ WF_rateVars(part = "rate" /\ ExpireCache)
    /\ \A w \in Workflows : /\ WF_orchVars(part = "orchestrator" /\ (CompleteTask(w) \/ FailAttempt(w)))
                            /\ WF_orchVars(part = "orchestrator" /\ Retry(w))
    /\ \A v \in Votes : WF_feedbackVars(part = "feedback" /\ Vote(v))
    /\ \A r \in Reads : WF_feedbackVars(part = "feedback" /\ Stats(r))
    /\ \A k \in CacheKeys : WF_feedbackVars(part = "feedback" /\ Expire(k))
    /\ \A w \in Workers : WF_pipelineVars(part = "documents" /\ WorkerStep(w))
    /\ \A d \in Docs : WF_pipelineVars(part = "documents" /\ CleanupStep(d))

ProgressSpec == ProgressInit /\ [][ProgressNext]_allVars /\ ProgressFairness

-----------------------------------------------------------------------------
\* Every turn of the graph and every query of its RAG node ends.
TurnsAndQueriesEnd == TurnEnds /\ (part = "rag" => QueryEnds)

\* What the two caches hold is stale for a while only.
CachesSettle == LimitSettles /\ StatsSettle
=============================================================================

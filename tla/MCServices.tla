----------------------------- MODULE MCServices -----------------------------
(***************************************************************************)
(* The services with safety properties only, side by side for TLC: they    *)
(* share no state, so the rigid variable part says whose steps a behaviour *)
(* is made of, while the others stay in one of their initial states.       *)
(***************************************************************************)
EXTENDS Billing, Feedback, Experiments, ExperimentStats, Toolbox, Plugins, Chunking,
        Rollout, ModelGateway, ChatStartup, SessionContext, StreamBuffers, AdminMetrics,
        Invoices, CustomerHealth, PromptVersions

CONSTANT Components   \* those whose steps are looked at

VARIABLE part

answerVars    == <<gatewayVars, startupVars, sessionVars, streamVars>>
studyVars     == <<expVars, statsVars, rolloutVars, feedbackVars>>
toolingVars   == <<toolboxVars, pluginVars, chunkingVars>>
officeVars    == <<metricsVars, invoicesVars, healthVars, versionsVars>>

allVars == <<part, billingVars, answerVars, studyVars, toolingVars, officeVars>>

MCseparators == <<"newline", "dot", "space">>

MCcalls == [b \in Batches |-> <<"t1", "t2">>]

MCmode == [b \in Batches |-> IF b = "b1" THEN "stop" ELSE "parallel"]

MCquestion_of == [q \in Questions |-> IF q = "q1" THEN "t1" ELSE "t2"]

MCprefix_of == [q \in Questions |-> IF q = "q1" THEN "where" ELSE "when"]

MCWeightings == {<<50, 50>>, <<20, 30>>, <<0, 60, 70>>}

\* Metrics that differ in one source of each score.
MCReadings ==
    {[logins |-> 10 * a, volume |-> 150, adoption |-> 60, selfService |-> 80,
      sentiment |-> s, nps |-> n, tickets |-> t] :
        a \in {0, 3}, s \in {20, 90}, n \in {NoNps, 9}, t \in {0, 6}}

Fixed(x) == CHOOSE y \in x : TRUE

\* Two votes of one user on one message, the first a thumbs_up, and a third by anyone;
\* reads of that message, with its thread or without.
MCCast ==
    LET usual == Fixed(Known \X Messages) IN
    /\ \E b \in Ballots : ballot = [v \in Votes |-> IF v = "v3" THEN b ELSE usual]
    /\ wanted \in [Votes -> Types] /\ wanted["v1"] = "thumbs_up"
    /\ scope \in [Reads -> Scopes]
    /\ \A r \in Reads : scope[r].message = usual[2]

\* The choices of the other components are fixed first: TLC takes conjuncts in order.
FixedChoices ==
    /\ part = "billing" \/ tenant = [c \in Chats |-> Fixed(Tenants)]
    /\ IF part = "feedback" THEN MCCast ELSE
          /\ ballot = [v \in Votes |-> Fixed(Ballots)]
          /\ wanted = [v \in Votes |-> "other"]
          /\ scope = [r \in Reads |-> Fixed(Scopes)]
    /\ \/ part = "experiments"
       \/ /\ decoded = TRUE
          /\ body = [e \in Exps |-> Fixed(Bodies)]
          /\ target = [u \in Updates |-> <<Fixed(Exps), "running">>]
          /\ report = [of |-> Fixed(Exps), answer |-> "none"]
    /\ part = "stats" \/ (weights = Fixed(Weightings) /\ gap = 0)
    /\ part = "metrics" \/ session_of = [h \in SessionRows |-> Fixed(ThreadIds)]

ServicesInit ==
    /\ part \in Components
    /\ FixedChoices
    /\ BillingInit /\ FeedbackInit /\ ExpInit /\ StatsInit /\ ToolboxInit /\ PluginsInit
    /\ ChunkingInit /\ RolloutInit /\ GatewayInit /\ StartupInit /\ SessionInit /\ StreamInit
    /\ MetricsInit /\ InvoicesInit /\ HealthInit /\ VersionsInit

ServicesNext ==
    /\ UNCHANGED part
    /\ \/ /\ UNCHANGED <<answerVars, studyVars, toolingVars, officeVars>>
          /\ part = "billing" /\ BillingNext
       \/ /\ UNCHANGED <<billingVars, studyVars, toolingVars, officeVars>>
          /\ \/ part = "gateway" /\ GatewayNext /\ UNCHANGED <<startupVars, sessionVars, streamVars>>
             \/ part = "startup" /\ StartupNext /\ UNCHANGED <<gatewayVars, sessionVars, streamVars>>
             \/ part = "session" /\ SessionNext /\ UNCHANGED <<gatewayVars, startupVars, streamVars>>
             \/ part = "streams" /\ StreamNext /\ UNCHANGED <<gatewayVars, startupVars, sessionVars>>
       \/ /\ UNCHANGED <<billingVars, answerVars, toolingVars, officeVars>>
          /\ \/ part = "experiments" /\ ExpNext /\ UNCHANGED <<statsVars, rolloutVars, feedbackVars>>
             \/ part = "stats" /\ StatsNext /\ UNCHANGED <<expVars, rolloutVars, feedbackVars>>
             \/ part = "rollout" /\ RolloutNext /\ UNCHANGED <<expVars, statsVars, feedbackVars>>
             \/ part = "feedback" /\ FeedbackNext /\ UNCHANGED <<expVars, statsVars, rolloutVars>>
       \/ /\ UNCHANGED <<billingVars, answerVars, studyVars, officeVars>>
          /\ \/ part = "toolbox" /\ ToolboxNext /\ UNCHANGED <<pluginVars, chunkingVars>>
             \/ part = "plugins" /\ PluginsNext /\ UNCHANGED <<toolboxVars, chunkingVars>>
             \/ part = "chunking" /\ Split /\ UNCHANGED <<toolboxVars, pluginVars>>
       \/ /\ UNCHANGED <<billingVars, answerVars, studyVars, toolingVars>>
          /\ \/ part = "metrics" /\ MetricsNext /\ UNCHANGED <<invoicesVars, healthVars, versionsVars>>
             \/ part = "invoices" /\ InvoicesNext /\ UNCHANGED <<metricsVars, healthVars, versionsVars>>
             \/ part = "health" /\ HealthNext /\ UNCHANGED <<metricsVars, invoicesVars, versionsVars>>
             \/ part = "versions" /\ VersionsNext /\ UNCHANGED <<metricsVars, invoicesVars, healthVars>>

ServicesSpec == ServicesInit /\ [][ServicesNext]_allVars

-----------------------------------------------------------------------------
\* Only the component whose steps are looked at can break its invariant.
Of(name, invariant) == part = name => invariant

\* Experiments: their answers, the significance of their results, and the rollout's history.
StudiesInv ==
    Of("experiments", ExpInv) /\ Of("stats", StatsInv) /\ Of("rollout", HistoryIsContinuous)

\* The way of an answer: clients and tenants, the session's context, the model, tools,
\* plugins and the stream.
AnswerInv ==
    /\ Of("startup", StartupInv) /\ Of("session", SessionInv) /\ Of("gateway", GatewayInv)
    /\ Of("toolbox", ToolboxInv) /\ Of("plugins", PluginsInv) /\ Of("streams", StreamInv)

\* What the back office is shown: metrics, invoices, health and prompt versions.
OfficeInv ==
    /\ Of("metrics", MetricsInv) /\ Of("invoices", InvoicesInv)
    /\ Of("health", HealthInv) /\ Of("versions", NumberNamesContent)
=============================================================================

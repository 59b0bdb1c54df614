--------------------------- MODULE CustomerHealth ---------------------------
(***************************************************************************)
(* Health scores and interventions (shared/customer_success.py).  Metrics  *)
(* are whole numbers: rates and sentiment in percent, logins, tickets and  *)
(* NPS as they are; a score of 1.0 is FullScore, so that the weights and   *)
(* the halves of the code are exact.                                       *)
(***************************************************************************)
EXTENDS Integers, Sequences, FiniteSets

CONSTANTS
    Subscribers,   \* tenants whose health is calculated
    Readings,      \* metrics that may be measured
    MaxChecks      \* bound on the calculations

NoNps == -2

ASSUME HealthAssumption ==
    /\ MaxChecks \in Nat
    /\ \A r \in Readings :
         /\ {r.logins, r.volume, r.adoption, r.selfService, r.sentiment, r.tickets} \subseteq Nat
         /\ r.nps = NoNps \/ r.nps \in -1..10

FullScore == 20000

VARIABLES
    health,        \* health_cache: the last health of each tenant, or NoHealth
    interventions, \* pending interventions of each tenant, so many of each risk
    checks         \* readings of each tenant so far

healthVars == <<health, interventions, checks>>

NoHealth == [level |-> "none", risks |-> {}]

RiskKinds == {"negative_sentiment", "support_escalation"}

NoInterventions == [k \in RiskKinds |-> 0]

HealthInit ==
    /\ health = [c \in Subscribers |-> NoHealth]
    /\ interventions = [c \in Subscribers |-> NoInterventions]
    /\ checks = [c \in Subscribers |-> <<>>]

Capped(x, cap) == IF x < cap THEN x ELSE cap

\* The three scores, in two hundredths.
UsageScore(r) == Capped(5 * r.logins, 100) + Capped(r.volume, 100)

EngagementScore(r) == r.adoption + r.selfService

\* Mutant: tickets raise the score.
TicketPenalty_Raised(r) == Capped(10 * r.tickets, 100)

TicketPenalty(r) == 100 - Capped(10 * r.tickets, 100)

SentimentScore(r) ==
    (IF r.nps # NoNps THEN 10 * (r.nps + 1) ELSE r.sentiment) + TicketPenalty(r)

HealthScore(r) ==
    25 * UsageScore(r) + 35 * EngagementScore(r) + 40 * SentimentScore(r)

Level(score) ==
    CASE 10 * score >= 7 * FullScore -> "healthy"
      [] 10 * score < 7 * FullScore /\ 10 * score >= 4 * FullScore -> "at_risk"
      [] 10 * score < 4 * FullScore -> "unhealthy"

\* nps_score or 10: zero stands for no answer.
NpsOrTen(r) == IF r.nps \in {NoNps, 0} THEN 10 ELSE r.nps

\* The history is always empty, so that declining usage is never found.
Risks(r) ==
    {k \in RiskKinds :
        CASE k = "negative_sentiment" -> r.sentiment < 30 \/ NpsOrTen(r) < 5
          [] k = "support_escalation" -> r.tickets > 5}

\* Mutant: the interventions of the last calculation replace the others.
Triggered_Replaced(c, risks) == [k \in RiskKinds |-> IF k \in risks THEN 1 ELSE 0]

Triggered(c, risks) ==
    [k \in RiskKinds |-> interventions[c][k] + IF k \in risks THEN 1 ELSE 0]

CalculateHealth(c, r) ==
    /\ Len(checks[c]) < MaxChecks
    /\ health' = [health EXCEPT ![c] = [level |-> Level(HealthScore(r)), risks |-> Risks(r)]]
    /\ interventions' = [interventions EXCEPT ![c] = Triggered(c, Risks(r))]
    /\ checks' = [checks EXCEPT ![c] = Append(@, r)]

HealthNext == \E c \in Subscribers, r \in Readings : CalculateHealth(c, r)

HealthSpec == HealthInit /\ [][HealthNext]_healthVars

-----------------------------------------------------------------------------
Rank == [none |-> 3, unhealthy |-> 0, at_risk |-> 1, healthy |-> 2]

\* The first reading is nowhere better for the customer than the second.
NoBetter(r, q) ==
    /\ \A f \in {"logins", "volume", "adoption", "selfService", "sentiment"} : r[f] <= q[f]
    /\ r.tickets >= q.tickets
    /\ (r.nps = NoNps) = (q.nps = NoNps) /\ r.nps <= q.nps

(***************************************************************************)
(* The cached health is that of the last reading; of two tenants the one   *)
(* nowhere better off never has the higher level, whatever the caps and    *)
(* the two sources of sentiment do; and no pending intervention is lost by *)
(* a later calculation: one stands for every time its risk was found.      *)
(***************************************************************************)
HealthInv ==
    /\ \A c \in Subscribers : health[c].level \in DOMAIN Rank
    /\ \A c, d \in Subscribers : checks[c] # <<>> /\ checks[d] # <<>> =>
         (NoBetter(checks[c][Len(checks[c])], checks[d][Len(checks[d])]) =>
              Rank[health[c].level] <= Rank[health[d].level])
    /\ \A c \in Subscribers, k \in RiskKinds :
         interventions[c][k] = Cardinality({n \in DOMAIN checks[c] : k \in Risks(checks[c][n])})
=============================================================================

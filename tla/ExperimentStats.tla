-------------------------- MODULE ExperimentStats --------------------------
(***************************************************************************)
(* The arithmetic of experiments (chat_service/services/experiment.py,     *)
(* api_gateway/middleware/experiment.py): the variant a bucket is assigned *)
(* to, and the significance of the metrics tracked so far.                 *)
(***************************************************************************)
EXTENDS Integers, Sequences, FiniteSets, Ranks

CONSTANTS
    Weightings,   \* weights of the variants of an experiment, in percent
    Batch,        \* measurements tracked at a time
    MaxSamples,   \* bound on the measurements of a variant
    MaxGap        \* bound on the difference of the averages, in tenths

Buckets == 0..99

MinSamples == 30

ASSUME StatsAssumption ==
    /\ Weightings \subseteq Seq(Nat)
    /\ Batch \in Nat \ {0} /\ MaxSamples \in Nat /\ MaxGap \in Nat

VARIABLES
    weights,   \* variants of the experiment, "control" first
    measured,   \* count of the control's and of the treatment's measurements
    gap        \* distance of their averages

statsVars == <<weights, measured, gap>>

Variants == {"control", "treatment"}

(***************************************************************************)
(* assign_variant: the first variant whose cumulated weight exceeds the    *)
(* bucket, or else the first one.                                          *)
(***************************************************************************)
Cumulative(ws, n) == RunningSum(ws)[n]

\* Mutant: a bucket that equals the cumulated weight still belongs to it.
Reaches_Closed(bucket, ws, n) == bucket <= Cumulative(ws, n)

Reaches(bucket, ws, n) == bucket < Cumulative(ws, n)

AssignVariant(ws, bucket) ==
    LET reached == {n \in DOMAIN ws : Reaches(bucket, ws, n)}
    IN  IF reached = {} THEN 1 ELSE CHOOSE n \in reached : \A m \in reached : n <= m

(***************************************************************************)
(* calculate_significance.  z > c is written as z^2 > c^2: z^2 is          *)
(* gap^2 * n * m / (n + m), and the squares of 2.576, 1.96 and 1.645 are   *)
(* in thousandths; gap is in tenths.  The values below 0.9, min(0.85, z/2),*)
(* are 0 or one level.                                                     *)
(***************************************************************************)
Exceeds(n, m, d, square) == d * d * n * m * 10 > square * (n + m)

Significance(n, m, d) ==
    IF n < MinSamples \/ m < MinSamples \/ d = 0 THEN 0
    ELSE IF Exceeds(n, m, d, 6636) THEN 99
    ELSE IF Exceeds(n, m, d, 3842) THEN 95
    ELSE IF Exceeds(n, m, d, 2706) THEN 90
    ELSE 1

\* get_experiment_results: a variant without measurements has no row.
Results ==
    IF \A v \in Variants : measured[v] > 0
    THEN Significance(measured["control"], measured["treatment"], gap) ELSE 0

StatsInit ==
    /\ weights \in Weightings
    /\ measured = [v \in Variants |-> 0]
    /\ gap \in 0..MaxGap

TrackMetrics(v) ==
    /\ measured[v] + Batch <= MaxSamples
    /\ measured' = [measured EXCEPT ![v] = @ + Batch]
    /\ UNCHANGED <<weights, gap>>

StatsNext == \E v \in Variants : TrackMetrics(v)

StatsSpec == StatsInit /\ [][StatsNext]_statsVars

-----------------------------------------------------------------------------
(***************************************************************************)
(* Each variant gets as many of the hundred buckets as its weight says, as *)
(* long as the weights before it leave them; the first one also gets what  *)
(* all of them leave.                                                      *)
(***************************************************************************)
Least(a, b) == IF a < b THEN a ELSE b

Share(ws, n) == Least(100, Cumulative(ws, n)) - Least(100, Cumulative(ws, n - 1))

SplitMatchesWeights ==
    \A n \in DOMAIN weights :
        Cardinality({b \in Buckets : AssignVariant(weights, b) = n}) =
            Share(weights, n) +
            IF n = 1 THEN 100 - Least(100, Cumulative(weights, Len(weights))) ELSE 0

(***************************************************************************)
(* At a given distance of the averages more measurements never make the    *)
(* result less significant, and a result of 90 or more needs 30 of each.   *)
(***************************************************************************)
SignificanceGrows ==
    /\ Results >= 90 => \A v \in Variants : measured[v] >= MinSamples
    /\ \A n \in 0..measured["control"], m \in 0..measured["treatment"] :
           Significance(n, m, gap) <= Significance(measured["control"], measured["treatment"], gap)

StatsInv == SplitMatchesWeights /\ SignificanceGrows
=============================================================================

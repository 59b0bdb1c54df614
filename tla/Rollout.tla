------------------------------ MODULE Rollout ------------------------------
(***************************************************************************)
(* The progressive rollout (chat_service/services/rollout.py and           *)
(* routes/rollout.py): a stage that the API advances and rolls back, with  *)
(* a history, and that gradual_rollout of the service may set, too.        *)
(***************************************************************************)
EXTENDS Integers, Sequences, SequencesExt

CONSTANT MaxHistory   \* bound on the transitions

ASSUME RolloutAssumption == MaxHistory \in Nat

VARIABLES
    stage,         \* index of _rollout.current_stage in STAGE_ORDER
    stage_history, \* pairs of stages
    request        \* last call of gradual_rollout: current, target and result

rolloutVars == <<stage, stage_history, request>>

STAGE_ORDER == <<"shadow", "read_only", "canary", "gradual", "full">>

Stages == DOMAIN STAGE_ORDER

\* gradual_rollout has not been called.
NoRequest == <<0, 0, 0>>

RolloutInit == stage = 1 /\ stage_history = <<>> /\ request = NoRequest

\* Mutant: every transition is recorded from the first stage.
Entry_Absolute(to) == <<1, to>>

Entry(to) == <<stage, to>>

Move(to) ==
    /\ Len(stage_history) < MaxHistory
    /\ stage' = to
    /\ stage_history' = Append(stage_history, Entry(to))
    /\ UNCHANGED request

AdvanceRollout == stage < Len(STAGE_ORDER) /\ Move(stage + 1)

RollbackRollout == stage > 1 /\ Move(stage - 1)

\* gradual_rollout starts from the stage that it is told and records nothing.
GradualRollout(current, target) ==
    LET result == IF target <= current THEN current ELSE current + 1
    IN  /\ stage' = IF target <= current THEN stage ELSE result
        /\ request' = <<current, target, result>>
        /\ UNCHANGED stage_history

RolloutNext ==
    \/ AdvanceRollout \/ RollbackRollout
    \/ \E current, target \in Stages : GradualRollout(current, target)

RolloutSpec == RolloutInit /\ [][RolloutNext]_rolloutVars

-----------------------------------------------------------------------------
(***************************************************************************)
(* The history is of steps between neighbouring stages, each from the      *)
(* stage that the one before led to, unless gradual_rollout intervened.    *)
(***************************************************************************)
HistoryIsContinuous ==
    /\ \A n \in DOMAIN stage_history : stage_history[n][2] - stage_history[n][1] \in {-1, 1}
    /\ request = NoRequest =>
         \A n \in DOMAIN stage_history :
             stage_history[n][1] = IF n = 1 THEN 1 ELSE stage_history[n - 1][2]
=============================================================================

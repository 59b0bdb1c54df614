--------------------------- MODULE CircuitBreaker ---------------------------
(***************************************************************************)
(* shared/circuit_breaker.py: the state machine of CircuitBreaker.call     *)
(* around concurrent calls.  The wrapped function is awaited, so a call    *)
(* that began in one state of the breaker may end in another, with a       *)
(* result, an exception or, its task being cancelled, with neither.        *)
(***************************************************************************)
EXTENDS Naturals, FiniteSets

CONSTANTS
    Callers,              \* tasks that use the breaker
    failure_threshold,
    half_open_max_calls

ASSUME BreakerAssumption ==
    /\ failure_threshold \in Nat \ {0}
    /\ half_open_max_calls \in Nat \ {0}

VARIABLES
    circuit,         \* _state
    failures,        \* _failure_count, of which only up to the threshold matters
    half_open_calls, \* _half_open_calls
    successes,       \* _success_count
    cooled,          \* timeout seconds have passed since _last_failure_time
    running,         \* calls whose function is being awaited
    healthy,         \* the service behind the breaker answers
    probes,          \* calls admitted since the breaker last became half-open
    probing,         \* those of them that are still running
    wasted           \* one of them was cancelled

breakerVars == <<circuit, failures, half_open_calls, successes, cooled, running,
                 healthy, probes, probing, wasted>>

BreakerInit ==
    /\ circuit = "closed"
    /\ failures = 0
    /\ half_open_calls = 0
    /\ successes = 0
    /\ cooled = FALSE
    /\ running = {}
    /\ healthy \in BOOLEAN
    /\ probes = 0
    /\ probing = {}
    /\ wasted = FALSE

(***************************************************************************)
(* The property state, which a call reads first: an open breaker whose     *)
(* timeout is over becomes half-open, with no probe made yet.              *)
(***************************************************************************)
\* Mutant: the probes of the last half-open phase still count.
HalfOpened_Kept == half_open_calls

HalfOpened == 0

Turns == circuit = "open" /\ cooled

State == IF Turns THEN "half_open" ELSE circuit

UsedProbes == IF Turns THEN HalfOpened ELSE half_open_calls

(***************************************************************************)
(* call, up to the await: refused when open, or half-open with as many     *)
(* probes made as allowed.                                                 *)
(***************************************************************************)
Call(c) ==
    /\ c \notin running
    /\ circuit' = State
    /\ \/ /\ State = "closed"
          /\ running' = running \cup {c}
          /\ UNCHANGED <<half_open_calls, probes, probing, wasted>>
       \/ /\ State = "half_open" /\ UsedProbes < half_open_max_calls
          /\ running' = running \cup {c}
          /\ half_open_calls' = UsedProbes + 1
          /\ probes' = IF Turns THEN 1 ELSE probes + 1
          /\ probing' = IF Turns THEN {c} ELSE probing \cup {c}
          /\ wasted' = (wasted /\ ~Turns)
    /\ UNCHANGED <<failures, successes, cooled, healthy>>

Refuse(c) ==
    /\ c \notin running
    /\ \/ State = "open"
       \/ State = "half_open" /\ UsedProbes >= half_open_max_calls
    /\ UNCHANGED <<circuit, half_open_calls, failures, successes, cooled, running, healthy,
                   probes, probing, wasted>>

\* get_stats reads the property as well, and so may start the half-open phase.
GetStats ==
    /\ Turns
    /\ circuit' = "half_open"
    /\ half_open_calls' = HalfOpened
    /\ probes' = 0
    /\ probing' = {}
    /\ wasted' = FALSE
    /\ UNCHANGED <<failures, successes, cooled, running, healthy>>

(***************************************************************************)
(* _record_success and _record_failure look at the state as it is when the *)
(* call ends; neither asks when the call began.                            *)
(***************************************************************************)
Succeed(c) ==
    /\ c \in running
    /\ healthy
    /\ running' = running \ {c}
    /\ failures' = 0
    /\ \/ /\ circuit = "half_open" /\ successes + 1 >= half_open_max_calls
          /\ circuit' = "closed"
          /\ successes' = 0
       \/ /\ circuit = "half_open" /\ successes + 1 < half_open_max_calls
          /\ successes' = successes + 1
          /\ UNCHANGED circuit
       \/ /\ circuit # "half_open"
          /\ UNCHANGED <<circuit, successes>>
    /\ probing' = probing \ {c}
    /\ UNCHANGED <<half_open_calls, cooled, healthy, probes, wasted>>

Saturated(n) == IF n > failure_threshold THEN failure_threshold ELSE n

\* Mutant: a failing probe is counted, and nothing more.
Trips_Counted == failures + 1 >= failure_threshold

Trips == circuit = "half_open" \/ failures + 1 >= failure_threshold

Fail(c) ==
    /\ c \in running
    /\ ~healthy
    /\ running' = running \ {c}
    /\ failures' = Saturated(failures + 1)
    /\ cooled' = FALSE
    /\ circuit' = IF Trips THEN "open" ELSE circuit
    /\ probing' = probing \ {c}
    /\ UNCHANGED <<half_open_calls, successes, healthy, probes, wasted>>

\* CancelledError is no Exception: nothing is recorded.
Cancel(c) ==
    /\ c \in running
    /\ running' = running \ {c}
    /\ wasted' = (wasted \/ c \in probing)
    /\ probing' = probing \ {c}
    /\ UNCHANGED <<circuit, failures, half_open_calls, successes, cooled, healthy, probes>>

Reset ==
    /\ circuit # "closed"
    /\ circuit' = "closed"
    /\ failures' = 0
    /\ successes' = 0
    /\ half_open_calls' = 0
    /\ probes' = 0
    /\ probing' = {}
    /\ wasted' = FALSE
    /\ UNCHANGED <<cooled, running, healthy>>

Cool ==
    /\ ~cooled
    /\ cooled' = TRUE
    /\ UNCHANGED <<circuit, failures, half_open_calls, successes, running, healthy, probes, probing, wasted>>

Heal ==
    /\ healthy' = ~healthy
    /\ UNCHANGED <<circuit, failures, half_open_calls, successes, cooled, running, probes, probing, wasted>>

BreakerNext ==
    \/ \E c \in Callers : Call(c) \/ Refuse(c) \/ Succeed(c) \/ Fail(c) \/ Cancel(c)
    \/ GetStats \/ Reset \/ Cool \/ Heal

\* Callers keep calling, time passes and calls end.
BreakerFairness ==
    /\ \A c \in Callers : WF_breakerVars(Call(c)) /\ WF_breakerVars(Succeed(c) \/ Fail(c))
    /\ WF_breakerVars(Cool)

BreakerSpec == BreakerInit /\ [][BreakerNext]_breakerVars /\ BreakerFairness

-----------------------------------------------------------------------------
(***************************************************************************)
(* Types; a half-open phase admits at most half_open_max_calls calls,      *)
(* however the results of older calls fall into it; and it is never left   *)
(* with as many successes as close the breaker.                            *)
(***************************************************************************)
BreakerInv ==
    /\ circuit \in {"closed", "open", "half_open"}
    /\ failures \in 0..failure_threshold
    /\ half_open_calls \in 0..half_open_max_calls
    /\ successes \in 0..(half_open_max_calls - 1)
    /\ cooled \in BOOLEAN
    /\ running \subseteq Callers
    /\ healthy \in BOOLEAN
    /\ probing \subseteq running
    /\ wasted \in BOOLEAN
    /\ probes \in 0..half_open_max_calls
    /\ circuit = "half_open" => probes = half_open_calls

(***************************************************************************)
(* While the service answers, the breaker closes again and again, unless a *)
(* cancelled probe has used up a call of the half-open phase for good:     *)
(* then nothing but reset(), or the result of an older call, may close it. *)
(***************************************************************************)
Recovers == <>[](healthy /\ ~wasted) => []<>(circuit = "closed")
=============================================================================

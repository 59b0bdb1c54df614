---------------------------- MODULE ModelGateway ----------------------------
(***************************************************************************)
(* Calls of a chat model (ai_gateway/client.py) with the tenant's          *)
(* llm_config (admin_service/routes/config.py, nodes/llm_generate.py), and *)
(* the circuit breaker that guards those of the API gateway                *)
(* (api_gateway/middleware/circuit_breaker.py), whose states are those of  *)
(* the circuitbreaker library.  The primary model has 3 seconds to open    *)
(* its stream; the fallback, and a stream once open, have no limit.        *)
(***************************************************************************)
EXTENDS Naturals, FiniteSets

CONSTANTS
    Prompts,      \* model calls
    Guarded,      \* those made through call_llm
    Models,       \* models an admin may set
    Personas,     \* system prompts an admin may set
    Names,        \* values of persona_name, null among them
    Temperatures, \* values of temperature, 0.7 among them
    Primary,      \* llm_primary_model of the settings
    Secondary,    \* llm_fallback_model of the settings
    Unset,        \* a key that llm_config does not have, a call without a model
    Threshold     \* failure_threshold, 50

ASSUME GatewayAssumption ==
    /\ Guarded \subseteq Prompts /\ IsFiniteSet(Guarded)
    /\ Unset \notin Models \cup Personas \cup Names \cup Temperatures
    /\ {Primary, Secondary} \subseteq Models
    /\ Threshold \in Nat \ {0}

VARIABLES
    llm_config,   \* tenants.llm_config
    newest,       \* what each of its keys should hold after the updates so far
    prompt,       \* where each call is
    routes,       \* the models each call works with
    answerer,     \* the model whose stream each call reads
    fellBack,     \* calls whose primary model failed, or took too long
    breaker,      \* state of the circuit of call_llm
    failures,     \* its count of failures
    blamed        \* guarded calls that failed since one last succeeded

configVars  == <<llm_config, newest>>
circuitVars == <<breaker, failures, blamed>>
gatewayVars == <<configVars, prompt, routes, answerer, fellBack, circuitVars>>

Default == [model |-> Primary, fallback_model |-> Secondary]

Keys == {"system_prompt", "persona_name", "model", "fallback_model", "temperature"}

GatewayInit ==
    /\ llm_config = [k \in Keys |-> Unset]
    /\ newest = [k \in Keys |-> Unset]
    /\ prompt = [p \in Prompts |-> "new"]
    /\ routes = [p \in Prompts |-> Default]
    /\ answerer = [p \in Prompts |-> Unset]
    /\ fellBack = {}
    /\ breaker = "closed"
    /\ failures = 0
    /\ blamed = {}

(***************************************************************************)
(* PUT /persona and /model: one UPDATE merges the keys of the body into    *)
(* the JSON of the row.  exclude_none leaves out a missing fallback_model; *)
(* a missing persona_name is written as null, a missing temperature as 0.7.*)
(***************************************************************************)
\* Mutant: the body replaces the JSON.
Merge_Replace(old, body) ==
    [k \in Keys |-> IF k \in DOMAIN body THEN body[k] ELSE Unset]

Merge(old, body) == [k \in Keys |-> IF k \in DOMAIN body THEN body[k] ELSE old[k]]

\* Mutant: a missing fallback_model is written as well.
ModelBody_Whole(model, fallback, temperature) ==
    [model |-> model, fallback_model |-> fallback, temperature |-> temperature]

ModelBody(model, fallback, temperature) ==
    IF fallback = Unset THEN [model |-> model, temperature |-> temperature]
    ELSE [model |-> model, fallback_model |-> fallback, temperature |-> temperature]

Configure(body) ==
    /\ llm_config' = Merge(llm_config, body)
    /\ UNCHANGED <<prompt, routes, answerer, fellBack, circuitVars>>

UpdatePersona(persona, name) ==
    /\ Configure([system_prompt |-> persona, persona_name |-> name])
    /\ newest' = [newest EXCEPT !.system_prompt = persona, !.persona_name = name]

UpdateModel(model, fallback, temperature) ==
    /\ Configure(ModelBody(model, fallback, temperature))
    /\ newest' = [newest EXCEPT !.model = model, !.temperature = temperature,
                                !.fallback_model = IF fallback = Unset THEN @ ELSE fallback]

-----------------------------------------------------------------------------
Routes(config) ==
    [k \in {"model", "fallback_model"} |-> IF config[k] = Unset THEN Default[k] ELSE config[k]]

\* The configuration is read, or the read fails and the settings are used.
LoadConfig(p) ==
    /\ prompt[p] = "new"
    /\ p \in Guarded => breaker # "open"
    /\ prompt' = [prompt EXCEPT ![p] = "primary"]
    /\ \/ routes' = [routes EXCEPT ![p] = Routes(llm_config)]
       \/ routes' = [routes EXCEPT ![p] = Default]
    /\ UNCHANGED <<configVars, answerer, fellBack, circuitVars>>

\* safe_call_llm answers DEGRADED_RESPONSE while the circuit is open.
Degrade(p) ==
    /\ prompt[p] = "new"
    /\ p \in Guarded
    /\ breaker = "open"
    /\ prompt' = [prompt EXCEPT ![p] = "degraded"]
    /\ UNCHANGED <<configVars, routes, answerer, fellBack, circuitVars>>

(***************************************************************************)
(* The library: a success closes the circuit, whatever its state; a        *)
(* failure counts, and opens it from the threshold on.                     *)
(***************************************************************************)
\* Mutant: a success closes the circuit and leaves the count.
AfterSuccess_Kept == [state |-> "closed", count |-> failures]

AfterSuccess == [state |-> "closed", count |-> 0]

AfterFailure ==
    [state |-> IF failures + 1 >= Threshold THEN "open" ELSE breaker, count |-> failures + 1]

OpenStream(p, key) ==
    /\ prompt' = [prompt EXCEPT ![p] = "reading"]
    /\ answerer' = [answerer EXCEPT ![p] = routes[p][key]]
    /\ UNCHANGED <<configVars, routes, fellBack, circuitVars>>

PrimaryOpens(p) == prompt[p] = "primary" /\ OpenStream(p, "model")

\* Mutant: the circuit is charged for the primary, whatever the fallback does.
Charge_Primary(p) == breaker' = AfterFailure.state /\ failures' = AfterFailure.count

\* stream_chat_completion handles the failure: the circuit is around it.
Charge(p) == UNCHANGED <<breaker, failures>>

\* An error or 3 seconds: wait_for cancels the request, and the fallback is asked.
PrimaryFails(p) ==
    /\ prompt[p] = "primary"
    /\ prompt' = [prompt EXCEPT ![p] = "fallback"]
    /\ fellBack' = fellBack \cup {p}
    /\ Charge(p)
    /\ UNCHANGED <<configVars, routes, answerer, blamed>>

\* Mutant: the model that timed out is asked again.
Substitute_Primary == "model"

Substitute == "fallback_model"

FallbackOpens(p) == prompt[p] = "fallback" /\ OpenStream(p, Substitute)

Finish(p, end, circuit) ==
    /\ prompt' = [prompt EXCEPT ![p] = end]
    /\ IF p \in Guarded
       THEN breaker' = circuit.state /\ failures' = circuit.count
       ELSE UNCHANGED <<breaker, failures>>
    /\ UNCHANGED <<configVars, routes, answerer, fellBack>>

StreamEnds(p) ==
    /\ prompt[p] = "reading"
    /\ Finish(p, "answered", AfterSuccess)
    /\ blamed' = IF p \in Guarded THEN {} ELSE blamed

\* The fallback refuses, or an open stream breaks: nothing more is tried.
CallFails(p) ==
    /\ prompt[p] \in {"fallback", "reading"}
    /\ Finish(p, "failed", AfterFailure)
    /\ blamed' = blamed \cup ({p} \cap Guarded)

\* recovery_timeout, 30 seconds, is over: calls are let through again.
HalfOpen ==
    /\ breaker = "open"
    /\ breaker' = "half_open"
    /\ UNCHANGED <<configVars, prompt, routes, answerer, fellBack, failures, blamed>>

Prompting(p) ==
    \/ LoadConfig(p) \/ Degrade(p)
    \/ PrimaryOpens(p) \/ PrimaryFails(p) \/ FallbackOpens(p)
    \/ StreamEnds(p) \/ CallFails(p)

GatewayNext ==
    \/ \E persona \in Personas, name \in Names : UpdatePersona(persona, name)
    \/ \E model \in Models, fallback \in Models \cup {Unset}, temperature \in Temperatures :
          UpdateModel(model, fallback, temperature)
    \/ \E p \in Prompts : Prompting(p)
    \/ HalfOpen

GatewaySpec == GatewayInit /\ [][GatewayNext]_gatewayVars

-----------------------------------------------------------------------------
GatewayTypeOK ==
    /\ llm_config \in [Keys -> Models \cup Personas \cup Names \cup Temperatures \cup {Unset}]
    /\ prompt \in [Prompts -> {"new", "primary", "fallback", "reading", "answered", "failed",
                               "degraded"}]
    /\ routes \in [Prompts -> [{"model", "fallback_model"} -> Models]]
    /\ answerer \in [Prompts -> Models \cup {Unset}]
    /\ fellBack \subseteq Prompts
    /\ breaker \in {"closed", "open", "half_open"}
    /\ blamed \subseteq Guarded

(***************************************************************************)
(* Types; an update of the persona leaves the keys of the model, one of    *)
(* the model leaves those of the persona and a fallback it does not name,  *)
(* while persona_name and temperature are those of the last update of      *)
(* their endpoint, left out or not; a call reads the fallback's stream     *)
(* exactly if its primary model failed or was late, each of the models it  *)
(* began with; the circuit counts the guarded calls that failed since one  *)
(* last succeeded, each once and none that its fallback saved; and it is   *)
(* closed exactly while the count is below the threshold, also when a call *)
(* begun before it opened succeeds after.                                  *)
(***************************************************************************)
GatewayInv ==
    /\ GatewayTypeOK
    /\ llm_config = newest
    /\ \A p \in Prompts : answerer[p] # Unset =>
           answerer[p] = routes[p][IF p \in fellBack THEN "fallback_model" ELSE "model"]
    /\ failures = Cardinality(blamed)
    /\ breaker = "closed" <=> failures < Threshold
=============================================================================

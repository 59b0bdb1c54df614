----------------------------- MODULE ChatStartup -----------------------------
(***************************************************************************)
(* The life of a chat service process (chat_service/main.py, agent/        *)
(* checkpointer.py, shared/db.py): the pool of database connections, the   *)
(* agent with its checkpointer, then the clients that _wire_dependencies   *)
(* puts into the modules of the nodes, one after the other, each of which  *)
(* may fail without stopping the start.  Requests are served between the   *)
(* start and the shutdown, and pass ChatTenantAuthMiddleware.              *)
(***************************************************************************)
EXTENDS Naturals, Sequences

CONSTANTS
    Callers,     \* requests other than GET /health
    Customers,   \* tenants, each with an API key
    MaxStarts    \* bound on the starts of the process

ASSUME StartupAssumption == MaxStarts \in Nat

Wiring == <<"asr", "vision", "summarizer", "embedding", "reranker", "collection", "oss">>

Clients == {Wiring[i] : i \in DOMAIN Wiring}

VARIABLES
    starts,     \* starts of the process so far
    process,    \* "down", or where the process is in its life
    pool,       \* app.state.db_pool
    agent,      \* app.state.agent, the compiled graph
    wired,       \* position in Wiring
    client,     \* the module-level clients
    rag_ready,  \* the flag of _wire_dependencies
    announced,  \* the mode logged at its end
    active,     \* tenants whose status is active
    caller,     \* where each request is
    suspect     \* requests authenticated for a tenant that was not active then

processVars == <<process, pool, agent, wired, client, rag_ready, announced>>
startupVars == <<starts, processVars, active, caller, suspect>>

StartupInit ==
    /\ starts = 0
    /\ process = "down"
    /\ pool = "none"
    /\ agent = FALSE
    /\ wired = 1
    /\ client = [d \in Clients |-> "unset"]
    /\ rag_ready = TRUE
    /\ announced = "none"
    /\ active = Customers
    /\ caller = [c \in Callers |-> "new"]
    /\ suspect = {}

Outside == <<starts, active, caller, suspect>>

(***************************************************************************)
(* lifespan: an error of create_asyncpg_pool or of the checkpointer ends   *)
(* the start; in the second case nothing closes the pool.                  *)
(***************************************************************************)
Start ==
    /\ process = "down"
    /\ starts < MaxStarts
    /\ starts' = starts + 1
    /\ \/ process' = "agent" /\ pool' = "open"
       \/ process' = "failed" /\ UNCHANGED pool
    /\ UNCHANGED <<agent, wired, client, rag_ready, announced, active, caller, suspect>>

BuildAgent ==
    /\ process = "agent"
    /\ \/ process' = "wiring" /\ agent' = TRUE
       \/ process' = "failed" /\ UNCHANGED agent
    /\ UNCHANGED <<pool, wired, client, rag_ready, announced, Outside>>

(***************************************************************************)
(* _wire_dependencies: a client, or None if it cannot be made (or if the   *)
(* collection does not exist); without embeddings or collection the RAG    *)
(* engine is not ready.                                                    *)
(***************************************************************************)
\* Mutant: only the errors of the embedding service count.
Needed_Embedding == {"embedding"}

Needed == {"embedding", "collection"}

Wire(made) ==
    /\ process = "wiring"
    /\ wired <= Len(Wiring)
    /\ client' = [client EXCEPT ![Wiring[wired]] = IF made THEN "client" ELSE "none"]
    /\ rag_ready' = (rag_ready /\ (made \/ Wiring[wired] \notin Needed))
    /\ wired' = wired + 1
    /\ UNCHANGED <<process, pool, agent, announced, Outside>>

Serve ==
    /\ process = "wiring"
    /\ wired > Len(Wiring)
    /\ process' = "serving"
    /\ announced' = IF rag_ready THEN "full" ELSE "chat-only"
    /\ UNCHANGED <<pool, agent, wired, client, rag_ready, Outside>>

\* The server stops taking requests, and the lifespan closes the pool.
Shutdown ==
    /\ process = "serving"
    /\ \A c \in Callers : caller[c] # "checking"
    /\ process' = "stopped"
    /\ pool' = "closed"
    /\ agent' = FALSE
    /\ UNCHANGED <<wired, client, rag_ready, announced, Outside>>

\* The process ends, after a shutdown or a failed start or by a crash.
Exit ==
    /\ process # "down"
    /\ process' = "down"
    /\ pool' = "none"
    /\ agent' = FALSE
    /\ wired' = 1
    /\ client' = [d \in Clients |-> "unset"]
    /\ rag_ready' = TRUE
    /\ announced' = "none"
    /\ caller' = [c \in Callers |-> IF caller[c] = "checking" THEN "dropped" ELSE caller[c]]
    /\ UNCHANGED <<starts, active, suspect>>

(***************************************************************************)
(* ChatTenantAuthMiddleware: a bearer token is needed, and a row of an     *)
(* active tenant with its hash.                                            *)
(***************************************************************************)
\* Mutant: the status of the tenant is not looked at.
Accepted_AnyStatus(t) == TRUE

Accepted(t) == t \in active

Call(c, bearer) ==
    /\ process = "serving"
    /\ caller[c] = "new"
    /\ caller' = [caller EXCEPT ![c] = IF bearer THEN "checking" ELSE "unauthorized"]
    /\ UNCHANGED <<starts, processVars, active, suspect>>

\* The token is the key of tenant t; Unknown below: of none.
Authenticate(c, t) ==
    /\ process = "serving"
    /\ caller[c] = "checking"
    /\ caller' = [caller EXCEPT ![c] = IF Accepted(t) THEN "admitted" ELSE "unauthorized"]
    /\ suspect' = IF t \in active THEN suspect ELSE suspect \cup {c}
    /\ UNCHANGED <<starts, processVars, active>>

Unknown(c) ==
    /\ process = "serving"
    /\ caller[c] = "checking"
    /\ caller' = [caller EXCEPT ![c] = "unauthorized"]
    /\ UNCHANGED <<starts, processVars, active, suspect>>

\* An operator changes tenants.status.
ChangeStatus(t) ==
    /\ active' = IF t \in active THEN active \ {t} ELSE active \cup {t}
    /\ UNCHANGED <<starts, processVars, caller, suspect>>

StartupNext ==
    \/ Start \/ BuildAgent \/ Serve \/ Shutdown \/ Exit
    \/ \E made \in BOOLEAN : Wire(made)
    \/ \E c \in Callers : Unknown(c)
    \/ \E c \in Callers, bearer \in BOOLEAN : Call(c, bearer)
    \/ \E c \in Callers, t \in Customers : Authenticate(c, t)
    \/ \E t \in Customers : ChangeStatus(t)

StartupSpec == StartupInit /\ [][StartupNext]_startupVars

-----------------------------------------------------------------------------
StartupTypeOK ==
    /\ starts \in 0..MaxStarts
    /\ process \in {"down", "agent", "wiring", "serving", "stopped", "failed"}
    /\ pool \in {"none", "open", "closed"}
    /\ agent \in BOOLEAN
    /\ wired \in 1..(Len(Wiring) + 1)
    /\ client \in [Clients -> {"unset", "client", "none"}]
    /\ rag_ready \in BOOLEAN
    /\ announced \in {"none", "full", "chat-only"}
    /\ active \subseteq Customers
    /\ caller \in [Callers -> {"new", "checking", "admitted", "unauthorized", "dropped"}]
    /\ suspect \subseteq Callers

(***************************************************************************)
(* Types; a process that serves has its pool, its agent and every client   *)
(* decided; the mode it announced is the one its RAG node works in, which  *)
(* needs an embedding service and a collection; and no request passed for  *)
(* a tenant that was not active when it was checked.                       *)
(***************************************************************************)
HasRag == client["embedding"] = "client" /\ client["collection"] = "client"

StartupInv ==
    /\ StartupTypeOK
    /\ process = "serving" =>
           /\ pool = "open"
           /\ agent
           /\ \A d \in Clients : client[d] # "unset"
           /\ announced = "full" <=> HasRag
    /\ \A c \in suspect : caller[c] # "admitted"
=============================================================================

---------------------------- MODULE Orchestrator ----------------------------
(***************************************************************************)
(* MultiAgentOrchestrator (chat_service/agent/orchestrator.py and          *)
(* role_registry.py): concurrent workflows share the registered agents.    *)
(* The tasks of a workflow are made first and then run one by one.  Only   *)
(* the attempts of execute_with_retry and the pauses between them wait, so *)
(* that ending a task, freeing its agent and delegating the next is one    *)
(* step.  The agents have an execute_task; its caller may cancel a         *)
(* workflow at any wait.                                                   *)
(***************************************************************************)
EXTENDS Naturals, Sequences, FiniteSets, Functions, Ranks

CONSTANTS
    Agents,
    Workflows,
    Offers,          \* available_agents arguments: sequences of agents
    role,            \* role each agent is registered with
    Asked,           \* the parts that the queries asked for call for
    max_retries,
    MaxRegistrations \* bound on the registrations of an agent

ASSUME OrchestratorAssumption ==
    /\ Offers \subseteq Seq(Agents)
    /\ Asked \subseteq (SUBSET {"rag_specialist", "tool_executor", "generalist"}) \ {{}}
    /\ max_retries \in Nat
    /\ MaxRegistrations \in Nat

Unassigned == "unassigned"

VARIABLES
    agents,      \* _agents: status of each agent, or "unknown"
    registered,  \* how often each was registered
    flow,        \* where each workflow is
    offer,       \* its available_agents
    tasks,       \* its tasks
    attempt,     \* retry_count of its current task
    metrics      \* successful and failed tasks

orchVars == <<agents, registered, flow, offer, tasks, attempt, metrics>>

OrchInit ==
    /\ agents = [a \in Agents |-> "unknown"]
    /\ registered = [a \in Agents |-> 0]
    /\ flow = [w \in Workflows |-> "new"]
    /\ offer = [w \in Workflows |-> <<>>]
    /\ tasks = [w \in Workflows |-> <<>>]
    /\ attempt = [w \in Workflows |-> 0]
    /\ metrics = [successful |-> 0, failed |-> 0]

RegisterAgent(a) ==
    /\ registered[a] < MaxRegistrations
    /\ registered' = [registered EXCEPT ![a] = @ + 1]
    /\ agents' = [agents EXCEPT ![a] = "available"]
    /\ UNCHANGED <<flow, offer, tasks, attempt, metrics>>

(***************************************************************************)
(* get_role_for_task: the role that has the type among its capabilities.   *)
(* The types of decompose_task are names of roles, so there is none.       *)
(***************************************************************************)
Capabilities ==
    [router         |-> {"route", "classify", "escalate"},
     rag_specialist |-> {"search", "retrieve", "cite"},
     tool_executor  |-> {"execute", "call_api", "database"},
     generalist     |-> {"respond", "explain", "summarize"}]

TargetRoles(type) == {r \in DOMAIN Capabilities : type \in Capabilities[r]}

Suits(a, type) == TargetRoles(type) = {} \/ role[a] \in TargetRoles(type)

\* Mutant: an agent is taken whatever its status.
Usable_Known(a, status) == status[a] # "unknown"

Usable(a, status) == status[a] = "available"

\* The first of some places of a list, if there is one.
Earliest(places) == {i \in places : \A j \in places : i <= j}

\* delegate_task: the first available agent of the role, else the first available.
Delegated(list, type, status) ==
    LET free == {i \in DOMAIN list : Usable(list[i], status)}
        fit  == {i \in free : Suits(list[i], type)}
    IN  {list[i] : i \in Earliest(IF fit = {} THEN free ELSE fit)}

Task(type) == [type |-> type, status |-> "pending", agent |-> Unassigned]

\* decompose_task: the parts that words of the query call for, in this order.
Parts == <<"rag_specialist", "tool_executor", "generalist">>

Queries ==
    {LET called == InOrder({i \in DOMAIN Parts : Parts[i] \in words})
     IN  [k \in DOMAIN called |-> Parts[called[k]]] : words \in Asked}

Those(ts, status) == {i \in DOMAIN ts : ts[i].status = status}

Skipped(ts) ==
    [i \in DOMAIN ts |-> IF ts[i].status = "pending" THEN [ts[i] EXCEPT !.status = "no_agent"]
                                                     ELSE ts[i]]

(***************************************************************************)
(* The loop of execute_workflow over the tasks ts from the first pending   *)
(* one: it is delegated, or, as no await intervenes, neither it nor those  *)
(* that follow find an agent and the workflow ends.                        *)
(***************************************************************************)
Proceed(w, ts, list, status) ==
    LET pending == Earliest(Those(ts, "pending"))
        choices == {c \in pending \X Agents : c[2] \in Delegated(list, ts[c[1]].type, status)}
    IN  /\ attempt' = [attempt EXCEPT ![w] = 0]
        /\ \/ /\ choices = {}
              /\ flow' = [flow EXCEPT ![w] = "done"]
              /\ tasks' = [tasks EXCEPT ![w] = Skipped(ts)]
              /\ agents' = status
           \/ \E c \in choices :
                /\ flow' = [flow EXCEPT ![w] = "attempt"]
                /\ tasks' = [tasks EXCEPT ![w] =
                       [ts EXCEPT ![c[1]] = [@ EXCEPT !.status = "assigned", !.agent = c[2]]]]
                /\ agents' = [status EXCEPT ![c[2]] = "busy"]

ExecuteWorkflow(w) ==
    /\ flow[w] = "new"
    /\ \E list \in Offers, parts \in Queries :
         /\ offer' = [offer EXCEPT ![w] = list]
         /\ Proceed(w, [i \in DOMAIN parts |-> Task(parts[i])], list, agents)
    /\ UNCHANGED <<registered, metrics>>

Current(w) == CHOOSE i \in DOMAIN tasks[w] : tasks[w][i].status = "assigned"

Holder(w) == tasks[w][Current(w)].agent

(***************************************************************************)
(* mark_agent_available follows execute_with_retry, whose last failure is  *)
(* a result like any other.                                                *)
(***************************************************************************)
\* Mutant: the agent is given back after a success only.
Freed_OnSuccess(w, outcome) ==
    IF outcome = "successful" THEN [agents EXCEPT ![Holder(w)] = "available"] ELSE agents

Freed(w, outcome) == [agents EXCEPT ![Holder(w)] = "available"]

EndTask(w, outcome) ==
    /\ metrics' = [metrics EXCEPT ![outcome] = @ + 1]
    /\ Proceed(w, [tasks[w] EXCEPT ![Current(w)].status = "completed"], offer[w],
               Freed(w, outcome))
    /\ UNCHANGED <<registered, offer>>

CompleteTask(w) ==
    /\ flow[w] = "attempt"
    /\ EndTask(w, "successful")

\* An exception, or the timeout of wait_for: a pause, or the end.
FailAttempt(w) ==
    /\ flow[w] = "attempt"
    /\ \/ /\ attempt[w] < max_retries
          /\ flow' = [flow EXCEPT ![w] = "pause"]
          /\ UNCHANGED <<agents, registered, offer, tasks, attempt, metrics>>
       \/ /\ attempt[w] >= max_retries
          /\ EndTask(w, "failed")

Retry(w) ==
    /\ flow[w] = "pause"
    /\ flow' = [flow EXCEPT ![w] = "attempt"]
    /\ attempt' = [attempt EXCEPT ![w] = @ + 1]
    /\ UNCHANGED <<agents, registered, offer, tasks, metrics>>

\* CancelledError leaves execute_workflow at once: nothing is given back.
CancelWorkflow(w) ==
    /\ flow[w] \in {"attempt", "pause"}
    /\ flow' = [flow EXCEPT ![w] = "cancelled"]
    /\ UNCHANGED <<agents, registered, offer, tasks, attempt, metrics>>

OrchNext ==
    \/ \E a \in Agents : RegisterAgent(a)
    \/ \E w \in Workflows : \/ ExecuteWorkflow(w) \/ CompleteTask(w) \/ FailAttempt(w)
                            \/ Retry(w) \/ CancelWorkflow(w)

\* An attempt ends by its timeout at the latest, and a pause by its length.
OrchFairness ==
    \A w \in Workflows : WF_orchVars(CompleteTask(w) \/ FailAttempt(w)) /\ WF_orchVars(Retry(w))

OrchSpec == OrchInit /\ [][OrchNext]_orchVars /\ OrchFairness

-----------------------------------------------------------------------------
TaskRecords == [type : Range(Parts), status : {"pending", "assigned", "completed", "no_agent"},
                agent : Agents \cup {Unassigned}]

Holding(a) == {w \in Workflows : /\ flow[w] \in {"attempt", "pause", "cancelled"}
                                 /\ Holder(w) = a}

\* The tasks of all workflows that were executed.
Completed == UNION {{w} \X Those(tasks[w], "completed") : w \in Workflows}

(***************************************************************************)
(* Types; an agent that is registered once is busy exactly when one        *)
(* workflow, perhaps a cancelled one, holds it, and no two ever do; a      *)
(* workflow that has ended has a completed or agentless task for every     *)
(* part; and the metrics count the completed tasks, failed ones included.  *)
(***************************************************************************)
OrchInv ==
    /\ agents \in [Agents -> {"unknown", "available", "busy"}]
    /\ registered \in [Agents -> 0..MaxRegistrations]
    /\ flow \in [Workflows -> {"new", "attempt", "pause", "done", "cancelled"}]
    /\ offer \in [Workflows -> Offers \cup {<<>>}]
    /\ tasks \in [Workflows -> Seq(TaskRecords)]
    /\ attempt \in [Workflows -> 0..max_retries]
    /\ metrics \in [successful : Nat, failed : Nat]
    /\ \A a \in Agents : registered[a] <= 1 =>
           Cardinality(Holding(a)) = IF agents[a] = "busy" THEN 1 ELSE 0
    /\ \A w \in Workflows : \A i \in DOMAIN tasks[w] :
           flow[w] = "done" => tasks[w][i].status \in {"completed", "no_agent"}
    /\ metrics.successful + metrics.failed = Cardinality(Completed)

(***************************************************************************)
(* Whatever its agent does, an agent comes back from every workflow but a  *)
(* cancelled one, which keeps it busy until it is registered again.        *)
(***************************************************************************)
AgentsReturn ==
    \A a \in Agents :
        (agents[a] = "busy") ~>
            (agents[a] = "available" \/ \E w \in Holding(a) : flow[w] = "cancelled")
=============================================================================

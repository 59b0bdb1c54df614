------------------------------ MODULE Toolbox ------------------------------
(***************************************************************************)
(* ToolRegistry, and the ToolExecutor that runs its tools                  *)
(* (chat_service/agent/tool_registry.py, tool_executor.py).  They live in  *)
(* one process, whose event loop changes hands only where the handler of a *)
(* tool is awaited.                                                        *)
(***************************************************************************)
EXTENDS Naturals, Sequences, SequencesExt, Functions

CONSTANTS
    Tools,      \* names of tools
    Handlers,   \* functions that tools are registered with
    Async,      \* those of them that are coroutine functions
    Batches,    \* calls of execute_sequence and execute_parallel
    calls,      \* the tools each batch names, in order
    mode        \* "stop" or "go on" (stop_on_error), or "parallel"

NoHandler == "no handler"

Free == "free"

ASSUME ToolboxAssumption ==
    /\ calls \in [Batches -> Seq(Tools)]
    /\ mode \in [Batches -> {"stop", "go on", "parallel"}]
    /\ Async \subseteq Handlers /\ NoHandler \notin Handlers
    /\ Free \notin Batches

VARIABLES
    tools,    \* _tools: "absent", "enabled" or "disabled"
    handlers, \* _tool_handlers
    loop,     \* the batch that has the event loop, or Free
    batch,    \* "new", "running" or "done"
    position, \* index of the next call of each batch
    awaiting, \* indices of the calls that are being awaited
    results,  \* the executions of each batch: NoRun or one of Outcomes
    history   \* _execution_history

registryVars == <<tools, handlers>>
batchVars    == <<loop, batch, position, awaiting, results, history>>
toolboxVars  == <<registryVars, batchVars>>

NoRun == "not run"

\* A result, an error whose text is not empty, or one whose text is.
Outcomes == {"ok", "error", "silent"}

ToolboxInit ==
    /\ tools = [t \in Tools |-> "absent"]
    /\ handlers = [t \in Tools |-> NoHandler]
    /\ loop = Free
    /\ batch = [b \in Batches |-> "new"]
    /\ position = [b \in Batches |-> 1]
    /\ awaiting = [b \in Batches |-> {}]
    /\ results = [b \in Batches |-> [i \in DOMAIN calls[b] |-> NoRun]]
    /\ history = <<>>

(***************************************************************************)
(* ToolRegistry.  A registration without a handler leaves the old one.     *)
(***************************************************************************)
RegisterTool(t, h) ==
    /\ tools' = [tools EXCEPT ![t] = "enabled"]
    /\ handlers' = IF h = NoHandler THEN handlers ELSE [handlers EXCEPT ![t] = h]
    /\ UNCHANGED batchVars

SetToolEnabled(t, status) ==
    /\ tools[t] # "absent"
    /\ tools' = [tools EXCEPT ![t] = status]
    /\ UNCHANGED <<handlers, batchVars>>

UnregisterTool(t) ==
    /\ tools[t] # "absent"
    /\ tools' = [tools EXCEPT ![t] = "absent"]
    /\ handlers' = [handlers EXCEPT ![t] = NoHandler]
    /\ UNCHANGED batchVars

-----------------------------------------------------------------------------
StartBatch(b) ==
    /\ batch[b] = "new"
    /\ batch' = [batch EXCEPT ![b] = "running"]
    /\ loop' = b
    /\ UNCHANGED <<registryVars, position, awaiting, results, history>>

\* Mutant: an error does not stop the sequence.
Stops_Never(b, outcome) == FALSE

\* stop_on_error looks at the text of the error.  That of a time-out, an
\* AssertionError() or a ValueError() is empty, and the sequence goes on.
Stops(b, outcome) == mode[b] = "stop" /\ outcome = "error"

Ended(b, i, outcome) ==
    /\ results' = [results EXCEPT ![b][i] = outcome]
    /\ history' = Append(history, <<b, i>>)

After(b, i, outcome) == IF Stops(b, outcome) THEN Len(calls[b]) + 1 ELSE i + 1

Called(b) == handlers[calls[b][position[b]]]

(***************************************************************************)
(* execute_tool up to its await: an unknown tool or one without a handler  *)
(* is an error at once, a plain function has its result at once, and a     *)
(* coroutine is awaited; whether the tool is enabled is not looked at.     *)
(* The calls of execute_parallel all begin before the loop is free again.  *)
(***************************************************************************)
CallTool(b) ==
    /\ loop = b /\ position[b] <= Len(calls[b])
    /\ \/ /\ Called(b) \in Async
          /\ awaiting' = [awaiting EXCEPT ![b] = @ \cup {position[b]}]
          /\ position' = [position EXCEPT ![b] = @ + 1]
          /\ loop' = IF mode[b] = "parallel" THEN loop ELSE Free
          /\ UNCHANGED <<results, history>>
       \/ \E outcome \in IF Called(b) = NoHandler THEN {"error"} ELSE Outcomes :
            /\ Called(b) \notin Async
            /\ Ended(b, position[b], outcome)
            /\ position' = [position EXCEPT ![b] = After(b, @, outcome)]
            /\ UNCHANGED <<awaiting, loop>>
    /\ UNCHANGED <<registryVars, batch>>

\* A result, an exception of the handler, or the TimeoutError of wait_for.
EndCall(b, i) ==
    /\ loop = Free /\ i \in awaiting[b]
    /\ \E outcome \in Outcomes :
         /\ Ended(b, i, outcome)
         /\ position' = [position EXCEPT ![b] = IF mode[b] = "parallel" THEN @ ELSE After(b, i, outcome)]
    /\ awaiting' = [awaiting EXCEPT ![b] = @ \ {i}]
    /\ loop' = b
    /\ UNCHANGED <<registryVars, batch>>

EndBatch(b) ==
    /\ loop = b /\ position[b] > Len(calls[b])
    /\ loop' = Free
    /\ batch' = [batch EXCEPT ![b] = IF awaiting[b] = {} THEN "done" ELSE @]
    /\ UNCHANGED <<registryVars, position, awaiting, results, history>>

ToolboxNext ==
    \/ /\ loop = Free
       /\ \/ \E t \in Tools : \/ \E h \in Handlers \cup {NoHandler} : RegisterTool(t, h)
                              \/ \E s \in {"enabled", "disabled"} : SetToolEnabled(t, s)
                              \/ UnregisterTool(t)
          \/ \E b \in Batches : StartBatch(b)
    \/ \E b \in Batches : \/ CallTool(b) \/ EndBatch(b)
                          \/ \E i \in DOMAIN calls[b] : EndCall(b, i)

ToolboxSpec == ToolboxInit /\ [][ToolboxNext]_toolboxVars

-----------------------------------------------------------------------------
Run(b) == {i \in DOMAIN calls[b] : results[b][i] # NoRun}

(***************************************************************************)
(* Types; a handler belongs to a registered tool; the history has every    *)
(* execution once; and a batch that has ended has executed each of its     *)
(* calls, or, one that stops at an error, up to the first that failed with *)
(* a text: a failure without one, such as a time-out, never stops it.      *)
(***************************************************************************)
ToolboxInv ==
    /\ tools \in [Tools -> {"absent", "enabled", "disabled"}]
    /\ handlers \in [Tools -> Handlers \cup {NoHandler}]
    /\ loop \in Batches \cup {Free}
    /\ batch \in [Batches -> {"new", "running", "done"}]
    /\ \A b \in Batches : /\ position[b] \in 1..(Len(calls[b]) + 1)
                          /\ awaiting[b] \subseteq DOMAIN calls[b] \ Run(b)
                          /\ results[b] \in [DOMAIN calls[b] -> Outcomes \cup {NoRun}]
    /\ \A t \in Tools : handlers[t] # NoHandler => tools[t] # "absent"
    /\ IsInjective(history)
    /\ ToSet(history) = UNION {{<<b, i>> : i \in Run(b)} : b \in Batches}
    /\ \A b \in Batches : batch[b] = "done" =>
         /\ mode[b] # "stop" => Run(b) = DOMAIN calls[b]
         /\ mode[b] = "stop" => \A i \in DOMAIN calls[b] :
              i \in Run(b) <=> \A j \in 1..(i - 1) : results[b][j] # "error"
=============================================================================

----------------------------- MODULE AgentGraph -----------------------------
(***************************************************************************)
(* The turns of one conversation through the LangGraph agent               *)
(* (chat_service/agent/graph.py, state.py and nodes/), and what the stream *)
(* of a turn makes of the node updates (_consume_stream in routes/chat.py).*)
(*                                                                         *)
(* LangGraph keeps the channels of AgentState in a checkpoint: a new turn  *)
(* overwrites messages, tenant_id and thread_id only, and every other      *)
(* channel still holds what the last turn left there.  Every node returns  *)
(* {**state, ...}, so each update shows all channels, changed or not.      *)
(* A channel's value is represented by the turn it stems from, 0 for none. *)
(***************************************************************************)
EXTENDS Naturals, Sequences

CONSTANTS
    Inputs,     \* what the user may send
    MaxTurns,   \* bound on the turns of the conversation
    Faults      \* which calls may fail

(***************************************************************************)
(* The last message, after transcription and image description, as the     *)
(* router looks at it: it matches a tool rule (whatever else it says), or  *)
(* else asks for a human, is negative, or is none of these; "empty" is a   *)
(* request without messages.  Long ones come with at least 50 messages of  *)
(* history.                                                                *)
(***************************************************************************)
MessageClass == {"order", "human", "negative", "other"}

AllInputs == [class : MessageClass, long : BOOLEAN] \cup [class : {"empty"}, long : {FALSE}]

AllFaults == {"summary", "llm", "graph"}

ASSUME AgentAssumption ==
    /\ Inputs \subseteq AllInputs
    /\ MaxTurns \in Nat
    /\ Faults \subseteq AllFaults

VARIABLES
    turn,      \* number of the current or last turn
    said,      \* its request
    pc,        \* the node to run next, or "idle"
    ch,        \* the channels of AgentState
    asked,     \* this turn asked for a human (router or guardrails)
    ok,        \* the run of this turn has not raised
    sent,      \* response_sent of _consume_stream
    used,      \* tokens_used of _consume_stream: turn it stems from
    out,       \* what this turn put into its stream
    handed,    \* turns that ran hitl_node
    ended      \* the admins have ended the intervention since the last of them

consumer == <<sent, used, out>>
desk     == <<handed, ended>>
vars     == <<turn, said, pc, ch, asked, ok, consumer, desk>>

Nodes == {"preprocess", "router", "tool_executor", "rag_engine", "llm_generate",
          "guardrails", "postprocess", "hitl"}

NoReply == [kind |-> "none", of |-> 0]

Reply(kind) == [kind |-> kind, of |-> turn]

Init ==
    /\ turn = 0
    /\ said = [class |-> "empty", long |-> FALSE]
    /\ pc = "idle"
    /\ ch = [messages |-> "empty", summary |-> "none",
             intent |-> "none", rag_context |-> 0, tool_calls |-> 0,
             hitl_requested |-> FALSE, tokens_used |-> 0,
             llm_response |-> NoReply, guardrails_passed |-> TRUE,
             correction_message |-> 0, unresolved_turns |-> 0]
    /\ asked = FALSE
    /\ ok = TRUE
    /\ sent = FALSE
    /\ used = 0
    /\ out = <<>>
    /\ handed = {}
    /\ ended = FALSE

(***************************************************************************)
(* A request: agent.astream(payload) on the conversation's checkpoint.     *)
(***************************************************************************)
Request(m) ==
    /\ pc = "idle"
    /\ turn < MaxTurns
    /\ turn' = turn + 1
    /\ said' = m
    /\ pc' = "preprocess"
    /\ ch' = [ch EXCEPT !.messages = m.class]
    /\ asked' = FALSE
    /\ ok' = TRUE
    /\ sent' = FALSE
    /\ used' = 0
    /\ out' = <<>>
    /\ UNCHANGED desk

(***************************************************************************)
(* _consume_stream on the update of a node that leaves the channels as     *)
(* new: a response counts as sent the first time one shows up, and is put  *)
(* into the queue only if the node is not llm_generate and the queue has   *)
(* been drained; a correction is put there whenever it shows up.           *)
(***************************************************************************)
Item(kind, of) == [kind |-> kind, of |-> of]

IsReply(r) == r.kind \notin {"none", "blank"}

\* Mutant: a response is pushed although its tokens have been streamed.
Pushed_Always(node, new, stream) ==
    IF IsReply(new.llm_response) /\ (~sent \/ node = "llm_generate")
    THEN {<<Item(new.llm_response.kind, new.llm_response.of)>>}
    ELSE {<<>>}

\* The parts the update may add for the response; the generator may or may
\* not have drained the queue.
Pushed(node, new, stream) ==
    IF ~IsReply(new.llm_response) \/ sent \/ node = "llm_generate"
    THEN {<<>>}
    ELSE LET whole == <<Item(new.llm_response.kind, new.llm_response.of)>>
         IN  IF stream = <<>> THEN {whole} ELSE {whole, <<>>}

\* Mutant: the correction of a turn goes out only if nothing was sent.
Corrected_FirstOnly(new) ==
    IF new.correction_message > 0 /\ ~sent
    THEN <<Item("correction", new.correction_message)>> ELSE <<>>

Corrected(new) ==
    IF new.correction_message > 0
    THEN <<Item("correction", new.correction_message)>> ELSE <<>>

\* Mutant: the first usage that shows up is kept.
Update_FirstUsage(node, new, stream) ==
    /\ ch' = new
    /\ \E whole \in Pushed(node, new, stream) :
          out' = stream \o whole \o Corrected(new)
    /\ sent' = (sent \/ IsReply(new.llm_response))
    /\ used' = IF used = 0 THEN new.tokens_used ELSE used

\* stream: what the turn has put into the queue before the update.
Update(node, new, stream) ==
    /\ ch' = new
    /\ \E whole \in Pushed(node, new, stream) :
          out' = stream \o whole \o Corrected(new)
    /\ sent' = (sent \/ IsReply(new.llm_response))
    /\ used' = IF new.tokens_used > 0 THEN new.tokens_used ELSE used

(***************************************************************************)
(* preprocess: 50 messages or more are replaced by a summary, the message  *)
(* of this turn included.  A summarizer that fails returns "".             *)
(***************************************************************************)
Preprocess ==
    /\ pc = "preprocess"
    /\ \E summary \in {"text"} \cup (IF "summary" \in Faults THEN {"blank"} ELSE {}) :
          Update("preprocess",
                 IF said.long THEN [ch EXCEPT !.messages = "empty", !.summary = summary]
                 ELSE ch, out)
    /\ pc' = "router"
    /\ UNCHANGED <<turn, said, asked, ok, desk>>

(***************************************************************************)
(* router: rules first, then an explicit request for a human, negative     *)
(* sentiment or three unresolved turns, then the LLM's classification,     *)
(* which falls back to "rag".                                              *)
(***************************************************************************)
UnresolvedThreshold == 3

\* Mutant: sentiment is looked at before the explicit request and wins.
Intents_NoHuman(s) ==
    CASE s.messages = "empty" -> {"rag"}
      [] s.messages = "order" -> {"tool"}
      [] s.messages = "negative" \/ s.unresolved_turns >= UnresolvedThreshold -> {"hitl"}
      [] OTHER -> {"tool", "rag", "chitchat"}

Intents(s) ==
    CASE s.messages = "empty" -> {"rag"}
      [] s.messages = "order" -> {"tool"}
      [] s.messages = "human" -> {"hitl"}
      [] s.messages = "negative" \/ s.unresolved_turns >= UnresolvedThreshold -> {"hitl"}
      [] OTHER -> {"tool", "rag", "hitl", "chitchat"}

\* route_decision
RouteDecision(s) ==
    IF s.intent = "tool" THEN "tool_executor"
    ELSE IF s.hitl_requested \/ s.intent = "hitl" THEN "hitl"
    ELSE "rag_engine"

\* Mutant: a route other than hitl withdraws the request.
AfterRouting_Reset(i) == [ch EXCEPT !.intent = i, !.hitl_requested = (i = "hitl")]

\* hitl_requested is set, never withdrawn.
AfterRouting(i) == [ch EXCEPT !.intent = i, !.hitl_requested = @ \/ i = "hitl"]

Router ==
    /\ pc = "router"
    /\ \E i \in Intents(ch) :
          /\ Update("router", AfterRouting(i), out)
          /\ asked' = (i = "hitl")
          /\ pc' = RouteDecision(AfterRouting(i))
    /\ UNCHANGED <<turn, said, ok, desk>>

(***************************************************************************)
(* tool_executor records the result, also as the response; a timeout or an *)
(* error of the tool is a result like any other.                           *)
(***************************************************************************)
\* Mutant: the tool is awaited without a timeout, and never answers.
ToolExecutor_NoTimeout ==
    /\ pc = "tool_executor"
    /\ UNCHANGED vars

ToolExecutor ==
    /\ pc = "tool_executor"
    /\ Update("tool_executor",
              [ch EXCEPT !.tool_calls = turn, !.llm_response = Reply("tool")], out)
    /\ pc' = "llm_generate"
    /\ UNCHANGED <<turn, said, asked, ok, desk>>

\* rag_engine: no message, no service, no hit or no active document leaves an
\* empty context and the intent "no_answer".  (The key chat_only_mode is no
\* channel of AgentState and is dropped.)
RagEngine ==
    /\ pc = "rag_engine"
    /\ \/ Update("rag_engine", [ch EXCEPT !.rag_context = 0, !.intent = "no_answer"], out)
       \/ /\ ch.messages # "empty"
          /\ Update("rag_engine", [ch EXCEPT !.rag_context = turn], out)
    /\ pc' = "llm_generate"
    /\ UNCHANGED <<turn, said, asked, ok, desk>>

(***************************************************************************)
(* llm_generate streams its tokens into the queue.  Without a usage chunk  *)
(* tokens_used is 0; when the call fails, perhaps after some tokens, the   *)
(* response is an apology and tokens_used stays as it was.                 *)
(***************************************************************************)
Streamed == Append(out, Item("tokens", turn))

LlmAnswers ==
    /\ pc = "llm_generate"
    /\ \E usage \in {0, turn}, text \in BOOLEAN :
          Update("llm_generate",
                 [ch EXCEPT !.llm_response = IF text THEN Reply("answer") ELSE Reply("blank"),
                            !.tokens_used = usage,
                            !.guardrails_passed = TRUE],
                 IF text THEN Streamed ELSE out)
    /\ pc' = "guardrails"
    /\ UNCHANGED <<turn, said, asked, ok, desk>>

LlmFails ==
    /\ "llm" \in Faults
    /\ pc = "llm_generate"
    /\ \E stream \in {out, Streamed} :
          Update("llm_generate",
                 [ch EXCEPT !.llm_response = Reply("apology"), !.guardrails_passed = TRUE],
                 stream)
    /\ pc' = "guardrails"
    /\ UNCHANGED <<turn, said, asked, ok, desk>>

(***************************************************************************)
(* guardrails: the NLI model compares the response with rag_context, if    *)
(* there is any; no model, a timeout or an error lets the response pass.   *)
(***************************************************************************)
GuardrailsDecision(s) == IF s.hitl_requested THEN "hitl" ELSE "postprocess"

Compared == ch.rag_context > 0 /\ IsReply(ch.llm_response)

GuardrailsPass ==
    /\ pc = "guardrails"
    /\ LET new == [ch EXCEPT !.guardrails_passed = TRUE]
       IN  /\ Update("guardrails", new, out)
           /\ pc' = GuardrailsDecision(new)
    /\ UNCHANGED <<turn, said, asked, ok, desk>>

\* Mutant: the failed check is not followed by a hand-over.
GuardrailsFail_NoHandover ==
    /\ pc = "guardrails"
    /\ Compared
    /\ LET new == [ch EXCEPT !.guardrails_passed = FALSE, !.correction_message = turn]
       IN  /\ Update("guardrails", new, out)
           /\ pc' = GuardrailsDecision(new)
    /\ asked' = TRUE
    /\ UNCHANGED <<turn, said, ok, desk>>

GuardrailsFail ==
    /\ pc = "guardrails"
    /\ Compared
    /\ LET new == [ch EXCEPT !.guardrails_passed = FALSE, !.correction_message = turn,
                             !.hitl_requested = TRUE]
       IN  /\ Update("guardrails", new, out)
           /\ pc' = GuardrailsDecision(new)
    /\ asked' = TRUE
    /\ UNCHANGED <<turn, said, ok, desk>>

\* postprocess: a turn that failed its guardrails counts as unresolved.
Postprocess ==
    /\ pc = "postprocess"
    /\ Update("postprocess",
              [ch EXCEPT !.unresolved_turns = IF ch.guardrails_passed THEN @ ELSE @ + 1],
              out)
    /\ pc' = "end"
    /\ UNCHANGED <<turn, said, asked, ok, desk>>

\* hitl: a session is created, or that fails; the user is told either way.
Hitl ==
    /\ pc = "hitl"
    /\ Update("hitl", [ch EXCEPT !.llm_response = Reply("notice")], out)
    /\ handed' = handed \cup {turn}
    /\ ended' = FALSE
    /\ pc' = "end"
    /\ UNCHANGED <<turn, said, asked, ok>>

\* end_session of the admin service sets the session to "resolved" and the thread to
\* "active"; nothing of the checkpoint is touched, at whatever point of a turn.
AdminEnds ==
    /\ handed # {} /\ ~ended
    /\ ended' = TRUE
    /\ UNCHANGED <<turn, said, pc, ch, asked, ok, consumer, handed>>

(***************************************************************************)
(* The end of the turn.  What a node does not catch (a signed URL, the     *)
(* soft-delete query, a checkpoint write) ends the run; an apology goes    *)
(* out if no response was seen.                                            *)
(***************************************************************************)
GraphRaises ==
    /\ "graph" \in Faults
    /\ pc \in Nodes
    /\ ok' = FALSE
    /\ out' = IF sent THEN out ELSE Append(out, Item("sorry", turn))
    /\ pc' = "end"
    /\ UNCHANGED <<turn, said, ch, asked, sent, used, desk>>

\* [DONE], and record_usage if any tokens were seen.
EndTurn ==
    /\ pc = "end"
    /\ pc' = "idle"
    /\ UNCHANGED <<turn, said, ch, asked, ok, consumer, desk>>

Step ==
    \/ Preprocess \/ Router \/ ToolExecutor \/ RagEngine
    \/ LlmAnswers \/ LlmFails \/ GuardrailsPass \/ GuardrailsFail
    \/ Postprocess \/ Hitl \/ EndTurn

Next ==
    \/ \E m \in Inputs : Request(m)
    \/ Step
    \/ GraphRaises
    \/ AdminEnds

Spec == Init /\ [][Next]_vars

\* The shielded task runs its graph to the end: the LLM, the tools and the
\* models answer, fail or time out.  The user need not write again.
FairSpec == Spec /\ WF_vars(Step)
-----------------------------------------------------------------------------
(***************************************************************************)
(* Properties                                                              *)
(***************************************************************************)
Replies == [kind : {"none", "blank", "tool", "answer", "apology", "notice"}, of : Nat]

Channels ==
    [messages : MessageClass \cup {"empty"},
     summary : {"none", "text", "blank"},
     intent : {"none", "tool", "rag", "hitl", "chitchat", "no_answer"},
     rag_context : Nat, tool_calls : Nat, hitl_requested : BOOLEAN,
     tokens_used : Nat, llm_response : Replies, guardrails_passed : BOOLEAN,
     correction_message : Nat, unresolved_turns : Nat]

Items == [kind : {"tool", "answer", "apology", "notice", "tokens", "correction", "sorry"},
          of : Nat]

TypeOK ==
    /\ turn \in 0..MaxTurns
    /\ said \in AllInputs
    /\ pc \in Nodes \cup {"idle", "end"}
    /\ ch \in Channels
    /\ asked \in BOOLEAN
    /\ ok \in BOOLEAN
    /\ sent \in BOOLEAN
    /\ used \in Nat
    /\ out \in Seq(Items)
    /\ handed \subseteq 1..MaxTurns
    /\ ended \in BOOLEAN

Delivered(kind) == \E i \in DOMAIN out : out[i] = Item(kind, turn)

TurnDone == pc = "end" /\ ok

\* The request asks for a human or is negative, and the router gets to see it.
SeenByRouter == said.class \in {"human", "negative"} /\ ~said.long

\* A turn that asks for a human, by a keyword or its sentiment, by the LLM's
\* classification or by a failed guardrail, passes through hitl_node, whatever earlier
\* turns left in the checkpoint.  One request is lost: that of a message with 50 or
\* more before it, which preprocess empties before the router looks (preprocess.py:39).
HumanIsCalled == TurnDone /\ (asked \/ SeenByRouter) => turn \in handed

\* What makes it inductive.  The channel hitl_requested covers every reason for a
\* hand-over, and the path to postprocess is left to turns without one.
Routed ==
    pc \in {"tool_executor", "rag_engine", "llm_generate", "guardrails",
            "postprocess", "hitl"}

HandoverShape ==
    /\ pc # "idle" => turn > 0
    /\ asked \/ handed # {} \/ pc = "hitl" => ch.hitl_requested
    /\ pc = "postprocess" => ~ch.hitl_requested
    /\ pc \in {"preprocess", "router"} /\ ~said.long => ch.messages = said.class
    /\ (Routed \/ TurnDone) /\ SeenByRouter => ch.hitl_requested
    /\ TurnDone /\ ch.hitl_requested => turn \in handed

AgentInv == TypeOK /\ HandoverShape

\* A hallucinated answer never stands alone: the turn whose guardrails fail
\* delivers the correction, and delivers it after the answer's tokens.
HallucinationIsCorrected ==
    TurnDone /\ ch.correction_message = turn =>
        /\ Delivered("correction")
        /\ \A i, j \in DOMAIN out :
              out[i] = Item("tokens", turn) /\ out[j] = Item("correction", turn) => i < j

\* An answer is streamed or sent in one piece, never both.
AnswerOnce ==
    ~(Delivered("tokens") /\ (Delivered("answer") \/ Delivered("apology")))

\* A turn whose LLM call reports its usage is billed for it, although the
\* updates before llm_generate, and those after it, show whatever tokens_used
\* the channels hold.
ReportedIsBilled == TurnDone /\ ch.tokens_used = turn => used = turn

\* Between any two steps, turns included: hitl_requested stays once it is set.
HitlRequestedStays == [][ch.hitl_requested => ch'.hitl_requested]_vars

\* docs/architecture.md:178: when the admin has ended the intervention the conversation is
\* the agent's again, so a turn goes to a human only if it asks for one.
AgentReturns == [][Router /\ ended /\ pc' = "hitl" => asked']_vars

\* Every turn ends: the graph has no cycle, and every failure ends it too.
TurnEnds == pc # "idle" ~> pc = "idle"

\* chat.py:7: what a turn delivers is the response of that turn.
OwnReply == \A i \in DOMAIN out : out[i].of = turn
=============================================================================

-------------------------- MODULE AgentGraphProofs --------------------------
(***************************************************************************)
(* AgentGraph: a turn that asks for a human reaches hitl_node unless the   *)
(* router does not get to see the request, hitl_requested is never         *)
(* withdrawn, reported usage is billed, a hallucination is corrected after *)
(* its tokens, and no answer is sent twice, for any number of turns, any   *)
(* inputs and any faults.  And Orchestrator: what its agents and workflows *)
(* hold of each other.                                                     *)
(***************************************************************************)
EXTENDS AgentGraph, Orchestrator, RanksProofs, FiniteSetTheorems, SequenceTheorems, TLAPS

\* The empty checkpoint satisfies the inductive invariant.
LEMMA AgentInit == Init => AgentInv
<1> SUFFICES ASSUME Init PROVE AgentInv
  OBVIOUS
<1>1. NoReply \in Replies
  BY DEF NoReply, Replies
<1>2. ch \in Channels
  BY <1>1 DEF Init, Channels, MessageClass
<1>3. out \in Seq(Items)
  BY DEF Init
<1>4. TypeOK
  <2>1. /\ turn = 0 /\ pc = "idle" /\ used = 0
        /\ asked = FALSE /\ ok = TRUE /\ sent = FALSE /\ handed = {} /\ ended = FALSE
        /\ said = [class |-> "empty", long |-> FALSE]
    BY Zenon DEF Init
  <2>2. turn \in 0..MaxTurns /\ handed \subseteq 1..MaxTurns
    BY <2>1, AgentAssumption
  <2>3. said \in AllInputs
    BY <2>1 DEF AllInputs
  <2>4. QED
    BY <1>2, <1>3, <2>1, <2>2, <2>3 DEF TypeOK
<1>5. HandoverShape
  BY DEF Init, HandoverShape, Routed, TurnDone, SeenByRouter
<1>6. QED
  BY <1>4, <1>5 DEF AgentInv

\* Turns are counted by natural numbers.
LEMMA TurnIsNat == TypeOK => turn \in Nat
  BY AgentAssumption DEF TypeOK

\* What a node writes into llm_response is a reply.
LEMMA ReplyTypes ==
    ASSUME TypeOK, NEW kind \in {"none", "blank", "tool", "answer", "apology", "notice"}
    PROVE  Reply(kind) \in Replies
  BY TurnIsNat DEF Reply, Replies

\* What a node's update leaves in the consumer has the right types.
LEMMA UpdateTypes ==
    ASSUME TypeOK, NEW node, NEW new \in Channels, NEW stream \in Seq(Items),
           Update(node, new, stream)
    PROVE  ch' = new /\ sent' \in BOOLEAN /\ used' \in Nat /\ out' \in Seq(Items)
<1>1. new.tokens_used \in Nat /\ new.correction_message \in Nat
      /\ new.llm_response \in Replies
  BY DEF Channels
<1>2. Corrected(new) \in Seq(Items)
  <2>1. Item("correction", new.correction_message) \in Items
    BY <1>1 DEF Item, Items
  <2>2. QED
    BY <2>1 DEF Corrected
<1>3. ASSUME NEW whole \in Pushed(node, new, stream) PROVE whole \in Seq(Items)
  <2> DEFINE r == new.llm_response
  <2>1. ASSUME IsReply(r) PROVE Item(r.kind, r.of) \in Items
    BY <1>1, <2>1 DEF IsReply, Item, Items, Replies
  <2>2. whole = <<>> \/ (IsReply(r) /\ whole = <<Item(r.kind, r.of)>>)
    BY <1>3 DEF Pushed
  <2>3. CASE whole = <<>>
    BY <2>3
  <2>4. CASE IsReply(r) /\ whole = <<Item(r.kind, r.of)>>
    BY <2>1, <2>4
  <2>5. QED
    BY <2>2, <2>3, <2>4
<1>4. out' \in Seq(Items)
  <2>1. PICK whole \in Pushed(node, new, stream) :
           out' = stream \o whole \o Corrected(new)
    BY DEF Update
  <2>2. QED
    BY <1>2, <1>3, <2>1
<1>5. sent' \in BOOLEAN
  BY DEF Update, TypeOK, IsReply
<1>6. QED
  BY <1>1, <1>4, <1>5 DEF Update, TypeOK

\* The parts a node writes by itself.
LEMMA StreamedTypes ==
    ASSUME TypeOK
    PROVE  /\ out \in Seq(Items)
           /\ Streamed \in Seq(Items)
           /\ Append(out, Item("sorry", turn)) \in Seq(Items)
  BY DEF TypeOK, Streamed, Item, Items

\* The steps before the answer: a new turn, preprocess, router, tool, search.
LEMMA EarlySteps ==
    ASSUME AgentInv,
           \/ \E m \in Inputs : Request(m)
           \/ Preprocess \/ Router \/ ToolExecutor \/ RagEngine
    PROVE  AgentInv'
<1> USE AgentAssumption DEF AgentInv, HandoverShape, Routed, TurnDone, SeenByRouter, desk
<1>1. ASSUME NEW m \in Inputs, Request(m) PROVE AgentInv'
  <2>1. m.class \in MessageClass \cup {"empty"} /\ m \in AllInputs
    BY DEF AllInputs
  <2>2. ch' \in Channels
    BY <1>1, <2>1 DEF Request, TypeOK, Channels
  <2>3. ch'.hitl_requested = ch.hitl_requested /\ ch'.messages = m.class
    BY <1>1 DEF Request, TypeOK, Channels
  <2>4. /\ turn < MaxTurns /\ turn' = turn + 1 /\ pc' = "preprocess"
        /\ asked' = FALSE /\ ok' = TRUE /\ sent' = FALSE
        /\ used' = 0 /\ out' = <<>> /\ handed' = handed /\ ended' = ended /\ said' = m
    BY <1>1, Zenon DEF Request
  <2>5. out' \in Seq(Items)
    BY <2>4
  <2>6. TypeOK'
    <3>1. turn' \in 0..MaxTurns
      BY <2>4, TurnIsNat
    <3>2. pc' \in Nodes
      BY <2>4 DEF Nodes
    <3>3. QED
      BY <2>1, <2>2, <2>4, <2>5, <3>1, <3>2 DEF TypeOK
  <2>7. HandoverShape'
    BY <2>3, <2>4, TurnIsNat
  <2>8. QED
    BY <2>6, <2>7
<1>2. CASE Preprocess
  <2>1. PICK summary \in {"text", "blank"} :
           Update("preprocess",
                  IF said.long THEN [ch EXCEPT !.messages = "empty", !.summary = summary]
                  ELSE ch, out)
    BY <1>2 DEF Preprocess
  <2> DEFINE new == IF said.long
                    THEN [ch EXCEPT !.messages = "empty", !.summary = summary] ELSE ch
  <2>2. new \in Channels /\ new.hitl_requested = ch.hitl_requested
        /\ (~said.long => new.messages = ch.messages)
    BY DEF TypeOK, Channels
  <2>3. ch' = new /\ sent' \in BOOLEAN /\ used' \in Nat /\ out' \in Seq(Items)
    BY <2>1, <2>2, UpdateTypes, StreamedTypes
  <2>4. QED
    BY <1>2, <2>2, <2>3 DEF Preprocess, TypeOK, Nodes
<1>3. CASE Router
  <2>1. PICK i \in Intents(ch) :
           /\ Update("router", AfterRouting(i), out)
           /\ asked' = (i = "hitl")
           /\ pc' = RouteDecision(AfterRouting(i))
    BY <1>3 DEF Router
  <2>2. i \in {"tool", "rag", "hitl", "chitchat"}
        /\ (ch.messages \in {"human", "negative"} => i = "hitl")
    BY <2>1 DEF Intents, TypeOK, Channels
  <2>3. /\ AfterRouting(i) \in Channels
        /\ AfterRouting(i).intent = i
        /\ AfterRouting(i).messages = ch.messages
        /\ AfterRouting(i).hitl_requested = (ch.hitl_requested \/ i = "hitl")
    BY <2>2 DEF AfterRouting, TypeOK, Channels
  <2>4. /\ ch' = AfterRouting(i)
        /\ sent' \in BOOLEAN /\ used' \in Nat /\ out' \in Seq(Items)
    BY <2>1, <2>3, UpdateTypes, StreamedTypes
  <2>5. pc' \in {"tool_executor", "hitl", "rag_engine"}
        /\ (pc' = "hitl" => ch'.hitl_requested)
    BY <2>1, <2>3, <2>4 DEF RouteDecision
  <2>6. QED
    BY <1>3, <2>1, <2>2, <2>3, <2>4, <2>5 DEF Router, TypeOK, Nodes
<1>4. CASE ToolExecutor
  <2> DEFINE new == [ch EXCEPT !.tool_calls = turn, !.llm_response = Reply("tool")]
  <2>1. new \in Channels /\ new.hitl_requested = ch.hitl_requested
        /\ new.messages = ch.messages
    BY ReplyTypes, TurnIsNat DEF TypeOK, Channels
  <2>2. ch' = new /\ sent' \in BOOLEAN /\ used' \in Nat /\ out' \in Seq(Items)
    BY <1>4, <2>1, UpdateTypes, StreamedTypes DEF ToolExecutor
  <2>3. QED
    BY <1>4, <2>1, <2>2 DEF ToolExecutor, TypeOK, Nodes
<1>5. CASE RagEngine
  <2> DEFINE none == [ch EXCEPT !.rag_context = 0, !.intent = "no_answer"]
             some == [ch EXCEPT !.rag_context = turn]
  <2>1. PICK new \in {none, some} : Update("rag_engine", new, out)
    BY <1>5 DEF RagEngine
  <2>2. new \in Channels /\ new.hitl_requested = ch.hitl_requested
        /\ new.messages = ch.messages
    <3>1. none \in Channels /\ none.hitl_requested = ch.hitl_requested
          /\ none.messages = ch.messages
      BY DEF TypeOK, Channels
    <3>2. some \in Channels /\ some.hitl_requested = ch.hitl_requested
          /\ some.messages = ch.messages
      BY TurnIsNat DEF TypeOK, Channels
    <3> HIDE DEF none, some
    <3>3. QED
      BY <2>1, <3>1, <3>2
  <2>3. ch' = new /\ sent' \in BOOLEAN /\ used' \in Nat /\ out' \in Seq(Items)
    BY <2>1, <2>2, UpdateTypes, StreamedTypes
  <2>4. QED
    BY <1>5, <2>2, <2>3 DEF RagEngine, TypeOK, Nodes
<1>6. QED
  BY <1>1, <1>2, <1>3, <1>4, <1>5

\* The answer and its check.
LEMMA AnswerSteps ==
    ASSUME AgentInv, LlmAnswers \/ LlmFails \/ GuardrailsPass \/ GuardrailsFail
    PROVE  AgentInv'
<1> USE DEF AgentInv, HandoverShape, Routed, TurnDone, SeenByRouter, desk
<1>1. CASE LlmAnswers
  <2>1. PICK usage \in {0, turn}, text \in BOOLEAN :
           Update("llm_generate",
                  [ch EXCEPT !.llm_response = IF text THEN Reply("answer") ELSE Reply("blank"),
                             !.tokens_used = usage, !.guardrails_passed = TRUE],
                  IF text THEN Streamed ELSE out)
    BY <1>1 DEF LlmAnswers
  <2> DEFINE reply == IF text THEN Reply("answer") ELSE Reply("blank")
             new   == [ch EXCEPT !.llm_response = reply, !.tokens_used = usage,
                                 !.guardrails_passed = TRUE]
  <2>2. new \in Channels /\ new.hitl_requested = ch.hitl_requested
        /\ new.messages = ch.messages
    <3>1. reply \in Replies /\ usage \in Nat
      BY ReplyTypes, TurnIsNat
    <3> HIDE DEF reply
    <3>2. QED
      BY <3>1 DEF TypeOK, Channels
  <2>3. ch' = new /\ sent' \in BOOLEAN /\ used' \in Nat /\ out' \in Seq(Items)
    BY <2>1, <2>2, UpdateTypes, StreamedTypes
  <2>4. QED
    BY <1>1, <2>2, <2>3 DEF LlmAnswers, TypeOK, Nodes
<1>2. CASE LlmFails
  <2> DEFINE new == [ch EXCEPT !.llm_response = Reply("apology"), !.guardrails_passed = TRUE]
  <2>1. PICK stream \in {out, Streamed} : Update("llm_generate", new, stream)
    BY <1>2 DEF LlmFails
  <2>2. new \in Channels /\ new.hitl_requested = ch.hitl_requested
        /\ new.messages = ch.messages
    BY ReplyTypes, TurnIsNat DEF TypeOK, Channels
  <2>3. ch' = new /\ sent' \in BOOLEAN /\ used' \in Nat /\ out' \in Seq(Items)
    BY <2>1, <2>2, UpdateTypes, StreamedTypes
  <2>4. QED
    BY <1>2, <2>2, <2>3 DEF LlmFails, TypeOK, Nodes
<1>3. CASE GuardrailsPass
  <2> DEFINE new == [ch EXCEPT !.guardrails_passed = TRUE]
  <2>1. new \in Channels /\ new.hitl_requested = ch.hitl_requested
        /\ new.messages = ch.messages
    BY DEF TypeOK, Channels
  <2>2. ch' = new /\ sent' \in BOOLEAN /\ used' \in Nat /\ out' \in Seq(Items)
    BY <1>3, <2>1, UpdateTypes, StreamedTypes DEF GuardrailsPass
  <2>3. ch.rag_context \in Nat
    BY DEF TypeOK, Channels
  <2>4. QED
    BY <1>3, <2>1, <2>2, <2>3 DEF GuardrailsPass, GuardrailsDecision, TypeOK, Nodes
<1>4. CASE GuardrailsFail
  <2> DEFINE new == [ch EXCEPT !.guardrails_passed = FALSE, !.correction_message = turn,
                               !.hitl_requested = TRUE]
  <2>1. new \in Channels /\ new.hitl_requested
    BY TurnIsNat DEF TypeOK, Channels
  <2>2. ch' = new /\ sent' \in BOOLEAN /\ used' \in Nat /\ out' \in Seq(Items)
    BY <1>4, <2>1, UpdateTypes, StreamedTypes DEF GuardrailsFail
  <2>3. ch.rag_context \in Nat
    BY DEF TypeOK, Channels
  <2>4. QED
    BY <1>4, <2>1, <2>2, <2>3 DEF GuardrailsFail, GuardrailsDecision, TypeOK, Nodes
<1>5. QED
  BY <1>1, <1>2, <1>3, <1>4

\* The end of a turn, and what happens between two turns.
LEMMA LateSteps ==
    ASSUME AgentInv, Postprocess \/ Hitl \/ GraphRaises \/ EndTurn \/ AdminEnds
    PROVE  AgentInv'
<1> USE DEF AgentInv, HandoverShape, Routed, TurnDone, SeenByRouter, consumer, desk
<1>1. CASE Postprocess
  <2> DEFINE new == [ch EXCEPT !.unresolved_turns = IF ch.guardrails_passed THEN @ ELSE @ + 1]
  <2>1. new \in Channels /\ new.hitl_requested = ch.hitl_requested
        /\ new.messages = ch.messages
    BY DEF TypeOK, Channels
  <2>2. ch' = new /\ sent' \in BOOLEAN /\ used' \in Nat /\ out' \in Seq(Items)
    BY <1>1, <2>1, UpdateTypes, StreamedTypes DEF Postprocess
  <2>3. QED
    BY <1>1, <2>1, <2>2 DEF Postprocess, TypeOK, Nodes
<1>2. CASE Hitl
  <2> DEFINE new == [ch EXCEPT !.llm_response = Reply("notice")]
  <2>1. new \in Channels /\ new.hitl_requested = ch.hitl_requested
        /\ new.messages = ch.messages
    BY ReplyTypes, TurnIsNat DEF TypeOK, Channels
  <2>2. ch' = new /\ sent' \in BOOLEAN /\ used' \in Nat /\ out' \in Seq(Items)
    BY <1>2, <2>1, UpdateTypes, StreamedTypes DEF Hitl
  <2>3. turn \in 1..MaxTurns /\ ch.hitl_requested
    BY <1>2, AgentAssumption DEF Hitl, TypeOK
  <2>4. QED
    BY <1>2, <2>1, <2>2, <2>3 DEF Hitl, TypeOK, Nodes
<1>3. CASE GraphRaises
  BY <1>3, StreamedTypes DEF GraphRaises, TypeOK, Nodes
<1>4. CASE EndTurn
  BY <1>4 DEF EndTurn, TypeOK
<1>5. CASE AdminEnds
  BY <1>5 DEF AdminEnds, TypeOK
<1>6. QED
  BY <1>1, <1>2, <1>3, <1>4, <1>5

\* AgentInv is an invariant of AgentGraph.
THEOREM AgentInvariant == Spec => []AgentInv
<1>1. AgentInv /\ [Next]_vars => AgentInv'
  <2> SUFFICES ASSUME AgentInv, [Next]_vars PROVE AgentInv'
    OBVIOUS
  <2>1. CASE UNCHANGED vars
    BY <2>1 DEF vars, consumer, desk, AgentInv, TypeOK, HandoverShape, Routed,
                TurnDone, SeenByRouter
  <2>2. QED
    BY <2>1, EarlySteps, AnswerSteps, LateSteps DEF Next, Step
<1>2. QED
  BY AgentInit, <1>1, PTL DEF Spec

\* router_node and guardrails_node set hitl_requested, and both decisions look at it: a
\* turn that asks for a human calls one, unless preprocess_node has emptied its messages.
THEOREM HumanAlwaysCalled == Spec => []HumanIsCalled
<1>1. AgentInv => HumanIsCalled
  BY DEF AgentInv, HandoverShape, HumanIsCalled, TurnDone, SeenByRouter
<1>2. QED
  BY <1>1, AgentInvariant, PTL

\* No node withdraws hitl_requested, and no turn overwrites it.
THEOREM HitlRequestedNeverReset == Spec => HitlRequestedStays
<1>1. ASSUME AgentInv, [Next]_vars
      PROVE  ch.hitl_requested => ch'.hitl_requested
  <2> SUFFICES ASSUME ch.hitl_requested PROVE ch'.hitl_requested
    OBVIOUS
  <2> USE DEF Channels
  <2>0. ch \in Channels
    BY <1>1 DEF AgentInv, TypeOK
  <2>1. ASSUME NEW m \in Inputs, Request(m) PROVE ch'.hitl_requested
    BY <2>0, <2>1 DEF Request
  <2>2. CASE UNCHANGED ch
    BY <2>2
  <2>3. CASE Preprocess
    BY <2>0, <2>3 DEF Preprocess, Update
  <2>4. CASE Router
    BY <2>0, <2>4 DEF Router, Update, AfterRouting
  <2>5. CASE ToolExecutor \/ RagEngine
    BY <2>0, <2>5 DEF ToolExecutor, RagEngine, Update
  <2>6. CASE LlmAnswers \/ LlmFails
    BY <2>0, <2>6 DEF LlmAnswers, LlmFails, Update
  <2>7. CASE GuardrailsPass \/ GuardrailsFail
    BY <2>0, <2>7 DEF GuardrailsPass, GuardrailsFail, Update
  <2>8. CASE Postprocess \/ Hitl
    BY <2>0, <2>8 DEF Postprocess, Hitl, Update
  <2>9. CASE GraphRaises \/ EndTurn \/ AdminEnds \/ UNCHANGED vars
    BY <2>2, <2>9, Zenon DEF GraphRaises, EndTurn, AdminEnds, vars
  <2>10. QED
    BY <1>1, <2>1, <2>3, <2>4, <2>5, <2>6, <2>7, <2>8, <2>9 DEF Next, Step
<1>2. AgentInv /\ [Next]_vars => [ch.hitl_requested => ch'.hitl_requested]_vars
  BY <1>1
<1>3. QED
  BY AgentInvariant, <1>2, PTL DEF Spec, HitlRequestedStays

\* The usage in the channels stems from this turn or an earlier one, and one of
\* this turn is also what the consumer holds.
UsageSeen ==
    /\ ch.tokens_used <= turn
    /\ turn > 0 /\ ch.tokens_used = turn => used = turn

\* An update leaves the usage as it was, or reports that of this turn, or none.
LEMMA UpdateUsage ==
    ASSUME AgentInv, UsageSeen, turn' = turn,
           NEW node, NEW new, NEW stream, Update(node, new, stream),
           new.tokens_used \in {ch.tokens_used, 0, turn}
    PROVE  UsageSeen'
<1>1. turn \in Nat /\ ch.tokens_used \in Nat
  BY TurnIsNat DEF AgentInv, TypeOK, Channels
<1>2. ch' = new /\ used' = IF new.tokens_used > 0 THEN new.tokens_used ELSE used
  BY DEF Update
<1>3. QED
  BY <1>1, <1>2 DEF UsageSeen

\* tokens_used of _consume_stream: a turn whose LLM call reports its usage is
\* billed for it, whatever earlier turns left in the checkpoint.
THEOREM ReportedUsageBilled == Spec => []ReportedIsBilled
<1>1. Init => UsageSeen
  BY DEF Init, UsageSeen
<1>2. AgentInv /\ UsageSeen /\ [Next]_vars => UsageSeen'
  <2> SUFFICES ASSUME AgentInv, UsageSeen, [Next]_vars PROVE UsageSeen'
    OBVIOUS
  <2>0. ch \in Channels /\ turn \in Nat /\ ch.tokens_used \in Nat
    BY TurnIsNat DEF AgentInv, TypeOK, Channels
  <2> USE DEF Channels
  <2>1. ASSUME NEW m \in Inputs, Request(m) PROVE UsageSeen'
    <3>1. ch'.tokens_used = ch.tokens_used /\ turn' = turn + 1
      BY <2>0, <2>1 DEF Request
    <3>2. QED
      BY <2>0, <3>1 DEF UsageSeen
  <2>2. CASE Preprocess
    BY <2>0, <2>2, UpdateUsage DEF Preprocess
  <2>3. CASE Router
    BY <2>0, <2>3, UpdateUsage DEF Router, AfterRouting
  <2>4. CASE ToolExecutor
    BY <2>0, <2>4, UpdateUsage DEF ToolExecutor
  <2>5. CASE RagEngine
    BY <2>0, <2>5, UpdateUsage DEF RagEngine
  <2>6. CASE LlmAnswers
    BY <2>0, <2>6, UpdateUsage DEF LlmAnswers
  <2>7. CASE LlmFails
    BY <2>0, <2>7, UpdateUsage DEF LlmFails
  <2>8. CASE GuardrailsPass
    BY <2>0, <2>8, UpdateUsage DEF GuardrailsPass
  <2>9. CASE GuardrailsFail
    BY <2>0, <2>9, UpdateUsage DEF GuardrailsFail
  <2>10. CASE Postprocess
    BY <2>0, <2>10, UpdateUsage DEF Postprocess
  <2>11. CASE Hitl
    BY <2>0, <2>11, UpdateUsage DEF Hitl
  <2>12. CASE GraphRaises \/ EndTurn \/ AdminEnds \/ UNCHANGED vars
    <3>1. turn' = turn /\ ch' = ch /\ used' = used
      BY <2>12, Zenon DEF GraphRaises, EndTurn, AdminEnds, vars, consumer
    <3>2. QED
      BY <3>1 DEF UsageSeen
  <2>13. QED
    BY <2>1, <2>2, <2>3, <2>4, <2>5, <2>6, <2>7, <2>8, <2>9, <2>10, <2>11, <2>12
       DEF Next, Step
<1>3. AgentInv /\ UsageSeen => ReportedIsBilled
  BY DEF AgentInv, HandoverShape, UsageSeen, ReportedIsBilled, TurnDone
<1>4. QED
  BY AgentInvariant, <1>1, <1>2, <1>3, PTL DEF Spec

-----------------------------------------------------------------------------
\* Texts a turn sends in one piece.
Wholes == {"answer", "apology"}

\* This turn sent a text of that kind.
Has(s, kind) == \E i \in DOMAIN s : s[i] = Item(kind, turn)

\* A correction comes after the tokens it corrects.
TokensFirst(s) ==
    \A i, j \in DOMAIN s :
        s[i] = Item("tokens", turn) /\ s[j] = Item("correction", turn) => i < j

\* Nodes that run before the guardrails of a turn.
Unchecked == {"preprocess", "router", "tool_executor", "rag_engine", "llm_generate"}

\* What the turn has streamed: the model's answer never in one piece, because
\* it counts as sent when its channel is written; its tokens before a
\* correction, and the correction as soon as its channel is this turn's.
StreamShape ==
    /\ ch.llm_response.of <= turn
    /\ ch.correction_message <= turn
    /\ ch.llm_response.of = turn /\ ch.llm_response.kind \in Wholes => sent
    /\ \A kind \in Wholes : ~Has(out, kind)
    /\ TokensFirst(out)
    /\ turn > 0 /\ ch.correction_message = turn => Has(out, "correction")
    /\ pc \in Unchecked => ch.correction_message # turn /\ ~Has(out, "correction")

\* Parts without tokens may follow any stream.
LEMMA Following ==
    ASSUME NEW s \in Seq(Items), NEW t \in Seq(Items), TokensFirst(s), ~Has(t, "tokens")
    PROVE  /\ TokensFirst(s \o t)
           /\ \A kind : Has(s \o t, kind) <=> Has(s, kind) \/ Has(t, kind)
<1> DEFINE u == s \o t
<1>1. /\ u \in Seq(Items) /\ Len(u) = Len(s) + Len(t)
      /\ \A i \in 1..Len(s) : u[i] = s[i]
      /\ \A i \in 1..Len(t) : u[Len(s) + i] = t[i]
  OBVIOUS
<1>2. \A i \in 1..Len(u) :
         \/ i \in 1..Len(s) /\ u[i] = s[i]
         \/ i > Len(s) /\ (i - Len(s)) \in 1..Len(t) /\ u[i] = t[i - Len(s)]
  BY <1>1
<1>3. DOMAIN s = 1..Len(s) /\ DOMAIN t = 1..Len(t) /\ DOMAIN u = 1..Len(u)
  BY <1>1
<1> HIDE DEF u
<1>4. TokensFirst(u)
  <2> SUFFICES ASSUME NEW i \in DOMAIN u, NEW j \in DOMAIN u,
                      u[i] = Item("tokens", turn), u[j] = Item("correction", turn)
               PROVE  i < j
    BY DEF TokensFirst
  <2>1. i \in 1..Len(s) /\ u[i] = s[i]
    BY <1>2, <1>3 DEF Has
  <2>2. CASE j \in 1..Len(s) /\ u[j] = s[j]
    BY <1>3, <2>1, <2>2 DEF TokensFirst
  <2>3. CASE j > Len(s)
    BY <1>3, <2>1, <2>3
  <2>4. QED
    BY <1>2, <1>3, <2>2, <2>3
<1>5. ASSUME NEW kind PROVE Has(u, kind) <=> Has(s, kind) \/ Has(t, kind)
  <2>1. Has(u, kind) => Has(s, kind) \/ Has(t, kind)
    BY <1>2, <1>3 DEF Has
  <2>2. ASSUME NEW i \in DOMAIN s, s[i] = Item(kind, turn) PROVE Has(u, kind)
    BY <1>1, <1>3, <2>2 DEF Has
  <2>3. ASSUME NEW i \in DOMAIN t, t[i] = Item(kind, turn) PROVE Has(u, kind)
    <3>1. Len(s) + i \in DOMAIN u /\ u[Len(s) + i] = Item(kind, turn)
      BY <1>1, <1>3, <2>3
    <3>2. QED
      BY <3>1 DEF Has
  <2>4. QED
    BY <2>1, <2>2, <2>3 DEF Has
<1>6. QED
  BY <1>4, <1>5 DEF u

\* The model's tokens follow a stream without a correction.
LEMMA Tokens ==
    ASSUME TypeOK, StreamShape
    PROVE  /\ pc = "llm_generate" => TokensFirst(Streamed)
           /\ \A kind : kind # "tokens" => (Has(Streamed, kind) <=> Has(out, kind))
<1>1. out \in Seq(Items) /\ Streamed = Append(out, Item("tokens", turn))
  BY DEF TypeOK, Streamed
<1>2. /\ DOMAIN out = 1..Len(out) /\ DOMAIN Streamed = 1..(Len(out) + 1)
      /\ \A i \in 1..Len(out) : Streamed[i] = out[i]
      /\ Streamed[Len(out) + 1] = Item("tokens", turn)
      /\ Len(out) \in Nat
  BY <1>1
<1>3. ASSUME NEW kind, kind # "tokens" PROVE Has(Streamed, kind) <=> Has(out, kind)
  <2>1. Item("tokens", turn) # Item(kind, turn)
    BY <1>3 DEF Item
  <2>2. QED
    BY <1>2, <2>1 DEF Has
<1>4. ASSUME pc = "llm_generate" PROVE TokensFirst(Streamed)
  <2>1. ~Has(Streamed, "correction")
    BY <1>3, <1>4 DEF StreamShape, Unchecked
  <2>2. QED
    BY <2>1 DEF TokensFirst, Has
<1>5. QED
  BY <1>3, <1>4

\* What the update of a node adds: no tokens, no answer of this turn in one
\* piece, and a correction exactly if its channel is this turn's.
LEMMA UpdateStream ==
    ASSUME TypeOK, StreamShape, turn > 0, turn' = turn,
           NEW node, NEW new \in Channels, NEW stream \in {out, Streamed},
           Update(node, new, stream),
           stream = out \/ pc = "llm_generate",
           new.llm_response.of <= turn, new.correction_message <= turn,
           new.llm_response.of = turn /\ new.llm_response.kind \in Wholes =>
               sent \/ node = "llm_generate",
           pc' \in Unchecked =>
               pc \in Unchecked /\ new.correction_message = ch.correction_message
    PROVE  StreamShape'
<1> DEFINE r == new.llm_response
<1>1. turn \in Nat /\ r \in Replies /\ new.correction_message \in Nat
  BY TurnIsNat DEF Channels
<1>2. PICK whole \in Pushed(node, new, stream) :
         out' = stream \o whole \o Corrected(new)
  BY DEF Update
<1>3. ch' = new /\ sent' = (sent \/ IsReply(r))
  BY DEF Update
<1>4. /\ stream \in Seq(Items) /\ TokensFirst(stream)
      /\ \A kind : kind # "tokens" => (Has(stream, kind) <=> Has(out, kind))
  BY StreamedTypes, Tokens DEF StreamShape
<1>5. /\ whole \in Seq(Items)
      /\ \A kind \in Wholes \cup {"tokens", "correction"} : ~Has(whole, kind)
  <2>1. CASE whole = <<>>
    BY <2>1 DEF Has
  <2>2. ASSUME whole = <<Item(r.kind, r.of)>>, IsReply(r), ~sent, node # "llm_generate"
        PROVE  /\ whole \in Seq(Items)
               /\ \A kind \in Wholes \cup {"tokens", "correction"} : ~Has(whole, kind)
    <3>1. Item(r.kind, r.of) \in Items
      BY <1>1, <2>2 DEF IsReply, Item, Items, Replies
    <3>2. \A kind \in Wholes \cup {"tokens", "correction"} :
             Item(r.kind, r.of) # Item(kind, turn)
      BY <1>1, <2>2 DEF Item, Replies, Wholes
    <3>3. DOMAIN whole = {1} /\ whole[1] = Item(r.kind, r.of)
      BY <2>2
    <3>4. QED
      BY <2>2, <3>1, <3>2, <3>3 DEF Has
  <2>3. QED
    BY <2>1, <2>2 DEF Pushed
<1> DEFINE fixed == Corrected(new)
<1>6. /\ fixed \in Seq(Items)
      /\ \A kind \in Wholes \cup {"tokens"} : ~Has(fixed, kind)
      /\ turn = new.correction_message <=> Has(fixed, "correction")
  <2>1. CASE new.correction_message > 0
    <3>1. fixed = <<Item("correction", new.correction_message)>>
      BY <2>1 DEF Corrected
    <3>2. Item("correction", new.correction_message) \in Items
      BY <1>1 DEF Item, Items
    <3>3. DOMAIN fixed = {1} /\ fixed[1] = Item("correction", new.correction_message)
      BY <3>1
    <3>4. /\ \A kind \in Wholes \cup {"tokens"} :
                Item("correction", new.correction_message) # Item(kind, turn)
          /\ turn = new.correction_message <=>
                Item("correction", new.correction_message) = Item("correction", turn)
      BY DEF Item, Wholes
    <3>5. QED
      BY <3>1, <3>2, <3>3, <3>4 DEF Has
  <2>2. CASE new.correction_message = 0
    <3>1. fixed = <<>>
      BY <2>2 DEF Corrected
    <3>2. QED
      BY <2>2, <3>1 DEF Has
  <2>3. QED
    BY <1>1, <2>1, <2>2
<1> HIDE DEF fixed, r
<1>7. /\ TokensFirst(stream \o whole)
      /\ \A kind : Has(stream \o whole, kind) <=> Has(stream, kind) \/ Has(whole, kind)
  BY <1>4, <1>5, Following
<1>8. /\ TokensFirst(out')
      /\ \A kind : Has(out', kind) <=> Has(stream \o whole, kind) \/ Has(fixed, kind)
  <2>1. stream \o whole \in Seq(Items)
    BY <1>4, <1>5
  <2> HIDE DEF Corrected
  <2>2. QED
    BY <1>2, <1>6, <1>7, <2>1, Following DEF fixed
<1>9. \A kind \in Wholes : ~Has(out', kind)
  BY <1>4, <1>5, <1>6, <1>7, <1>8 DEF StreamShape, Wholes
<1>10. Has(out', "correction") <=> Has(out, "correction") \/ turn = new.correction_message
  BY <1>4, <1>5, <1>6, <1>7, <1>8
<1>11. /\ r.of = turn /\ r.kind \in Wholes => sent'
  <2>1. r.kind \in Wholes => IsReply(r)
    BY DEF Wholes, IsReply
  <2>2. QED
    BY <1>3, <2>1
<1>12. (\A kind : Has(out, kind)' <=> Has(out', kind)) /\ (TokensFirst(out)' <=> TokensFirst(out'))
  BY DEF Has, TokensFirst, Item
<1>13. QED
  BY <1>3, <1>8, <1>9, <1>10, <1>11, <1>12 DEF StreamShape, r, Wholes

\* Nothing of a new turn has been streamed, and what the channels hold is older.
LEMMA NewStream ==
    ASSUME TypeOK, StreamShape, NEW m \in Inputs, Request(m)
    PROVE  StreamShape'
<1>1. /\ ch'.llm_response = ch.llm_response
      /\ ch'.correction_message = ch.correction_message
      /\ turn' = turn + 1 /\ out' = <<>>
  BY DEF Request, TypeOK, Channels
<1>2. turn \in Nat /\ ch.llm_response.of \in Nat /\ ch.correction_message \in Nat
  BY TurnIsNat DEF TypeOK, Channels, Replies
<1>3. ch'.llm_response.of < turn' /\ ch'.correction_message < turn'
  BY <1>1, <1>2 DEF StreamShape
<1>4. /\ \A kind : ~Has(out, kind)'
      /\ TokensFirst(out)'
  BY <1>1 DEF Has, TokensFirst
<1>5. turn' \in Nat /\ ch'.llm_response.of \in Nat /\ ch'.correction_message \in Nat
  BY <1>1, <1>2
<1>6. QED
  BY <1>3, <1>4, <1>5 DEF StreamShape, Wholes

\* A graph that raises adds an apology of its own, which is neither an answer
\* nor a correction.
LEMMA BrokenStream ==
    ASSUME TypeOK, StreamShape, GraphRaises
    PROVE  StreamShape'
<1>1. turn' = turn /\ ch' = ch /\ sent' = sent /\ pc' = "end"
  BY Zenon DEF GraphRaises
<1>2. CASE out' = out
  BY <1>1, <1>2 DEF StreamShape, Has, TokensFirst, Unchecked
<1>3. CASE out' = Append(out, Item("sorry", turn))
  <2> DEFINE t == <<Item("sorry", turn)>>
  <2>1. out \in Seq(Items) /\ t \in Seq(Items)
    BY TurnIsNat DEF TypeOK, Item, Items
  <2>2. out' = out \o t
    BY <1>3, <2>1
  <2>3. DOMAIN t = {1} /\ t[1] = Item("sorry", turn)
    OBVIOUS
  <2>4. \A kind : kind # "sorry" => ~Has(t, kind)
    BY <2>3 DEF Has, Item
  <2> HIDE DEF t
  <2>5. /\ TokensFirst(out')
        /\ \A kind : Has(out', kind) <=> Has(out, kind) \/ Has(t, kind)
    BY <2>1, <2>2, <2>4, Following DEF StreamShape
  <2>6. (\A kind : Has(out, kind)' <=> Has(out', kind)) /\ (TokensFirst(out)' <=> TokensFirst(out'))
    BY <1>1 DEF Has, TokensFirst, Item
  <2>7. QED
    BY <1>1, <2>4, <2>5, <2>6 DEF StreamShape, Wholes, Unchecked
<1>4. QED
  BY <1>2, <1>3 DEF GraphRaises

\* Every node keeps StreamShape.
LEMMA StreamKept ==
    ASSUME AgentInv, StreamShape, [Next]_vars
    PROVE  StreamShape'
<1>0. /\ TypeOK /\ ch \in Channels /\ turn \in Nat
      /\ ch.llm_response \in Replies /\ ch.correction_message \in Nat
  BY TurnIsNat DEF AgentInv, TypeOK, Channels
<1>1. ASSUME NEW m \in Inputs, Request(m) PROVE StreamShape'
  BY <1>0, <1>1, NewStream
<1>2. ASSUME pc # "idle" PROVE turn > 0
  BY <1>2 DEF AgentInv, HandoverShape
<1>3. CASE Preprocess
  <2>1. PICK summary \in {"text", "blank"} :
           Update("preprocess",
                  IF said.long THEN [ch EXCEPT !.messages = "empty", !.summary = summary]
                  ELSE ch, out)
    BY <1>3 DEF Preprocess
  <2> DEFINE new == IF said.long
                    THEN [ch EXCEPT !.messages = "empty", !.summary = summary] ELSE ch
  <2>2. /\ new \in Channels
        /\ new.llm_response = ch.llm_response
        /\ new.correction_message = ch.correction_message
    BY <1>0 DEF Channels
  <2>3. turn' = turn /\ turn > 0 /\ pc \in Unchecked /\ Update("preprocess", new, out)
    BY <1>2, <1>3, <2>1 DEF Preprocess, Unchecked
  <2> HIDE DEF new
  <2>4. QED
    BY <1>0, <1>3, <2>2, <2>3, UpdateStream DEF StreamShape, Preprocess
<1>4. CASE Router
  <2>1. PICK i \in Intents(ch) : Update("router", AfterRouting(i), out)
    BY <1>4 DEF Router
  <2>2. i \in {"tool", "rag", "hitl", "chitchat"}
    BY <2>1 DEF Intents
  <2>3. /\ AfterRouting(i) \in Channels
        /\ AfterRouting(i).llm_response = ch.llm_response
        /\ AfterRouting(i).correction_message = ch.correction_message
    BY <1>0, <2>2 DEF AfterRouting, Channels
  <2>4. turn' = turn /\ turn > 0 /\ pc \in Unchecked
    BY <1>2, <1>4 DEF Router, Unchecked
  <2>5. QED
    BY <1>0, <2>1, <2>3, <2>4, UpdateStream DEF StreamShape
<1>5. CASE ToolExecutor
  <2> DEFINE new == [ch EXCEPT !.tool_calls = turn, !.llm_response = Reply("tool")]
  <2>1. /\ new \in Channels
        /\ new.llm_response = Reply("tool")
        /\ new.correction_message = ch.correction_message
    BY <1>0, ReplyTypes DEF Channels
  <2>2. turn' = turn /\ turn > 0 /\ pc \in Unchecked /\ Update("tool_executor", new, out)
    BY <1>2, <1>5 DEF ToolExecutor, Unchecked
  <2>3. new.llm_response.of = turn /\ new.llm_response.kind \notin Wholes
    BY <2>1 DEF Reply, Wholes
  <2> HIDE DEF new
  <2>4. QED
    BY <1>0, <2>1, <2>2, <2>3, UpdateStream DEF StreamShape
<1>6. CASE RagEngine
  <2> DEFINE none == [ch EXCEPT !.rag_context = 0, !.intent = "no_answer"]
             some == [ch EXCEPT !.rag_context = turn]
  <2>1. PICK new \in {none, some} : Update("rag_engine", new, out)
    BY <1>6 DEF RagEngine
  <2>2. /\ new \in Channels
        /\ new.llm_response = ch.llm_response
        /\ new.correction_message = ch.correction_message
    <3>1. /\ none \in Channels /\ none.llm_response = ch.llm_response
          /\ none.correction_message = ch.correction_message
      BY <1>0 DEF Channels
    <3>2. /\ some \in Channels /\ some.llm_response = ch.llm_response
          /\ some.correction_message = ch.correction_message
      BY <1>0 DEF Channels
    <3> HIDE DEF none, some
    <3>3. QED
      BY <2>1, <3>1, <3>2
  <2>3. turn' = turn /\ turn > 0 /\ pc \in Unchecked
    BY <1>2, <1>6 DEF RagEngine, Unchecked
  <2> HIDE DEF none, some
  <2>4. QED
    BY <1>0, <2>1, <2>2, <2>3, UpdateStream DEF StreamShape
<1>7. CASE LlmAnswers \/ LlmFails
  <2>1. PICK reply \in {Reply("answer"), Reply("blank"), Reply("apology")},
             usage \in {0, turn, ch.tokens_used}, stream \in {out, Streamed} :
           Update("llm_generate",
                  [ch EXCEPT !.llm_response = reply, !.tokens_used = usage,
                             !.guardrails_passed = TRUE], stream)
    <3>1. CASE LlmAnswers
      BY <3>1 DEF LlmAnswers
    <3>2. CASE LlmFails
      <4>1. [ch EXCEPT !.llm_response = Reply("apology"), !.guardrails_passed = TRUE]
             = [ch EXCEPT !.llm_response = Reply("apology"), !.tokens_used = ch.tokens_used,
                          !.guardrails_passed = TRUE]
        BY <1>0 DEF Channels
      <4>2. QED
        BY <3>2, <4>1 DEF LlmFails
    <3>3. QED
      BY <1>7, <3>1, <3>2
  <2> DEFINE new == [ch EXCEPT !.llm_response = reply, !.tokens_used = usage,
                               !.guardrails_passed = TRUE]
  <2>2. reply \in Replies /\ reply.of = turn /\ usage \in Nat
    <3>1. Reply("answer") \in Replies /\ Reply("blank") \in Replies /\ Reply("apology") \in Replies
      BY <1>0, ReplyTypes
    <3>2. ch.tokens_used \in Nat
      BY <1>0 DEF Channels
    <3>3. QED
      BY <1>0, <3>1, <3>2 DEF Reply
  <2>3. /\ new \in Channels
        /\ new.llm_response = reply
        /\ new.correction_message = ch.correction_message
    BY <1>0, <2>2 DEF Channels
  <2>4. turn' = turn /\ turn > 0 /\ pc = "llm_generate" /\ pc' = "guardrails"
    BY <1>2, <1>7 DEF LlmAnswers, LlmFails
  <2> HIDE DEF new
  <2>5. Update("llm_generate", new, stream)
    BY <2>1 DEF new
  <2>6. QED
    BY <1>0, <2>2, <2>3, <2>4, <2>5, UpdateStream DEF StreamShape, Unchecked
<1>8. CASE GuardrailsPass
  <2> DEFINE new == [ch EXCEPT !.guardrails_passed = TRUE]
  <2>1. /\ new \in Channels
        /\ new.llm_response = ch.llm_response
        /\ new.correction_message = ch.correction_message
    BY <1>0 DEF Channels
  <2>2. /\ turn' = turn /\ turn > 0 /\ pc' \notin Unchecked
        /\ Update("guardrails", new, out)
    BY <1>2, <1>8 DEF GuardrailsPass, GuardrailsDecision, Unchecked
  <2> HIDE DEF new
  <2>3. QED
    BY <1>0, <2>1, <2>2, UpdateStream DEF StreamShape
<1>9. CASE GuardrailsFail
  <2> DEFINE new == [ch EXCEPT !.guardrails_passed = FALSE, !.correction_message = turn,
                               !.hitl_requested = TRUE]
  <2>1. /\ new \in Channels
        /\ new.llm_response = ch.llm_response
        /\ new.correction_message = turn
    BY <1>0 DEF Channels
  <2>2. /\ turn' = turn /\ turn > 0 /\ pc' \notin Unchecked
        /\ Update("guardrails", new, out)
    BY <1>2, <1>9 DEF GuardrailsFail, GuardrailsDecision, Unchecked
  <2> HIDE DEF new
  <2>3. QED
    BY <1>0, <2>1, <2>2, UpdateStream DEF StreamShape
<1>10. CASE Postprocess
  <2> DEFINE new == [ch EXCEPT !.unresolved_turns = IF ch.guardrails_passed THEN @ ELSE @ + 1]
  <2>1. /\ new \in Channels
        /\ new.llm_response = ch.llm_response
        /\ new.correction_message = ch.correction_message
    BY <1>0 DEF Channels
  <2>2. /\ turn' = turn /\ turn > 0 /\ pc' \notin Unchecked
        /\ Update("postprocess", new, out)
    BY <1>2, <1>10 DEF Postprocess, Unchecked
  <2> HIDE DEF new
  <2>3. QED
    BY <1>0, <2>1, <2>2, UpdateStream DEF StreamShape
<1>11. CASE Hitl
  <2> DEFINE new == [ch EXCEPT !.llm_response = Reply("notice")]
  <2>1. /\ new \in Channels
        /\ new.llm_response = Reply("notice")
        /\ new.correction_message = ch.correction_message
    BY <1>0, ReplyTypes DEF Channels
  <2>2. /\ turn' = turn /\ turn > 0 /\ pc' \notin Unchecked
        /\ Update("hitl", new, out)
    BY <1>2, <1>11 DEF Hitl, Unchecked
  <2>3. Reply("notice").of = turn /\ Reply("notice").kind \notin Wholes
    BY DEF Reply, Wholes
  <2> HIDE DEF new
  <2>4. QED
    BY <1>0, <2>1, <2>2, <2>3, UpdateStream DEF StreamShape
<1>12. CASE GraphRaises
  BY <1>0, <1>12, BrokenStream
<1>13. CASE EndTurn \/ AdminEnds \/ UNCHANGED vars
  <2>1. /\ turn' = turn /\ ch' = ch /\ out' = out /\ sent' = sent
        /\ pc' = "idle" \/ pc' = pc
    BY <1>13, Zenon DEF EndTurn, AdminEnds, vars, consumer
  <2>2. QED
    BY <2>1 DEF StreamShape, Has, TokensFirst, Unchecked
<1>14. QED
  BY <1>1, <1>3, <1>4, <1>5, <1>6, <1>7, <1>8, <1>9, <1>10, <1>11, <1>12, <1>13
     DEF Next, Step

\* StreamShape is an invariant of AgentGraph.
LEMMA StreamInvariant == Spec => []StreamShape
<1>1. Init => StreamShape
  <2> SUFFICES ASSUME Init PROVE StreamShape
    OBVIOUS
  <2>1. /\ turn = 0 /\ pc = "idle" /\ out = <<>>
        /\ ch.llm_response = NoReply /\ ch.correction_message = 0
    BY DEF Init
  <2>2. QED
    BY <2>1 DEF StreamShape, NoReply, Has, TokensFirst, Unchecked, Wholes
<1>2. QED
  BY <1>1, StreamKept, AgentInvariant, PTL DEF Spec

\* guardrails_node and _consume_stream: a turn whose check fails delivers the
\* correction, and never before the tokens it corrects.
THEOREM HallucinationsCorrected == Spec => []HallucinationIsCorrected
<1>1. AgentInv /\ StreamShape => HallucinationIsCorrected
  BY DEF AgentInv, HandoverShape, StreamShape, HallucinationIsCorrected, TurnDone,
         Delivered, Has, TokensFirst
<1>2. QED
  BY <1>1, AgentInvariant, StreamInvariant, PTL

\* _consume_stream: an answer that has been streamed is never sent whole.
THEOREM AnswersOnce == Spec => []AnswerOnce
<1>1. StreamShape => AnswerOnce
  BY DEF StreamShape, AnswerOnce, Delivered, Has, Wholes
<1>2. QED
  BY <1>1, StreamInvariant, PTL

-----------------------------------------------------------------------------
\* The orchestrator of several agents.

\* Statuses of an agent.
AgentStatus == {"unknown", "available", "busy"}

\* Workflows in which a task is assigned.
Underway == {"attempt", "pause", "cancelled"}

\* The types of the state.
OrchTypes ==
    /\ agents \in [Agents -> AgentStatus]
    /\ registered \in [Agents -> 0..MaxRegistrations]
    /\ flow \in [Workflows -> {"new", "attempt", "pause", "done", "cancelled"}]
    /\ offer \in [Workflows -> Offers \cup {<<>>}]
    /\ tasks \in [Workflows -> Seq(TaskRecords)]
    /\ attempt \in [Workflows -> 0..max_retries]
    /\ metrics \in [successful : Nat, failed : Nat]

\* The tasks of a workflow by its state: one is assigned while it is under way, and none
\* pending when it is done; a pause has an attempt left.
FlowOK(w) ==
    /\ flow[w] \in Underway => \E i \in DOMAIN tasks[w] :
          Those(tasks[w], "assigned") = {i} /\ tasks[w][i].agent \in Agents
    /\ flow[w] \notin Underway => Those(tasks[w], "assigned") = {}
    /\ flow[w] = "new" => tasks[w] = <<>>
    /\ flow[w] = "done" => Those(tasks[w], "pending") = {}
    /\ flow[w] = "pause" => attempt[w] < max_retries

\* An agent that is registered once is busy for the workflow that holds it.
HeldOK(holding, status) ==
    \A a \in Agents :
        /\ registered[a] = 0 => status[a] = "unknown"
        /\ registered[a] <= 1 =>
              IF status[a] = "busy" THEN \E w \in Workflows : holding[a] = {w} ELSE holding[a] = {}

\* The workflows that hold each agent.
Holders == [a \in Agents |-> Holding(a)]

\* The metrics count the completed tasks.
CountOK ==
    /\ IsFiniteSet(Completed)
    /\ metrics.successful + metrics.failed = Cardinality(Completed)

\* The inductive invariant.
OrchIInv ==
    /\ OrchTypes
    /\ \A w \in Workflows : FlowOK(w)
    /\ HeldOK(Holders, agents)
    /\ CountOK

\* The inductive invariant is stronger than what the runs check.
LEMMA OrchIsEnough == OrchIInv => OrchInv
<1> SUFFICES ASSUME OrchIInv
             PROVE  OrchInv
  OBVIOUS
<1>1. \A a \in Agents : registered[a] <= 1 =>
         Cardinality(Holding(a)) = IF agents[a] = "busy" THEN 1 ELSE 0
  <2>1. \A w : Cardinality({w}) = 1
    BY FS_Singleton
  <2>2. Cardinality({}) = 0
    BY FS_EmptySet
  <2>3. QED
    BY <2>1, <2>2 DEF OrchIInv, HeldOK, Holders
<1>2. \A w \in Workflows : \A i \in DOMAIN tasks[w] :
         flow[w] = "done" => tasks[w][i].status \in {"completed", "no_agent"}
  <2> SUFFICES ASSUME NEW w \in Workflows, NEW i \in DOMAIN tasks[w], flow[w] = "done"
               PROVE  tasks[w][i].status \in {"completed", "no_agent"}
    OBVIOUS
  <2>1. tasks[w] \in Seq(TaskRecords) /\ tasks[w][i] \in TaskRecords
    BY DEF OrchIInv, OrchTypes
  <2>2. tasks[w][i].status \in {"pending", "assigned", "completed", "no_agent"}
    BY <2>1 DEF TaskRecords
  <2>3. i \notin Those(tasks[w], "pending") /\ i \notin Those(tasks[w], "assigned")
    BY DEF OrchIInv, FlowOK, Underway
  <2>4. QED
    BY <2>2, <2>3 DEF Those
<1>3. QED
  BY <1>1, <1>2 DEF OrchIInv, OrchInv, OrchTypes, CountOK, AgentStatus

\* In the first state nobody is registered and nothing has begun.
LEMMA OrchStarts == OrchInit => OrchIInv
<1> SUFFICES ASSUME OrchInit
             PROVE  OrchIInv
  OBVIOUS
<1>1. <<>> \in Seq(TaskRecords) /\ DOMAIN <<>> = {} /\ Those(<<>>, "assigned") = {} /\ Those(<<>>, "completed") = {}
  BY EmptySeq DEF Those
<1>2. OrchTypes
  BY <1>1, OrchestratorAssumption DEF OrchInit, OrchTypes, AgentStatus
<1>3. \A w \in Workflows : FlowOK(w)
  BY <1>1 DEF OrchInit, FlowOK, Underway
<1>4. HeldOK(Holders, agents)
  BY DEF OrchInit, HeldOK, Holders, Holding
<1>5. CountOK
  <2>1. Completed = {}
    BY <1>1 DEF OrchInit, Completed
  <2>2. metrics.successful + metrics.failed = 0
    BY DEF OrchInit
  <2>3. QED
    BY <2>1, <2>2, FS_EmptySet DEF CountOK
<1>6. QED
  BY <1>2, <1>3, <1>4, <1>5 DEF OrchIInv

\* The tasks ts are over, because none is pending or no agent is left for them.
FlowEnds(w, ts, status) ==
    /\ flow' = [flow EXCEPT ![w] = "done"]
    /\ agents' = status
    /\ \E us \in Seq(TaskRecords) :
         /\ tasks' = [tasks EXCEPT ![w] = us]
         /\ Those(us, "pending") = {} /\ Those(us, "assigned") = {}
         /\ Those(us, "completed") = Those(ts, "completed")

\* An available agent takes one of the tasks ts.
FlowGoesOn(w, ts, status) ==
    \E a \in Agents : \E us \in Seq(TaskRecords) : \E i \in DOMAIN us :
        /\ status[a] = "available"
        /\ flow' = [flow EXCEPT ![w] = "attempt"]
        /\ agents' = [status EXCEPT ![a] = "busy"]
        /\ tasks' = [tasks EXCEPT ![w] = us]
        /\ Those(us, "assigned") = {i} /\ us[i].agent = a
        /\ Those(us, "completed") = Those(ts, "completed")

\* What the loop of a workflow does with its next task: no agent is left for it, and the
\* pending tasks are over, or one that is available takes it.
LEMMA ProceedDoes ==
    ASSUME NEW w \in Workflows, NEW ts \in Seq(TaskRecords), Those(ts, "assigned") = {},
           NEW list \in Seq(Agents), NEW status \in [Agents -> AgentStatus],
           OrchTypes, Proceed(w, ts, list, status)
    PROVE  /\ attempt' = [attempt EXCEPT ![w] = 0]
           /\ FlowEnds(w, ts, status) \/ FlowGoesOn(w, ts, status)
<1> DEFINE pending == Earliest(Those(ts, "pending"))
           choices == {c \in pending \X Agents : c[2] \in Delegated(list, ts[c[1]].type, status)}
<1>1. attempt' = [attempt EXCEPT ![w] = 0]
  BY DEF Proceed
<1>n. Len(ts) \in Nat /\ DOMAIN ts = 1..Len(ts) /\ \A i \in DOMAIN ts : ts[i] \in TaskRecords
  OBVIOUS
<1>2. CASE /\ flow' = [flow EXCEPT ![w] = "done"] /\ tasks' = [tasks EXCEPT ![w] = Skipped(ts)]
           /\ agents' = status
  <2> DEFINE us == Skipped(ts)
  <2>1. /\ us = [i \in DOMAIN ts |-> us[i]]
        /\ \A i \in DOMAIN ts : us[i] = IF ts[i].status = "pending"
                                        THEN [ts[i] EXCEPT !.status = "no_agent"] ELSE ts[i]
    BY DEF Skipped
  <2>2. \A i \in DOMAIN ts :
          /\ us[i] \in TaskRecords
          /\ us[i].status = IF ts[i].status = "pending" THEN "no_agent" ELSE ts[i].status
    BY <1>n, <2>1 DEF TaskRecords
  <2> HIDE DEF us
  <2>3. us \in [1..Len(ts) -> TaskRecords] /\ DOMAIN us = DOMAIN ts
    BY <1>n, <2>1, <2>2
  <2>4. us \in Seq(TaskRecords)
    BY <1>n, <2>3, SeqDef
  <2>5. /\ Those(us, "pending") = {} /\ Those(us, "assigned") = {}
        /\ Those(us, "completed") = Those(ts, "completed")
    BY <2>2, <2>3 DEF Those
  <2>6. tasks' = [tasks EXCEPT ![w] = us]
    BY <1>2 DEF us
  <2>7. FlowEnds(w, ts, status)
    BY <1>2, <2>4, <2>5, <2>6 DEF FlowEnds
  <2>8. QED
    BY <1>1, <2>7
<1>3. ASSUME NEW c \in choices,
             flow' = [flow EXCEPT ![w] = "attempt"],
             tasks' = [tasks EXCEPT ![w] =
                [ts EXCEPT ![c[1]] = [@ EXCEPT !.status = "assigned", !.agent = c[2]]]],
             agents' = [status EXCEPT ![c[2]] = "busy"]
      PROVE  FlowGoesOn(w, ts, status)
  <2> DEFINE i == c[1]
             a == c[2]
             us == [ts EXCEPT ![i] = [@ EXCEPT !.status = "assigned", !.agent = a]]
  <2>1. i \in Those(ts, "pending") /\ a \in Agents /\ a \in Delegated(list, ts[i].type, status)
    BY DEF Earliest
  <2>2. i \in DOMAIN ts /\ ts[i].status = "pending"
    BY <2>1 DEF Those
  <2>3. status[a] = "available"
    BY <2>1 DEF Delegated, Earliest, Usable
  <2>4. tasks' = [tasks EXCEPT ![w] = us] /\ agents' = [status EXCEPT ![a] = "busy"]
    BY <1>3
  <2> DEFINE t == [ts[i] EXCEPT !.status = "assigned", !.agent = a]
  <2>5. t \in TaskRecords /\ t.status = "assigned" /\ t.agent = a
    BY <1>n, <2>1, <2>2 DEF TaskRecords
  <2>6. us = [ts EXCEPT ![i] = t]
    OBVIOUS
  <2> HIDE DEF t, us, i, a, choices, pending
  <2>7. /\ us \in [1..Len(ts) -> TaskRecords] /\ DOMAIN us = DOMAIN ts /\ us[i] = t
        /\ \A j \in DOMAIN ts : j # i => us[j] = ts[j]
    BY <1>n, <2>2, <2>5, <2>6
  <2>8. us \in Seq(TaskRecords)
    BY <1>n, <2>7, SeqDef
  <2>9. Those(us, "assigned") = {i} /\ Those(us, "completed") = Those(ts, "completed")
    BY <2>2, <2>5, <2>7 DEF Those
  <2>10. QED
    BY <1>3, <2>1, <2>2, <2>3, <2>4, <2>5, <2>7, <2>8, <2>9 DEF FlowGoesOn
<1>4. \/ /\ flow' = [flow EXCEPT ![w] = "done"] /\ tasks' = [tasks EXCEPT ![w] = Skipped(ts)]
         /\ agents' = status
      \/ \E c \in choices :
           /\ flow' = [flow EXCEPT ![w] = "attempt"]
           /\ tasks' = [tasks EXCEPT ![w] =
                [ts EXCEPT ![c[1]] = [@ EXCEPT !.status = "assigned", !.agent = c[2]]]]
           /\ agents' = [status EXCEPT ![c[2]] = "busy"]
  BY DEF Proceed
<1>5. QED
  BY <1>1, <1>2, <1>3, <1>4
\* The agent that holds the assigned task.
LEMMA HolderIs ==
    ASSUME NEW w, NEW i \in DOMAIN tasks[w], Those(tasks[w], "assigned") = {i}
    PROVE  Current(w) = i /\ Holder(w) = tasks[w][i].agent
<1>1. \A j \in DOMAIN tasks[w] : tasks[w][j].status = "assigned" <=> j = i
  BY DEF Those
<1>2. Current(w) = i
  BY <1>1, Zenon DEF Current
<1>3. QED
  BY <1>2 DEF Holder

\* Workflows but the one whose step it is hold what they held.
LEMMA OthersHold ==
    ASSUME OrchTypes, NEW w \in Workflows, NEW us, NEW f,
           flow' = [flow EXCEPT ![w] = f], tasks' = [tasks EXCEPT ![w] = us]
    PROVE  \A a \in Agents : Holding(a)' =
               (Holding(a) \ {w}) \cup (IF f \in Underway /\ Holder(w)' = a THEN {w} ELSE {})
<1>1. \A v \in Workflows \ {w} : flow'[v] = flow[v] /\ tasks'[v] = tasks[v]
  BY DEF OrchTypes
<1>2. flow'[w] = f
  BY DEF OrchTypes
<1>3. \A v \in Workflows \ {w} : Holder(v)' = Holder(v)
  BY <1>1 DEF Holder, Current
<1>4. \A a \in Agents : \A v : v \in Holding(a)' <=>
         v \in (Holding(a) \ {w}) \cup (IF f \in Underway /\ Holder(w)' = a THEN {w} ELSE {})
  <2> TAKE a \in Agents
  <2> TAKE v
  <2>1. v \in Holding(a)' <=> v \in Workflows /\ flow'[v] \in Underway /\ Holder(v)' = a
    BY DEF Holding, Underway
  <2>2. v \in Holding(a) <=> v \in Workflows /\ flow[v] \in Underway /\ Holder(v) = a
    BY DEF Holding, Underway
  <2>3. CASE v = w
    BY <2>1, <2>3, <1>2
  <2>4. CASE v # w
    BY <2>1, <2>2, <2>4, <1>1, <1>3
  <2>5. QED
    BY <2>3, <2>4
<1>5. QED
  BY <1>4, Zenon

\* Going on with the next task keeps the invariant, but for the count, if all is well
\* without the workflow.
LEMMA ProceedKeeps ==
    ASSUME OrchTypes, \A v \in Workflows : FlowOK(v),
           NEW w \in Workflows, NEW ts \in Seq(TaskRecords), Those(ts, "assigned") = {},
           NEW list \in Seq(Agents), NEW status \in [Agents -> AgentStatus],
           HeldOK([a \in Agents |-> Holding(a) \ {w}], status),
           Proceed(w, ts, list, status), UNCHANGED registered
    PROVE  /\ agents' \in [Agents -> AgentStatus]
           /\ flow' \in [Workflows -> {"new", "attempt", "pause", "done", "cancelled"}]
           /\ tasks' \in [Workflows -> Seq(TaskRecords)]
           /\ attempt' \in [Workflows -> 0..max_retries]
           /\ \A v \in Workflows : FlowOK(v)'
           /\ HeldOK(Holders, agents)'
           /\ Those(tasks'[w], "completed") = Those(ts, "completed")
           /\ \A v \in Workflows \ {w} : tasks'[v] = tasks[v]
<1>1. attempt' = [attempt EXCEPT ![w] = 0] /\ attempt' \in [Workflows -> 0..max_retries]
  <2>1. attempt' = [attempt EXCEPT ![w] = 0]
    BY ProceedDoes
  <2>2. QED
    BY <2>1, OrchestratorAssumption DEF OrchTypes
<1>2. ASSUME NEW us \in Seq(TaskRecords), NEW f \in {"done", "attempt"},
             flow' = [flow EXCEPT ![w] = f],
             tasks' = [tasks EXCEPT ![w] = us]
      PROVE  /\ flow' \in [Workflows -> {"new", "attempt", "pause", "done", "cancelled"}]
             /\ tasks' \in [Workflows -> Seq(TaskRecords)]
             /\ flow'[w] = f /\ tasks'[w] = us
             /\ \A v \in Workflows \ {w} : tasks'[v] = tasks[v] /\ FlowOK(v)'
  <2>1. flow'[w] = f /\ tasks'[w] = us
    BY <1>2 DEF OrchTypes
  <2>2. \A v \in Workflows \ {w} : tasks'[v] = tasks[v] /\ flow'[v] = flow[v] /\ attempt'[v] = attempt[v]
    BY <1>1, <1>2 DEF OrchTypes
  <2>3. \A v \in Workflows \ {w} : FlowOK(v)'
    <3> TAKE v \in Workflows \ {w}
    <3>1. tasks'[v] = tasks[v] /\ flow'[v] = flow[v] /\ attempt'[v] = attempt[v] /\ FlowOK(v)
      BY <2>2
    <3>2. QED
      BY <3>1 DEF FlowOK
  <2>4. /\ flow' \in [Workflows -> {"new", "attempt", "pause", "done", "cancelled"}]
        /\ tasks' \in [Workflows -> Seq(TaskRecords)]
    BY <1>2 DEF OrchTypes
  <2>5. QED
    BY <2>1, <2>2, <2>3, <2>4
<1>3. CASE FlowEnds(w, ts, status)
  <2>0. flow' = [flow EXCEPT ![w] = "done"] /\ agents' = status
    BY <1>3 DEF FlowEnds
  <2>1. PICK us \in Seq(TaskRecords) :
                /\ tasks' = [tasks EXCEPT ![w] = us]
                /\ Those(us, "pending") = {} /\ Those(us, "assigned") = {}
                /\ Those(us, "completed") = Those(ts, "completed")
    BY <1>3 DEF FlowEnds
  <2>2. /\ flow' \in [Workflows -> {"new", "attempt", "pause", "done", "cancelled"}]
        /\ tasks' \in [Workflows -> Seq(TaskRecords)]
        /\ flow'[w] = "done" /\ tasks'[w] = us
        /\ \A v \in Workflows \ {w} : tasks'[v] = tasks[v] /\ FlowOK(v)'
    BY <1>2, <2>0, <2>1
  <2>3. FlowOK(w)'
    BY <2>1, <2>2 DEF FlowOK, Underway
  <2>4. \A a \in Agents : Holding(a)' = Holding(a) \ {w}
    <3>1. \A a \in Agents : Holding(a)' = (Holding(a) \ {w}) \cup
              (IF "done" \in Underway /\ Holder(w)' = a THEN {w} ELSE {})
      BY <2>0, <2>1, OthersHold
    <3>2. QED
      BY <3>1 DEF Underway
  <2>5. HeldOK(Holders, agents)'
    BY <2>4, <2>0 DEF HeldOK, Holders
  <2>6. QED
    BY <1>1, <2>0, <2>1, <2>2, <2>3, <2>5
<1>4. ASSUME NEW b \in Agents, NEW us \in Seq(TaskRecords), NEW i \in DOMAIN us,
             status[b] = "available",
             flow' = [flow EXCEPT ![w] = "attempt"],
             agents' = [status EXCEPT ![b] = "busy"],
             tasks' = [tasks EXCEPT ![w] = us],
             Those(us, "assigned") = {i}, us[i].agent = b,
             Those(us, "completed") = Those(ts, "completed")
      PROVE  /\ agents' \in [Agents -> AgentStatus]
             /\ flow' \in [Workflows -> {"new", "attempt", "pause", "done", "cancelled"}]
             /\ tasks' \in [Workflows -> Seq(TaskRecords)]
             /\ \A v \in Workflows : FlowOK(v)'
             /\ HeldOK(Holders, agents)'
             /\ Those(tasks'[w], "completed") = Those(ts, "completed")
             /\ \A v \in Workflows \ {w} : tasks'[v] = tasks[v]
  <2>2. /\ flow' \in [Workflows -> {"new", "attempt", "pause", "done", "cancelled"}]
        /\ tasks' \in [Workflows -> Seq(TaskRecords)]
        /\ flow'[w] = "attempt" /\ tasks'[w] = us
        /\ \A v \in Workflows \ {w} : tasks'[v] = tasks[v] /\ FlowOK(v)'
    BY <1>2, <1>4
  <2>3. FlowOK(w)'
    BY <1>4, <2>2 DEF FlowOK, Underway
  <2>4. Holder(w)' = b
    <3>1. (i \in DOMAIN tasks[w] /\ Those(tasks[w], "assigned") = {i})'
      BY <1>4, <2>2
    <3>2. (\A j \in DOMAIN tasks[w] : tasks[w][j].status = "assigned" <=> j = i)'
      BY <3>1 DEF Those
    <3>3. Current(w)' = i
      BY <3>1, <3>2, Zenon DEF Current
    <3>4. QED
      BY <3>3, <1>4, <2>2 DEF Holder
  <2>5. \A a \in Agents : Holding(a)' = (Holding(a) \ {w}) \cup (IF a = b THEN {w} ELSE {})
    <3>1. \A a \in Agents : Holding(a)' = (Holding(a) \ {w}) \cup
              (IF "attempt" \in Underway /\ Holder(w)' = a THEN {w} ELSE {})
      BY <1>4, OthersHold
    <3>2. QED
      BY <2>4, <3>1 DEF Underway
  <2>6. HeldOK(Holders, agents)'
    <3>1. \A a \in Agents \ {b} : agents'[a] = status[a] /\ Holding(a)' = Holding(a) \ {w}
      BY <1>4, <2>5
    <3>2. agents'[b] = "busy" /\ Holding(b)' = (Holding(b) \ {w}) \cup {w}
      BY <1>4, <2>5
    <3>3. registered[b] # 0 /\ (registered[b] <= 1 => Holding(b) \ {w} = {})
      BY <1>4 DEF HeldOK
    <3>4. registered[b] <= 1 => Holding(b)' = {w}
      BY <3>2, <3>3
    <3>5. QED
      BY <3>1, <3>2, <3>3, <3>4 DEF HeldOK, Holders
  <2>7. agents' \in [Agents -> AgentStatus]
    BY <1>4 DEF AgentStatus
  <2>8. \A v \in Workflows : FlowOK(v)'
    BY <2>2, <2>3
  <2>9. Those(tasks'[w], "completed") = Those(ts, "completed")
    BY <1>4, <2>2
  <2>10. QED
    BY <2>2, <2>6, <2>7, <2>8, <2>9
<1>5. CASE FlowGoesOn(w, ts, status)
  <2>1. PICK b \in Agents, us \in Seq(TaskRecords) : \E i \in DOMAIN us :
                /\ status[b] = "available"
                /\ flow' = [flow EXCEPT ![w] = "attempt"]
                /\ agents' = [status EXCEPT ![b] = "busy"]
                /\ tasks' = [tasks EXCEPT ![w] = us]
                /\ Those(us, "assigned") = {i} /\ us[i].agent = b
                /\ Those(us, "completed") = Those(ts, "completed")
    BY <1>5 DEF FlowGoesOn
  <2>2. QED
    BY <1>1, <1>4, <2>1
<1>6. FlowEnds(w, ts, status) \/ FlowGoesOn(w, ts, status)
  BY ProceedDoes
<1>7. QED
  BY <1>3, <1>5, <1>6
\* The completed tasks are those of the workflows.
LEMMA CompletedAre ==
    \A v \in Workflows : \A i : <<v, i>> \in Completed <=> i \in Those(tasks[v], "completed")
<1> TAKE v \in Workflows
<1> TAKE i
<1>1. <<v, i>> \in Completed <=> \E u \in Workflows : <<v, i>> \in {u} \X Those(tasks[u], "completed")
  BY DEF Completed
<1>2. QED
  BY <1>1

\* A step of one workflow that completes no task.
LEMMA CountStays ==
    ASSUME CountOK, NEW w \in Workflows, UNCHANGED metrics,
           Those(tasks'[w], "completed") = Those(tasks[w], "completed"),
           \A v \in Workflows \ {w} : tasks'[v] = tasks[v]
    PROVE  CountOK'
<1>1. \A v \in Workflows : Those(tasks'[v], "completed") = Those(tasks[v], "completed")
  <2> TAKE v \in Workflows
  <2>1. CASE v = w
    BY <2>1
  <2>2. CASE v # w
    BY <2>2
  <2>3. QED
    BY <2>1, <2>2
<1>2. Completed' = Completed
  BY <1>1 DEF Completed
<1>3. QED
  BY <1>2 DEF CountOK

\* A step of one workflow that completes its task i.
LEMMA CountGrows ==
    ASSUME CountOK, OrchTypes, NEW w \in Workflows, NEW i, NEW outcome \in {"successful", "failed"},
           metrics' = [metrics EXCEPT ![outcome] = @ + 1],
           i \notin Those(tasks[w], "completed"),
           Those(tasks'[w], "completed") = Those(tasks[w], "completed") \cup {i},
           \A v \in Workflows \ {w} : tasks'[v] = tasks[v]
    PROVE  CountOK' /\ metrics' \in [successful : Nat, failed : Nat]
<1>1. Completed' = Completed \cup {<<w, i>>}
  <2>1. \A v \in Workflows \ {w} : {v} \X Those(tasks'[v], "completed") = {v} \X Those(tasks[v], "completed")
    OBVIOUS
  <2>2. {w} \X Those(tasks'[w], "completed") = ({w} \X Those(tasks[w], "completed")) \cup {<<w, i>>}
    OBVIOUS
  <2> DEFINE here(v) == {v} \X Those(tasks[v], "completed")
             there(v) == {v} \X Those(tasks'[v], "completed")
  <2>3. Completed = UNION {here(v) : v \in Workflows} /\ Completed' = UNION {there(v) : v \in Workflows}
    BY DEF Completed
  <2>4. (\A v \in Workflows \ {w} : there(v) = here(v)) /\ there(w) = here(w) \cup {<<w, i>>}
    BY <2>1, <2>2
  <2> HIDE DEF here, there
  <2>5. UNION {there(v) : v \in Workflows} = (UNION {here(v) : v \in Workflows}) \cup {<<w, i>>}
    BY <2>4
  <2>6. QED
    BY <2>3, <2>5
<1>2. <<w, i>> \notin Completed
  BY CompletedAre
<1>3. /\ IsFiniteSet(Completed')
      /\ Cardinality(Completed') = Cardinality(Completed) + 1
      /\ Cardinality(Completed) \in Nat
  <2>1. IsFiniteSet(Completed)
    BY DEF CountOK
  <2>2. QED
    BY <1>1, <1>2, <2>1, FS_AddElement, FS_CardinalityType
<1>4. /\ metrics' \in [successful : Nat, failed : Nat]
      /\ metrics'.successful + metrics'.failed = metrics.successful + metrics.failed + 1
  <2>1. metrics \in [successful : Nat, failed : Nat]
    BY DEF OrchTypes
  <2>2. QED
    BY <2>1
<1>5. metrics.successful + metrics.failed = Cardinality(Completed)
  BY DEF CountOK
<1>6. metrics'.successful + metrics'.failed = Cardinality(Completed')
  BY <1>3, <1>4, <1>5
<1>7. QED
  BY <1>3, <1>4, <1>6 DEF CountOK

\* Registration, which makes an agent available again whoever holds it.
LEMMA RegistrationKeeps ==
    ASSUME OrchIInv, NEW b \in Agents, RegisterAgent(b)
    PROVE  OrchIInv'
<1>1. /\ registered[b] \in Nat /\ registered[b] + 1 \in 0..MaxRegistrations
      /\ registered' = [registered EXCEPT ![b] = @ + 1]
      /\ agents' = [agents EXCEPT ![b] = "available"]
      /\ UNCHANGED <<flow, offer, tasks, attempt, metrics>>
  BY OrchestratorAssumption DEF RegisterAgent, OrchIInv, OrchTypes
<1>2. OrchTypes'
  BY <1>1 DEF OrchIInv, OrchTypes, AgentStatus
<1>3. \A w \in Workflows : FlowOK(w)'
  BY <1>1 DEF OrchIInv, FlowOK
<1>4. CountOK'
  BY <1>1 DEF OrchIInv, CountOK, Completed
<1>5. HeldOK(Holders, agents)'
  <2>1. Holders' = Holders
    BY <1>1 DEF Holders, Holding, Holder, Current
  <2>2. \A a \in Agents \ {b} : registered'[a] = registered[a] /\ agents'[a] = agents[a]
    BY <1>1 DEF OrchIInv, OrchTypes
  <2>3. registered'[b] = registered[b] + 1 /\ agents'[b] = "available"
    BY <1>1 DEF OrchIInv, OrchTypes
  <2>4. registered'[b] <= 1 => registered[b] = 0
    BY <1>1, <2>3
  <2>5. registered[b] = 0 => Holders[b] = {}
    BY DEF OrchIInv, HeldOK
  <2>6. registered'[b] # 0
    BY <1>1, <2>3
  <2>7. QED
    BY <2>1, <2>2, <2>3, <2>4, <2>5, <2>6 DEF OrchIInv, HeldOK
<1>6. QED
  BY <1>2, <1>3, <1>4, <1>5 DEF OrchIInv

\* The parts of a query, none of them begun.
LEMMA QueryTasks ==
    ASSUME NEW parts \in Queries
    PROVE  LET ts == [i \in DOMAIN parts |-> Task(parts[i])]
           IN  /\ ts \in Seq(TaskRecords)
               /\ Those(ts, "assigned") = {} /\ Those(ts, "completed") = {}
<1> DEFINE ts == [i \in DOMAIN parts |-> Task(parts[i])]
<1>1. PICK words : LET called == InOrder({i \in DOMAIN Parts : Parts[i] \in words})
                   IN  parts = [k \in DOMAIN called |-> Parts[called[k]]]
  BY DEF Queries
<1> DEFINE S == {i \in DOMAIN Parts : Parts[i] \in words}
           called == InOrder(S)
<1>2. DOMAIN Parts = 1..3 /\ \A i \in 1..3 : Parts[i] \in Range(Parts)
  BY DEF Parts, Range
<1>3. S \in SUBSET Int /\ IsFiniteSet(S)
  <2>1. S \subseteq 1..3
    BY <1>2
  <2>2. IsFiniteSet(1..3)
    <3>1. \A n \in Nat : IsFiniteSet(1..n) /\ Cardinality(1..n) = IF 1 > n THEN 0 ELSE n - 1 + 1
      BY FS_Interval
    <3>2. QED
      BY <3>1
  <2>3. QED
    BY <2>1, <2>2, FS_Subset
<1>s. S \subseteq 1..3
  BY <1>2
<1>4. parts = [k \in DOMAIN called |-> Parts[called[k]]]
  BY <1>1
<1> HIDE DEF S
<1>5. /\ DOMAIN called = 1..Cardinality(S) /\ Cardinality(S) \in Nat
      /\ \A k \in 1..Cardinality(S) : called[k] \in S
  BY <1>3, Ordered, FS_CardinalityType
<1> HIDE DEF called
<1>6. \A k \in DOMAIN called : called[k] \in 1..3
  BY <1>5, <1>s
<1>7. \A k \in DOMAIN parts : parts[k] \in Range(Parts)
  BY <1>2, <1>4, <1>6
<1>8. DOMAIN parts = 1..Cardinality(S)
  BY <1>4, <1>5
<1>9. \A k \in DOMAIN parts : ts[k] \in TaskRecords /\ ts[k].status = "pending"
  BY <1>7 DEF Task, TaskRecords
<1>10. ts \in [1..Cardinality(S) -> TaskRecords]
  BY <1>8, <1>9
<1>11. DOMAIN ts = DOMAIN parts
  OBVIOUS
<1> HIDE DEF ts
<1>12. ts \in Seq(TaskRecords)
  BY <1>5, <1>10, SeqDef
<1>13. Those(ts, "assigned") = {} /\ Those(ts, "completed") = {}
  BY <1>9, <1>11 DEF Those
<1>14. QED
  BY <1>12, <1>13 DEF ts
\* A workflow begins with the tasks of its query.
LEMMA ExecuteKeeps ==
    ASSUME OrchIInv, NEW w \in Workflows, ExecuteWorkflow(w)
    PROVE  OrchIInv'
<1>1. PICK list \in Offers, parts \in Queries :
         /\ offer' = [offer EXCEPT ![w] = list]
         /\ Proceed(w, [i \in DOMAIN parts |-> Task(parts[i])], list, agents)
  BY DEF ExecuteWorkflow
<1> DEFINE ts == [i \in DOMAIN parts |-> Task(parts[i])]
<1>2. /\ ts \in Seq(TaskRecords)
      /\ Those(ts, "assigned") = {} /\ Those(ts, "completed") = {}
  BY QueryTasks
<1>p. Proceed(w, ts, list, agents)
  BY <1>1
<1> HIDE DEF ts
<1>3. flow[w] = "new" /\ tasks[w] = <<>> /\ UNCHANGED <<registered, metrics>>
  BY DEF ExecuteWorkflow, OrchIInv, FlowOK
<1>4. HeldOK([a \in Agents |-> Holding(a) \ {w}], agents)
  <2>1. \A a \in Agents : Holding(a) \ {w} = Holding(a)
    BY <1>3 DEF Holding
  <2>2. [a \in Agents |-> Holding(a) \ {w}] = Holders
    BY <2>1 DEF Holders
  <2>3. QED
    BY <2>2 DEF OrchIInv
<1>5. list \in Seq(Agents) /\ agents \in [Agents -> AgentStatus]
  BY OrchestratorAssumption DEF OrchIInv, OrchTypes
<1>6. OrchTypes /\ \A v \in Workflows : FlowOK(v)
  BY DEF OrchIInv
<1>7. /\ agents' \in [Agents -> AgentStatus]
      /\ flow' \in [Workflows -> {"new", "attempt", "pause", "done", "cancelled"}]
      /\ tasks' \in [Workflows -> Seq(TaskRecords)]
      /\ attempt' \in [Workflows -> 0..max_retries]
      /\ \A v \in Workflows : FlowOK(v)'
      /\ HeldOK(Holders, agents)'
      /\ Those(tasks'[w], "completed") = Those(ts, "completed")
      /\ \A v \in Workflows \ {w} : tasks'[v] = tasks[v]
  BY <1>p, <1>2, <1>3, <1>4, <1>5, <1>6, ProceedKeeps
<1>8. OrchTypes'
  <2>1. offer' \in [Workflows -> Offers \cup {<<>>}]
    BY <1>1, <1>6 DEF OrchTypes
  <2>2. QED
    BY <1>3, <1>6, <1>7, <2>1 DEF OrchTypes
<1>9. CountOK'
  <2>1. Those(tasks[w], "completed") = {}
    BY <1>3 DEF Those
  <2>2. Those(tasks'[w], "completed") = Those(tasks[w], "completed")
    BY <1>2, <1>7, <2>1
  <2>3. QED
    BY <1>3, <1>7, <2>2, CountStays DEF OrchIInv
<1>10. QED
  BY <1>7, <1>8, <1>9 DEF OrchIInv

\* The end of a task: it is counted, its agent is free, and the workflow goes on.
LEMMA EndTaskKeeps ==
    ASSUME OrchIInv, NEW w \in Workflows, NEW outcome \in {"successful", "failed"},
           flow[w] = "attempt", EndTask(w, outcome)
    PROVE  OrchIInv'
<1>t. OrchTypes /\ \A v \in Workflows : FlowOK(v)
  BY DEF OrchIInv
<1>1. PICK i \in DOMAIN tasks[w] :
         Those(tasks[w], "assigned") = {i} /\ tasks[w][i].agent \in Agents
  BY <1>t DEF FlowOK, Underway
<1> DEFINE b == tasks[w][i].agent
           ts == [tasks[w] EXCEPT ![i].status = "completed"]
           status == [agents EXCEPT ![b] = "available"]
<1>2. Current(w) = i /\ Holder(w) = b /\ b \in Agents
  BY <1>1, HolderIs
<1>3. /\ metrics' = [metrics EXCEPT ![outcome] = @ + 1]
      /\ Proceed(w, ts, offer[w], status)
      /\ UNCHANGED <<registered, offer>>
  BY <1>2 DEF EndTask, Freed
<1>4. /\ ts \in Seq(TaskRecords)
      /\ Those(ts, "assigned") = {}
      /\ Those(ts, "completed") = Those(tasks[w], "completed") \cup {i}
      /\ i \notin Those(tasks[w], "completed")
  <2> DEFINE old == tasks[w]
             t == [old[i] EXCEPT !.status = "completed"]
  <2>1. old \in Seq(TaskRecords) /\ old[i] \in TaskRecords /\ i \in DOMAIN old
    BY <1>t DEF OrchTypes
  <2>2. t \in TaskRecords /\ t.status = "completed"
    BY <2>1 DEF TaskRecords
  <2>3. ts = [old EXCEPT ![i] = t]
    OBVIOUS
  <2>4. Those(old, "assigned") = {i}
    BY <1>1
  <2> HIDE DEF old, t, ts
  <2>5. /\ ts \in Seq(TaskRecords) /\ DOMAIN ts = DOMAIN old /\ ts[i] = t
        /\ \A j \in DOMAIN old : j # i => ts[j] = old[j]
    BY <2>1, <2>2, <2>3
  <2>6. /\ Those(ts, "assigned") = {}
        /\ Those(ts, "completed") = Those(old, "completed") \cup {i}
        /\ i \notin Those(old, "completed")
    BY <2>1, <2>2, <2>4, <2>5 DEF Those
  <2>7. QED
    BY <2>5, <2>6 DEF old
<1>5. status \in [Agents -> AgentStatus]
  BY <1>t DEF OrchTypes, AgentStatus
<1>6. HeldOK([a \in Agents |-> Holding(a) \ {w}], status)
  <2>1. w \in Holding(b)
    BY <1>2 DEF Holding
  <2>2. \A a \in Agents \ {b} : Holding(a) \ {w} = Holding(a) /\ status[a] = agents[a]
    BY <1>2, <1>t DEF Holding, OrchTypes
  <2>3. status[b] = "available"
    BY <1>2, <1>t DEF OrchTypes
  <2>4. registered[b] <= 1 => Holding(b) \ {w} = {}
    BY <2>1, <1>2 DEF OrchIInv, HeldOK, Holders
  <2>5. registered[b] # 0
    BY <2>1, <1>2 DEF OrchIInv, HeldOK, Holders
  <2> HIDE DEF status, b
  <2>6. \A a \in Agents \ {b} :
          /\ registered[a] = 0 => status[a] = "unknown"
          /\ registered[a] <= 1 => IF status[a] = "busy"
                THEN \E v \in Workflows : Holding(a) \ {w} = {v} ELSE Holding(a) \ {w} = {}
    BY <2>2 DEF OrchIInv, HeldOK, Holders
  <2>7. QED
    BY <2>3, <2>4, <2>5, <2>6 DEF HeldOK
<1>7. offer[w] \in Seq(Agents)
  <2>1. offer[w] \in Offers \cup {<<>>}
    BY <1>t DEF OrchTypes
  <2>2. Offers \subseteq Seq(Agents) /\ <<>> \in Seq(Agents)
    BY OrchestratorAssumption, EmptySeq
  <2>3. QED
    BY <2>1, <2>2, Zenon
<1> HIDE DEF ts, status
<1>8. /\ agents' \in [Agents -> AgentStatus]
      /\ flow' \in [Workflows -> {"new", "attempt", "pause", "done", "cancelled"}]
      /\ tasks' \in [Workflows -> Seq(TaskRecords)]
      /\ attempt' \in [Workflows -> 0..max_retries]
      /\ \A v \in Workflows : FlowOK(v)'
      /\ HeldOK(Holders, agents)'
      /\ Those(tasks'[w], "completed") = Those(ts, "completed")
      /\ \A v \in Workflows \ {w} : tasks'[v] = tasks[v]
  BY <1>t, <1>3, <1>4, <1>5, <1>6, <1>7, ProceedKeeps
<1>9. CountOK' /\ metrics' \in [successful : Nat, failed : Nat]
  <2>1. Those(tasks'[w], "completed") = Those(tasks[w], "completed") \cup {i}
    BY <1>4, <1>8
  <2>2. QED
    BY <2>1, <1>t, <1>3, <1>4, <1>8, CountGrows DEF OrchIInv
<1>10. OrchTypes'
  BY <1>t, <1>3, <1>8, <1>9 DEF OrchTypes
<1>11. QED
  BY <1>8, <1>9, <1>10 DEF OrchIInv

\* Pauses, retries and cancellations leave the task with its agent.
LEMMA WaitingKeeps ==
    ASSUME OrchIInv, NEW w \in Workflows, NEW f \in Underway,
           flow[w] \in Underway, flow' = [flow EXCEPT ![w] = f],
           attempt' \in [Workflows -> 0..max_retries],
           \A v \in Workflows \ {w} : attempt'[v] = attempt[v],
           f = "pause" => attempt'[w] < max_retries,
           UNCHANGED <<agents, registered, offer, tasks, metrics>>
    PROVE  OrchIInv'
<1>1. flow'[w] = f /\ \A v \in Workflows \ {w} : flow'[v] = flow[v]
  BY DEF OrchIInv, OrchTypes
<1>2. OrchTypes'
  BY DEF OrchIInv, OrchTypes, Underway
<1>3. \A v \in Workflows : FlowOK(v)'
  <2>1. FlowOK(w)'
    BY <1>1 DEF OrchIInv, FlowOK, Underway
  <2>2. \A v \in Workflows \ {w} : FlowOK(v)'
    <3> TAKE v \in Workflows \ {w}
    <3>1. flow'[v] = flow[v] /\ attempt'[v] = attempt[v] /\ FlowOK(v)
      BY <1>1 DEF OrchIInv
    <3>2. QED
      BY <3>1 DEF FlowOK
  <2>3. QED
    BY <2>1, <2>2
<1>4. HeldOK(Holders, agents)'
  <2>1. \A v \in Workflows : Holder(v)' = Holder(v) /\ (flow'[v] \in Underway <=> flow[v] \in Underway)
    BY <1>1 DEF Holder, Current
  <2>2. \A a \in Agents : Holding(a)' = Holding(a)
    BY <2>1 DEF Holding, Underway
  <2>3. Holders' = Holders
    BY <2>2 DEF Holders
  <2>4. QED
    BY <2>3 DEF OrchIInv, HeldOK
<1>5. CountOK'
  BY DEF OrchIInv, CountOK, Completed
<1>6. QED
  BY <1>2, <1>3, <1>4, <1>5 DEF OrchIInv

\* The invariant is inductive.
LEMMA OrchStep == OrchIInv /\ [OrchNext]_orchVars => OrchIInv'
<1> SUFFICES ASSUME OrchIInv, [OrchNext]_orchVars
             PROVE  OrchIInv'
  OBVIOUS
<1>1. CASE UNCHANGED orchVars
  <2>1. UNCHANGED <<agents, registered, flow, offer, tasks, attempt, metrics>>
    BY <1>1 DEF orchVars
  <2>2. OrchTypes' /\ CountOK'
    BY <2>1 DEF OrchIInv, OrchTypes, CountOK, Completed
  <2>3. \A w \in Workflows : FlowOK(w)'
    BY <2>1 DEF OrchIInv, FlowOK
  <2>4. HeldOK(Holders, agents)'
    <3>1. Holders' = Holders
      BY <2>1 DEF Holders, Holding, Holder, Current
    <3>2. QED
      BY <2>1, <3>1 DEF OrchIInv, HeldOK
  <2>5. QED
    BY <2>2, <2>3, <2>4 DEF OrchIInv
<1>2. ASSUME NEW a \in Agents, RegisterAgent(a)
      PROVE  OrchIInv'
  BY <1>2, RegistrationKeeps
<1>3. ASSUME NEW w \in Workflows, ExecuteWorkflow(w)
      PROVE  OrchIInv'
  BY <1>3, ExecuteKeeps
<1>4. ASSUME NEW w \in Workflows, CompleteTask(w)
      PROVE  OrchIInv'
  BY <1>4, EndTaskKeeps DEF CompleteTask
<1>5. ASSUME NEW w \in Workflows, FailAttempt(w)
      PROVE  OrchIInv'
  <2>1. CASE /\ attempt[w] < max_retries
             /\ flow' = [flow EXCEPT ![w] = "pause"]
             /\ UNCHANGED <<agents, registered, offer, tasks, attempt, metrics>>
    <3>1. flow[w] \in Underway /\ "pause" \in Underway
      BY <1>5 DEF FailAttempt, Underway
    <3>2. attempt \in [Workflows -> 0..max_retries]
      BY DEF OrchIInv, OrchTypes
    <3>3. QED
      BY <2>1, <3>1, <3>2, WaitingKeeps
  <2>2. CASE attempt[w] >= max_retries /\ EndTask(w, "failed")
    BY <1>5, <2>2, EndTaskKeeps DEF FailAttempt
  <2>3. QED
    BY <1>5, <2>1, <2>2 DEF FailAttempt
<1>6. ASSUME NEW w \in Workflows, Retry(w)
      PROVE  OrchIInv'
  <2>1. /\ flow[w] = "pause" /\ flow' = [flow EXCEPT ![w] = "attempt"]
        /\ attempt' = [attempt EXCEPT ![w] = @ + 1]
        /\ UNCHANGED <<agents, registered, offer, tasks, metrics>>
    BY <1>6 DEF Retry
  <2>2. attempt \in [Workflows -> 0..max_retries] /\ attempt[w] < max_retries
    BY <2>1 DEF OrchIInv, OrchTypes, FlowOK
  <2>3. /\ attempt' \in [Workflows -> 0..max_retries]
        /\ \A v \in Workflows \ {w} : attempt'[v] = attempt[v]
    BY <2>1, <2>2, OrchestratorAssumption
  <2>4. flow[w] \in Underway /\ "attempt" \in Underway
    BY <2>1 DEF Underway
  <2>5. QED
    BY <2>1, <2>3, <2>4, WaitingKeeps
<1>7. ASSUME NEW w \in Workflows, CancelWorkflow(w)
      PROVE  OrchIInv'
  <2>1. /\ flow[w] \in Underway /\ "cancelled" \in Underway
        /\ flow' = [flow EXCEPT ![w] = "cancelled"]
        /\ UNCHANGED <<agents, registered, offer, tasks, attempt, metrics>>
    BY <1>7 DEF CancelWorkflow, Underway
  <2>2. attempt \in [Workflows -> 0..max_retries]
    BY DEF OrchIInv, OrchTypes
  <2>3. QED
    BY <2>1, <2>2, WaitingKeeps
<1>8. QED
  BY <1>1, <1>2, <1>3, <1>4, <1>5, <1>6, <1>7 DEF OrchNext

\* The safety part of the specification is enough.
LEMMA OrchAlways == OrchInit /\ [][OrchNext]_orchVars => []OrchInv
BY OrchStarts, OrchStep, OrchIsEnough, PTL

\* An agent registered once is never given to two workflows at a time, nor lost but by a
\* cancelled one; a workflow that is done has a completed or agentless task for every part,
\* and the metrics count the completed ones: for any number of agents and workflows.
THEOREM OrchInvariant == OrchSpec => []OrchInv
BY OrchAlways DEF OrchSpec
=============================================================================

--------------------------- MODULE SessionContext ---------------------------
(***************************************************************************)
(* The session manager (chat_service/agent/session_manager.py): messages   *)
(* of sessions, threads that gather some of them, and the context window   *)
(* that keeps the recent messages and some important older ones.  A        *)
(* message is the number of its creation, which orders timestamps too.     *)
(***************************************************************************)
EXTENDS Naturals, Sequences, FiniteSets, SequencesExt, Ranks

CONSTANTS
    SessionIds,    \* ids sessions are created with
    Topics,        \* topics of messages
    NoTopic,       \* a message without one
    Recent,        \* newest messages of a context, 10
    Older,         \* important older messages of a context, 5
    Window,        \* bound on a context, 20
    Budgets,       \* values of max_token_budget
    MaxNodes,      \* bound on messages
    MaxTitles      \* bound on threads

ASSUME SessionAssumption ==
    /\ Recent \in Nat \ {0}
    /\ Older \in Nat
    /\ Window \in Nat /\ Recent + Older <= Window
    /\ Budgets \subseteq Nat
    /\ NoTopic \notin Topics
    /\ MaxNodes \in Nat /\ MaxTitles \in Nat

VARIABLES
    nodes,      \* MessageNode objects, in the order they were created
    messages,   \* _messages: session id -> its messages
    metadata,   \* _sessions: session id -> message_count, topics, bookmarks
    threads     \* _threads: the messages of each

sessionVars == <<nodes, messages, metadata, threads>>

Importances == {"medium", "high", "critical"}

NoThread == 0

SessionInit ==
    /\ nodes = <<>>
    /\ messages = [s \in {} |-> <<>>]
    /\ metadata = [s \in {} |-> <<>>]
    /\ threads = <<>>

\* create_session, also for an id that exists: its messages are forgotten.
CreateSession(s) ==
    /\ messages' = [x \in DOMAIN messages \cup {s} |-> IF x = s THEN <<>> ELSE messages[x]]
    /\ metadata' = [x \in DOMAIN metadata \cup {s} |->
                       IF x = s THEN [count |-> 0, topics |-> <<>>, bookmarks |-> {}] ELSE metadata[x]]
    /\ UNCHANGED <<nodes, threads>>

\* Mutant: a topic is added with every message.
Noted_Again(topic, topics) == IF topic # NoTopic THEN Append(topics, topic) ELSE topics

Noted(topic, topics) ==
    IF topic # NoTopic /\ \A i \in DOMAIN topics : topics[i] # topic
    THEN Append(topics, topic) ELSE topics

AddMessage(s, importance, topic) ==
    /\ Len(nodes) < MaxNodes
    /\ nodes' = Append(nodes, [importance |-> importance, topic |-> topic, thread |-> NoThread])
    /\ IF s \in DOMAIN messages
       THEN /\ messages' = [messages EXCEPT ![s] = Append(@, Len(nodes) + 1)]
            /\ metadata' = [metadata EXCEPT ![s].count = @ + 1, ![s].topics = Noted(topic, @)]
       ELSE UNCHANGED <<messages, metadata>>
    /\ UNCHANGED threads

\* create_thread: the initial message is taken if it is one of the session.
CreateThread(s, initial) ==
    /\ Len(threads) < MaxTitles
    /\ IF s \in DOMAIN messages /\ initial \in ToSet(messages[s])
       THEN /\ threads' = Append(threads, <<initial>>)
            /\ nodes' = [nodes EXCEPT ![initial].thread = Len(threads) + 1]
       ELSE /\ threads' = Append(threads, <<>>)
            /\ UNCHANGED nodes
    /\ UNCHANGED <<messages, metadata>>

AddToThread(t, n) ==
    /\ t \in DOMAIN threads
    /\ Len(threads[t]) < MaxNodes
    /\ threads' = [threads EXCEPT ![t] = Append(@, n)]
    /\ nodes' = [nodes EXCEPT ![n].thread = t]
    /\ UNCHANGED <<messages, metadata>>

CreateBookmark(s, i) ==
    /\ s \in DOMAIN metadata
    /\ metadata' = [metadata EXCEPT ![s].bookmarks = @ \cup {i}]
    /\ UNCHANGED <<nodes, messages, threads>>

SessionNext ==
    \/ \E s \in SessionIds : CreateSession(s)
    \/ \E s \in SessionIds, importance \in Importances, topic \in Topics \cup {NoTopic} :
         AddMessage(s, importance, topic)
    \/ \E s \in SessionIds, initial \in 0..Len(nodes) : CreateThread(s, initial)
    \/ \E t \in DOMAIN threads, n \in DOMAIN nodes : AddToThread(t, n)
    \/ \E s \in SessionIds : CreateBookmark(s, 1)

SessionSpec == SessionInit /\ [][SessionNext]_sessionVars

-----------------------------------------------------------------------------
(***************************************************************************)
(* get_context_for_inference: the last messages and the first important    *)
(* ones before them, newest first.                                         *)
(***************************************************************************)
Important(n) == nodes[n].importance \in {"high", "critical"}

\* Mutant: the older messages are not cut off where the recent ones begin.
OlderOf_All(list) == list

OlderOf(list) == SubSeq(list, 1, Len(list) - AtMost(Recent, Len(list)))

ImportantOf(list) ==
    LET places == InOrder({i \in DOMAIN list : Important(list[i])})
    IN  [k \in DOMAIN places |-> list[places[k]]]

\* The messages from the newest to the oldest.
NewestFirst(list) == [k \in DOMAIN list |-> list[Falling(list)[k]]]

Context(s) ==
    LET list   == messages[s]
        recent == SubSeq(list, Len(list) - AtMost(Recent, Len(list)) + 1, Len(list))
        older  == ImportantOf(OlderOf(list))
        all    == NewestFirst(recent \o SubSeq(older, 1, AtMost(Older, Len(older))))
    IN  SubSeq(all, 1, AtMost(Window, Len(all)))

\* score_message_importance, of a message that matches some of three patterns.
Score(role, tool, position, total, patterns) ==
      1
    + (IF role = "system" THEN 3 ELSE IF tool THEN 2 ELSE 0)
    + (IF position < 3 \/ position >= total - 3 THEN 2 ELSE 0)
    + patterns

Importance(score) ==
    IF score >= 6 THEN "critical" ELSE IF score >= 4 THEN "high" ELSE
    IF score <= 0 THEN "low" ELSE "medium"

\* compute_token_budget: what the layers leave over goes to the recent one.
Budget(total) ==
    LET system     == AtMost(1000, total \div 4)
        semantic   == AtMost(2000, total \div 4)
        procedural == AtMost(512, total \div 16)
        recent     == AtMost(4000, total \div 2)
        used       == system + semantic + procedural + recent
    IN  [system |-> system, semantic |-> semantic, procedural |-> procedural,
         recent |-> IF total > used THEN recent + (total - used) ELSE recent]

-----------------------------------------------------------------------------
Nodes == [importance : Importances, topic : Topics \cup {NoTopic}, thread : 0..MaxTitles]

SessionTypeOK ==
    /\ nodes \in Seq(Nodes)
    /\ \A s \in DOMAIN messages : messages[s] \in Seq(1..MaxNodes)
    /\ \A t \in DOMAIN threads : threads[t] \in Seq(1..MaxNodes)
    /\ Len(threads) <= MaxTitles

(***************************************************************************)
(* The session's count and topics are those of its messages, and a message *)
(* is in the thread it names.                                              *)
(***************************************************************************)
Kept ==
    /\ DOMAIN metadata = DOMAIN messages
    /\ \A s \in DOMAIN messages :
           /\ metadata[s].count = Len(messages[s])
           /\ IsInjective(metadata[s].topics)
           /\ ToSet(metadata[s].topics) = {nodes[n].topic : n \in ToSet(messages[s])} \ {NoTopic}
    /\ \A n \in DOMAIN nodes : nodes[n].thread # NoThread => n \in ToSet(threads[nodes[n].thread])

(***************************************************************************)
(* A context shows messages once, newest first, all the recent ones, and   *)
(* leaves an important older one out only for as many that are older       *)
(* still.                                                                  *)
(***************************************************************************)
ContextIsRight ==
    \A s \in DOMAIN messages :
        LET c == Context(s)
        IN  /\ \A i, j \in DOMAIN c : i < j => c[i] > c[j]
            /\ \A i \in DOMAIN messages[s] :
                 LET n == messages[s][i]
                 IN  n \notin ToSet(c) =>
                        /\ i <= Len(messages[s]) - Recent
                        /\ Important(n) =>
                              Cardinality({k \in DOMAIN c : c[k] < n /\ Important(c[k])}) >= Older

(***************************************************************************)
(* No message scores low, a system message always scores high; a budget is *)
(* spent to the last token, or overrun by a sixteenth at most: the layers' *)
(* shares add up to more than one.                                         *)
(***************************************************************************)
ScoresAndBudgets ==
    /\ \A role \in {"system", "user"}, tool \in BOOLEAN, total \in 1..8, patterns \in 0..3 :
         \A position \in 0..(total - 1) :
           LET importance == Importance(Score(role, tool, position, total, patterns))
           IN  /\ importance # "low"
               /\ role = "system" => importance \in {"high", "critical"}
    /\ \A total \in Budgets :
         LET b == Budget(total)
             spent == b.system + b.semantic + b.procedural + b.recent
         IN  total <= spent /\ spent <= total + total \div 16

\* Scores and budgets are functions of their arguments: one look is enough.
SessionInv ==
    /\ SessionTypeOK /\ Kept /\ ContextIsRight
    /\ nodes = <<>> => ScoresAndBudgets
=============================================================================

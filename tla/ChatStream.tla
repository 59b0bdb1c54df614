----------------------------- MODULE ChatStream -----------------------------
(***************************************************************************)
(* The streaming chat endpoints of the chat service: event_generator and   *)
(* its shielded _consume_stream task (chat_service/routes/chat.py), the    *)
(* WebSocket variant (routes/ws_chat.py), the token push of                *)
(* llm_generate_node, and the per-thread Redis lock they share.            *)
(*                                                                         *)
(* asyncio runs one task at a time and switches only at an await, so one   *)
(* action is the code between two awaits.  The graph that a request runs   *)
(* is any series of node updates, of which at most one is llm_generate's.  *)
(***************************************************************************)
EXTENDS Naturals, Sequences

CONSTANTS
    Requests,     \* chat requests
    WsRequests,   \* the requests that came over /v1/chat/ws
    Threads,      \* conversations
    Procs,        \* chat-service processes (replicas)
    NoReq,        \* "no request"
    Diffs,        \* what a node's update may carry
    MaxTokens,    \* bound on the tokens of one LLM answer
    MaxUpdates,   \* bound on the updates of nodes other than llm_generate
    Faults        \* which faults may happen

AllFaults == {"deny", "expire", "disconnect", "cut", "redis", "crash", "error"}

AllDiffs == [resp : BOOLEAN, corr : BOOLEAN, usage : BOOLEAN]

ASSUME ChatAssumption ==
    /\ WsRequests \subseteq Requests
    /\ NoReq \notin Requests
    /\ Diffs \subseteq AllDiffs
    /\ MaxTokens \in Nat
    /\ MaxUpdates \in Nat
    /\ Faults \subseteq AllFaults

VARIABLES
    thread,     \* conversation of each request
    proc,       \* process that serves each request
    lock,       \* Redis: owner token of cuckoo:lock:{thread_id}
    attached,   \* per process: stream_chat_completion._token_queue
    gen,        \* per request: position in event_generator / chat_websocket
    run,        \* per request: position of the graph run
    captured,   \* per request: token_queue that llm_generate_node picked up
    tokens,     \* per request: tokens the LLM has produced
    updates,    \* per request: node updates seen
    sent,       \* per request: response_sent
    used,       \* per request: tokens_used > 0
    queue,      \* per request: its asyncio.Queue
    out,        \* per request: what the client received
    billed,     \* per request: usage records written
    gone,       \* requests whose client disconnected
    expired,    \* requests whose lock ran out before they released it
    disturbed   \* requests that shared their process with another live run

rigid   == <<thread, proc>>
runVars == <<run, captured, tokens, updates, sent, used>>
vars    == <<rigid, lock, attached, gen, runVars, queue, out, billed,
             gone, expired, disturbed>>

Item(kind, r, n) == [kind |-> kind, of |-> r, n |-> n]

Running == {"scheduled", "graph", "llm", "post"}

Live(r) == run[r] \in Running

Init ==
    /\ thread \in [Requests -> Threads]
    /\ proc \in [Requests -> Procs]
    /\ lock = [t \in Threads |-> NoReq]
    /\ attached = [p \in Procs |-> NoReq]
    /\ gen = [r \in Requests |-> "new"]
    /\ run = [r \in Requests |-> "none"]
    /\ captured = [r \in Requests |-> NoReq]
    /\ tokens = [r \in Requests |-> 0]
    /\ updates = [r \in Requests |-> 0]
    /\ sent = [r \in Requests |-> FALSE]
    /\ used = [r \in Requests |-> FALSE]
    /\ queue = [r \in Requests |-> <<>>]
    /\ out = [r \in Requests |-> <<>>]
    /\ billed = [r \in Requests |-> 0]
    /\ gone = {}
    /\ expired = {}
    /\ disturbed = {}

(***************************************************************************)
(* Admission: the message limit is checked before the lock is tried; the   *)
(* WebSocket endpoint has no such check.                                   *)
(***************************************************************************)
Admit(r) ==
    /\ r \notin WsRequests
    /\ gen[r] = "new"
    /\ gen' = [gen EXCEPT ![r] = "admitted"]
    /\ UNCHANGED <<rigid, lock, attached, runVars, queue, out, billed,
                   gone, expired, disturbed>>

\* The limit is exceeded, or check_limit raises and the stream just ends.
Deny(r) ==
    /\ "deny" \in Faults
    /\ r \notin WsRequests
    /\ gen[r] = "new"
    /\ gen' = [gen EXCEPT ![r] = "exit"]
    /\ \/ out' = [out EXCEPT ![r] = <<Item("limit", r, 0), Item("done", r, 0)>>]
       \/ UNCHANGED out
    /\ UNCHANGED <<rigid, lock, attached, runVars, queue, billed,
                   gone, expired, disturbed>>

ReadyToLock(r) ==
    IF r \in WsRequests THEN gen[r] = "new" ELSE gen[r] = "admitted"

\* The runs of r's process that are under way when r starts its own.
Neighbours(r) == {q \in Requests : q # r /\ proc[q] = proc[r] /\ Live(q)}

\* Mutant: the lock is taken without NX.
Acquire_NoCheck(r) ==
    /\ ReadyToLock(r)
    /\ lock' = [lock EXCEPT ![thread[r]] = r]
    /\ gen' = [gen EXCEPT ![r] = "loop"]
    /\ run' = [run EXCEPT ![r] = IF r \in WsRequests THEN "graph" ELSE "scheduled"]
    /\ disturbed' = IF Neighbours(r) = {} THEN disturbed
                    ELSE disturbed \cup Neighbours(r) \cup {r}
    /\ UNCHANGED <<rigid, attached, captured, tokens, updates, sent, used, queue,
                   out, billed, gone, expired>>

\* lock.acquire(blocking=False) is SET NX PX: the key becomes r's token.
\* The SSE generator then creates the shielded consumer task; the WebSocket
\* handler iterates over the graph itself.
Acquire(r) ==
    /\ ReadyToLock(r)
    /\ lock[thread[r]] = NoReq
    /\ lock' = [lock EXCEPT ![thread[r]] = r]
    /\ gen' = [gen EXCEPT ![r] = "loop"]
    /\ run' = [run EXCEPT ![r] = IF r \in WsRequests THEN "graph" ELSE "scheduled"]
    /\ disturbed' = IF Neighbours(r) = {} THEN disturbed
                    ELSE disturbed \cup Neighbours(r) \cup {r}
    /\ UNCHANGED <<rigid, attached, captured, tokens, updates, sent, used, queue,
                   out, billed, gone, expired>>

\* CONCURRENT_REQUEST: the SSE stream ends without [DONE].
Refuse(r) ==
    /\ ReadyToLock(r)
    /\ lock[thread[r]] # NoReq
    /\ gen' = [gen EXCEPT ![r] = "exit"]
    /\ out' = [out EXCEPT ![r] = <<Item("concurrent", r, 0)>>]
    /\ UNCHANGED <<rigid, lock, attached, runVars, queue, billed,
                   gone, expired, disturbed>>

(***************************************************************************)
(* _consume_stream.                                                        *)
(***************************************************************************)
Put(q, item) == queue' = [queue EXCEPT ![q] = Append(@, item)]

\* Mutant: the queue is never attached.
ConsumerStart_NoAttach(r) ==
    /\ run[r] = "scheduled"
    /\ run' = [run EXCEPT ![r] = "graph"]
    /\ UNCHANGED <<rigid, lock, attached, gen, captured, tokens, updates, sent,
                   used, queue, out, billed, gone, expired, disturbed>>

\* The task's first step attaches its queue to the module-level function.
ConsumerStart(r) ==
    /\ run[r] = "scheduled"
    /\ run' = [run EXCEPT ![r] = "graph"]
    /\ attached' = [attached EXCEPT ![proc[r]] = r]
    /\ UNCHANGED <<rigid, lock, gen, captured, tokens, updates, sent, used,
                   queue, out, billed, gone, expired, disturbed>>

\* One update: the whole answer goes to the queue when it comes from a node
\* other than llm_generate and the queue is empty, and counts as sent either
\* way; a correction always goes to the queue.  The WebSocket handler waits
\* for chat-model events, which litellm never emits, and drops every update.
HandleUpdate(r, fromLlm, d) ==
    LET first == d.resp /\ ~sent[r]
        whole == first /\ ~fromLlm /\ queue[r] = <<>>
        q1    == IF whole THEN Append(queue[r], Item("full", r, 0)) ELSE queue[r]
        q2    == IF d.corr THEN Append(q1, Item("corr", r, 0)) ELSE q1
    IN  IF r \in WsRequests
        THEN UNCHANGED <<queue, sent, used>>
        ELSE /\ queue' = [queue EXCEPT ![r] = q2]
             /\ sent' = [sent EXCEPT ![r] = @ \/ d.resp]
             /\ used' = [used EXCEPT ![r] = @ \/ d.usage]

NodeUpdate(r, d) ==
    /\ run[r] \in {"graph", "post"}
    /\ updates[r] < MaxUpdates
    /\ updates' = [updates EXCEPT ![r] = @ + 1]
    /\ HandleUpdate(r, FALSE, d)
    /\ UNCHANGED <<rigid, lock, attached, gen, run, captured, tokens, out,
                   billed, gone, expired, disturbed>>

(***************************************************************************)
(* llm_generate_node: it picks up whatever queue is attached at that       *)
(* moment, and keeps it for the whole answer.                              *)
(***************************************************************************)
LlmStart(r) ==
    /\ run[r] = "graph"
    /\ run' = [run EXCEPT ![r] = "llm"]
    /\ captured' = [captured EXCEPT ![r] = attached[proc[r]]]
    /\ UNCHANGED <<rigid, lock, attached, gen, tokens, updates, sent, used, queue,
                   out, billed, gone, expired, disturbed>>

LlmToken(r) ==
    /\ run[r] = "llm"
    /\ tokens[r] < MaxTokens
    /\ tokens' = [tokens EXCEPT ![r] = @ + 1]
    /\ IF captured[r] = NoReq
       THEN UNCHANGED queue
       ELSE Put(captured[r], Item("tok", r, tokens[r] + 1))
    /\ UNCHANGED <<rigid, lock, attached, gen, run, captured, updates, sent, used,
                   out, billed, gone, expired, disturbed>>

\* The node's update.  llm_response is the text collected, or the apology
\* when the call failed, possibly after some tokens.
LlmUpdate(r, failed, d) ==
    /\ run[r] = "llm"
    /\ failed => "error" \in Faults
    /\ d.resp = (failed \/ tokens[r] > 0)
    /\ run' = [run EXCEPT ![r] = "post"]
    /\ HandleUpdate(r, TRUE, d)
    /\ UNCHANGED <<rigid, lock, attached, gen, captured, tokens, updates, out,
                   billed, gone, expired, disturbed>>

\* Mutant: only a run that ended well detaches its queue.
ConsumerEnd_DetachOnlyOnSuccess(r, ok) ==
    /\ run' = [run EXCEPT ![r] = "done"]
    /\ attached' = IF ok THEN [attached EXCEPT ![proc[r]] = NoReq] ELSE attached
    /\ queue' = [queue EXCEPT ![r] =
                    (IF ok \/ sent[r] THEN @ ELSE Append(@, Item("sorry", r, 0)))
                        \o <<Item("end", r, 0)>>]

\* Mutant: a run that failed forgets the sentinel.
ConsumerEnd_NoSentinel(r, ok) ==
    /\ run' = [run EXCEPT ![r] = "done"]
    /\ attached' = [attached EXCEPT ![proc[r]] = NoReq]
    /\ queue' = [queue EXCEPT ![r] =
                    IF ok THEN Append(@, Item("end", r, 0))
                    ELSE IF sent[r] THEN @ ELSE Append(@, Item("sorry", r, 0))]

\* finally: whoever ends detaches the process's queue, then queues the
\* sentinel; an exception first queues an apology if nothing was sent.
ConsumerEnd(r, ok) ==
    /\ run' = [run EXCEPT ![r] = "done"]
    /\ attached' = [attached EXCEPT ![proc[r]] = NoReq]
    /\ queue' = [queue EXCEPT ![r] =
                    (IF ok \/ sent[r] THEN @ ELSE Append(@, Item("sorry", r, 0)))
                        \o <<Item("end", r, 0)>>]

ConsumerFinish(r) ==
    /\ r \notin WsRequests
    /\ run[r] \in {"graph", "post"}
    /\ ConsumerEnd(r, TRUE)
    /\ UNCHANGED <<rigid, lock, gen, captured, tokens, updates, sent, used, out,
                   billed, gone, expired, disturbed>>

ConsumerFail(r) ==
    /\ "error" \in Faults
    /\ r \notin WsRequests
    /\ run[r] \in {"graph", "post"}
    /\ ConsumerEnd(r, FALSE)
    /\ UNCHANGED <<rigid, lock, gen, captured, tokens, updates, sent, used, out,
                   billed, gone, expired, disturbed>>

\* chat_websocket: the loop over the graph ends, or raises; in the second
\* case no {"done": true} is sent.
WsEnd(r, ok) ==
    /\ ok \/ "error" \in Faults
    /\ r \in WsRequests
    /\ gen[r] = "loop"
    /\ run[r] \in {"graph", "post"}
    /\ run' = [run EXCEPT ![r] = "done"]
    /\ gen' = [gen EXCEPT ![r] = "closing"]
    /\ out' = IF ok THEN [out EXCEPT ![r] = Append(@, Item("done", r, 0))] ELSE out
    /\ UNCHANGED <<rigid, lock, attached, captured, tokens, updates, sent, used,
                   queue, billed, gone, expired, disturbed>>

(***************************************************************************)
(* event_generator: the loop over the queue and its finally block.         *)
(***************************************************************************)
Yield(r) ==
    /\ gen[r] = "loop"
    /\ queue[r] # <<>>
    /\ Head(queue[r]).kind # "end"
    /\ out' = [out EXCEPT ![r] = Append(@, Head(queue[r]))]
    /\ queue' = [queue EXCEPT ![r] = Tail(@)]
    /\ UNCHANGED <<rigid, lock, attached, gen, runVars, billed,
                   gone, expired, disturbed>>

\* Mutant: the stream is closed as soon as the queue runs empty.
StreamDone_WhenEmpty(r) ==
    /\ r \notin WsRequests
    /\ gen[r] = "loop"
    /\ queue[r] = <<>>
    /\ out' = [out EXCEPT ![r] = Append(@, Item("done", r, 0))]
    /\ gen' = [gen EXCEPT ![r] = "closing"]
    /\ UNCHANGED <<rigid, lock, attached, runVars, queue, billed,
                   gone, expired, disturbed>>

\* The sentinel: the task has ended too, so awaiting it does not wait.
StreamDone(r) ==
    /\ gen[r] = "loop"
    /\ queue[r] # <<>>
    /\ Head(queue[r]).kind = "end"
    /\ out' = [out EXCEPT ![r] = Append(@, Item("done", r, 0))]
    /\ queue' = [queue EXCEPT ![r] = Tail(@)]
    /\ gen' = [gen EXCEPT ![r] = "closing"]
    /\ UNCHANGED <<rigid, lock, attached, runVars, billed,
                   gone, expired, disturbed>>

\* The client goes away: the generator is cancelled, the shielded task is not.
Disconnect(r) ==
    /\ "disconnect" \in Faults
    /\ r \notin WsRequests
    /\ r \notin gone
    /\ gen[r] \in {"loop", "closing", "billing"}
    /\ gen' = [gen EXCEPT ![r] = IF @ = "loop" THEN "closing" ELSE @]
    /\ gone' = gone \cup {r}
    /\ UNCHANGED <<rigid, lock, attached, runVars, queue, out, billed,
                   expired, disturbed>>

\* It goes away before the try block is entered, perhaps while the SET of the
\* lock is on its way: then the key is set and no finally block releases it.
DisconnectEarly(r) ==
    /\ "disconnect" \in Faults
    /\ r \notin WsRequests
    /\ gen[r] \in {"new", "admitted"}
    /\ gen' = [gen EXCEPT ![r] = "exit"]
    /\ gone' = gone \cup {r}
    /\ \/ UNCHANGED lock
       \/ /\ gen[r] = "admitted"
          /\ "cut" \in Faults
          /\ lock[thread[r]] = NoReq
          /\ lock' = [lock EXCEPT ![thread[r]] = r]
    /\ UNCHANGED <<rigid, attached, runVars, queue, out, billed,
                   expired, disturbed>>

\* Mutant: the key is deleted without comparing the owner's token.
FreeLock_AnyOwner(r) == lock' = [lock EXCEPT ![thread[r]] = NoReq]

\* redis-py deletes the key only if it still holds this request's token;
\* otherwise release raises and the handler goes on.
FreeLock(r) ==
    lock' = [lock EXCEPT ![thread[r]] = IF @ = r THEN NoReq ELSE @]

AfterRelease(r) == IF r \in WsRequests THEN "exit" ELSE "billing"

Release(r) ==
    /\ gen[r] = "closing"
    /\ FreeLock(r)
    /\ gen' = [gen EXCEPT ![r] = AfterRelease(r)]
    /\ UNCHANGED <<rigid, attached, runVars, queue, out, billed,
                   gone, expired, disturbed>>

\* Redis cannot be reached: the failure is logged and the key is left.
ReleaseFails(r) ==
    /\ "redis" \in Faults
    /\ gen[r] = "closing"
    /\ gen' = [gen EXCEPT ![r] = AfterRelease(r)]
    /\ UNCHANGED <<rigid, lock, attached, runVars, queue, out, billed,
                   gone, expired, disturbed>>

\* The cancelled scope of the response cancels the finally block's awaits
\* too: CancelledError is no Exception, so neither lock nor usage is handled.
CutShort(r) ==
    /\ "cut" \in Faults
    /\ r \in gone
    /\ gen[r] \in {"closing", "billing"}
    /\ gen' = [gen EXCEPT ![r] = "exit"]
    /\ UNCHANGED <<rigid, lock, attached, runVars, queue, out, billed,
                   gone, expired, disturbed>>

\* record_usage, when the run reported any tokens up to now.
Bill(r) ==
    /\ gen[r] = "billing"
    /\ gen' = [gen EXCEPT ![r] = "exit"]
    /\ billed' = IF used[r] THEN [billed EXCEPT ![r] = @ + 1] ELSE billed
    /\ UNCHANGED <<rigid, lock, attached, runVars, queue, out,
                   gone, expired, disturbed>>

(***************************************************************************)
(* The environment: the 90 s time-to-live of the lock, and a process that  *)
(* dies with everything it runs.                                           *)
(***************************************************************************)
Expire(t) ==
    /\ "expire" \in Faults
    /\ lock[t] # NoReq
    /\ expired' = expired \cup {lock[t]}
    /\ lock' = [lock EXCEPT ![t] = NoReq]
    /\ UNCHANGED <<rigid, attached, gen, runVars, queue, out, billed,
                   gone, disturbed>>

Crash(p) ==
    LET hit == {r \in Requests : proc[r] = p /\ gen[r] # "new" /\ (gen[r] # "exit" \/ Live(r))}
    IN  /\ "crash" \in Faults
        /\ hit # {}
        /\ gen' = [r \in Requests |-> IF r \in hit THEN "exit" ELSE gen[r]]
        /\ run' = [r \in Requests |-> IF r \in hit THEN "dead" ELSE run[r]]
        /\ attached' = [attached EXCEPT ![p] = NoReq]
        /\ UNCHANGED <<rigid, lock, captured, tokens, updates, sent, used, queue,
                       out, billed, gone, expired, disturbed>>

Handler(r) ==
    \/ Admit(r) \/ Deny(r) \/ Acquire(r) \/ Refuse(r)
    \/ Yield(r) \/ StreamDone(r)
    \/ Release(r) \/ ReleaseFails(r) \/ CutShort(r) \/ Bill(r)

Graph(r) ==
    \/ ConsumerStart(r)
    \/ \E d \in Diffs : NodeUpdate(r, d)
    \/ LlmStart(r)
    \/ LlmToken(r)
    \/ \E failed \in BOOLEAN, d \in Diffs : LlmUpdate(r, failed, d)
    \/ ConsumerFinish(r)
    \/ ConsumerFail(r)
    \/ \E ok \in BOOLEAN : WsEnd(r, ok)

Next ==
    \/ \E r \in Requests : Handler(r) \/ Graph(r) \/ Disconnect(r) \/ DisconnectEarly(r)
    \/ \E t \in Threads : Expire(t)
    \/ \E p \in Procs : Crash(p)

Spec == Init /\ [][Next]_vars

(***************************************************************************)
(* Fairness: the event loop runs every ready task, the LLM call ends (it   *)
(* answers or raises), and Redis honours the key's time-to-live.           *)
(***************************************************************************)
FairSpec ==
    /\ Spec
    /\ \A r \in Requests : WF_vars(Handler(r)) /\ WF_vars(Graph(r))
    /\ \A t \in Threads : WF_vars(Expire(t))
-----------------------------------------------------------------------------
(***************************************************************************)
(* Properties                                                              *)
(***************************************************************************)
Items == [kind : {"tok", "full", "corr", "sorry", "end", "done", "limit", "concurrent"},
          of : Requests, n : Nat]

TypeOK ==
    /\ thread \in [Requests -> Threads]
    /\ proc \in [Requests -> Procs]
    /\ lock \in [Threads -> Requests \cup {NoReq}]
    /\ attached \in [Procs -> Requests \cup {NoReq}]
    /\ gen \in [Requests -> {"new", "admitted", "loop", "closing", "billing", "exit"}]
    /\ run \in [Requests -> Running \cup {"none", "done", "dead"}]
    /\ captured \in [Requests -> Requests \cup {NoReq}]
    /\ tokens \in [Requests -> Nat]
    /\ updates \in [Requests -> Nat]
    /\ sent \in [Requests -> BOOLEAN]
    /\ used \in [Requests -> BOOLEAN]
    /\ queue \in [Requests -> Seq(Items)]
    /\ out \in [Requests -> Seq(Items)]
    /\ billed \in [Requests -> Nat]
    /\ gone \subseteq Requests
    /\ expired \subseteq Requests
    /\ disturbed \subseteq Requests

\* The lock serialises the runs of a conversation as long as nobody loses it:
\* two graph runs work on one thread's checkpoint at the same time only if the
\* client of one has disconnected (its shielded task goes on, its lock does
\* not) or the 90 s of one have run out.
SerialUnlessLost ==
    \A r, q \in Requests :
        r # q /\ thread[r] = thread[q] /\ Live(r) /\ Live(q)
            => {r, q} \cap (gone \cup expired) # {}

\* A queue stays attached to stream_chat_completion only while the run that
\* attached it is under way, however that run ends, so that a WebSocket run
\* never feeds a stream that is over.
AttachedIsLive ==
    \A p \in Procs : attached[p] # NoReq =>
        /\ run[attached[p]] \in {"graph", "llm", "post"}
        /\ proc[attached[p]] = p
        /\ attached[p] \notin WsRequests

\* What makes these two inductive.  A run whose request lost nothing still
\* holds the lock, and its generator waits for it; a run does not exist before
\* the lock; the sentinel is queued only when the run is over; a WebSocket run
\* has no task of its own.
HoldsLock ==
    \A r \in Requests :
        Live(r) /\ r \notin gone \cup expired => lock[thread[r]] = r

LoopUntilDone ==
    \A r \in Requests : Live(r) /\ r \notin gone => gen[r] = "loop"

NoRunBeforeLock ==
    \A r \in Requests : gen[r] \in {"new", "admitted"} => run[r] = "none"

EndAfterRun ==
    \A r \in Requests : \A i \in DOMAIN queue[r] :
        queue[r][i].kind = "end" => ~Live(r) /\ run[r] # "none"

WsInline == \A r \in WsRequests : run[r] # "scheduled" /\ r \notin gone

ChatInv ==
    /\ TypeOK
    /\ HoldsLock
    /\ LoopUntilDone
    /\ NoRunBeforeLock
    /\ EndAfterRun
    /\ WsInline
    /\ AttachedIsLive

\* The tokens among the items s are those of r's own answer of n tokens, once
\* each and in their order.
Exact(s, r, n) ==
    /\ \A i \in DOMAIN s : s[i].kind = "tok" => s[i].of = r /\ s[i].n \in 1..n
    /\ \A k \in 1..n : \E i \in DOMAIN s : s[i] = Item("tok", r, k)
    /\ \A i, j \in DOMAIN s :
          i < j /\ s[i].kind = "tok" /\ s[j].kind = "tok" => s[i].n < s[j].n

\* A stream whose run never shared its process with another one delivers the
\* whole answer, in order and before [DONE], and no token of anybody else.
UndisturbedIsExact ==
    \A r \in Requests \ WsRequests :
        /\ r \notin disturbed
        /\ r \notin gone
        /\ gen[r] \in {"closing", "billing", "exit"}
        /\ run[r] = "done"
        => /\ Exact(out[r], r, tokens[r])
           /\ \A i \in DOMAIN out[r] : out[r][i].kind = "done" <=> i = Len(out[r])

\* A client is charged only for a run that is over or that it walked away
\* from, and once: record_usage follows the end of the stream.
BilledAfterRun ==
    \A r \in Requests :
        billed[r] > 0 => billed[r] = 1 /\ used[r] /\ (Live(r) => r \in gone)

(***************************************************************************)
(* The requests as the turns of a conversation that ThreadTurns describes: *)
(* a turn is at work while its graph runs, whether or not its generator    *)
(* still waits for it.                                                     *)
(***************************************************************************)
Phase(r) ==
    IF Live(r) THEN "working"
    ELSE IF gen[r] \in {"new", "admitted"} THEN "waiting" ELSE "over"

Chat == INSTANCE ThreadTurns WITH
    Turns <- Requests,
    Conversations <- Threads,
    conversation <- thread,
    phase <- [r \in Requests |-> Phase(r)],
    left <- gone,
    late <- expired,
    spent <- {r \in Requests : used[r]},
    charges <- billed

\* Lock, queue, shielded task and generator, with every fault, do what
\* ThreadTurns promises: a run begins only when each other one on its
\* conversation has ended or lost its lock, none begins twice or after its
\* client has gone, and record_usage is reached once, for a run that is over
\* or that its client walked away from.
TurnsKept == Chat!TurnsSpec

\* The sentinel of _consume_stream: a stream that got the lock is closed in
\* the end, whatever its run does, unless its process dies.
StreamEnds == \A r \in Requests : gen[r] = "loop" ~> gen[r] = "exit"

\* No conversation stays locked by a request for ever.
LockFreed ==
    \A r \in Requests : lock[thread[r]] = r ~> lock[thread[r]] # r

\* A stream ends, and leaves its conversation free for the next request.
StreamsAndLocksEnd == StreamEnds /\ LockFreed

\* chat.py:86: the tokens of a stream are those of its own request.
TokensOwn ==
    \A r \in Requests : \A i \in DOMAIN out[r] :
        out[r][i].kind = "tok" => out[r][i].of = r
=============================================================================

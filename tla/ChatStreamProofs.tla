-------------------------- MODULE ChatStreamProofs --------------------------
(***************************************************************************)
(* ChatStream: the per-thread lock serialises the runs of a conversation   *)
(* as long as nobody loses it, and a token queue stays attached only while *)
(* its run is under way, for any number of requests, conversations,        *)
(* processes and tokens, and any of the faults; a run is billed once at    *)
(* most, when it is over or its client has gone; the requests take turns   *)
(* as ThreadTurns says; and a stream no other run disturbed delivers its   *)
(* own answer exactly.                                                     *)
(***************************************************************************)
EXTENDS ChatStream, SequenceTheorems, TLAPS

(***************************************************************************)
(* Helpers: what the shared pieces of the actions do to the queues.        *)
(***************************************************************************)
\* Any item of a request is an item; only the sentinel has kind "end".
LEMMA ItemType ==
    ASSUME NEW r \in Requests, NEW n \in Nat,
           NEW k \in {"tok", "full", "corr", "sorry", "end", "done", "limit", "concurrent"}
    PROVE  /\ Item(k, r, n) \in Items
           /\ Item(k, r, n).kind = k
  BY DEF Item, Items

\* HandleUpdate keeps the types and queues no sentinel.
LEMMA HandleUpdateFacts ==
    ASSUME TypeOK, NEW r \in Requests, NEW llm \in BOOLEAN, NEW d \in AllDiffs,
           HandleUpdate(r, llm, d)
    PROVE  /\ queue' \in [Requests -> Seq(Items)]
           /\ sent' \in [Requests -> BOOLEAN]
           /\ used' \in [Requests -> BOOLEAN]
           /\ \A q \in Requests : \A i \in DOMAIN queue'[q] :
                 queue'[q][i].kind = "end" =>
                    \E j \in DOMAIN queue[q] : queue[q][j].kind = "end"
<1> DEFINE q0 == queue[r]
           first == d.resp /\ ~sent[r]
           whole == first /\ ~llm /\ q0 = <<>>
           q1 == IF whole THEN Append(q0, Item("full", r, 0)) ELSE q0
           q2 == IF d.corr THEN Append(q1, Item("corr", r, 0)) ELSE q1
<1>1. d.resp \in BOOLEAN /\ d.usage \in BOOLEAN
  BY DEF AllDiffs
<1>2. CASE r \in WsRequests
  BY <1>2 DEF HandleUpdate, TypeOK
<1>3. CASE r \notin WsRequests
  <2>1. /\ queue' = [queue EXCEPT ![r] = q2]
        /\ sent' = [sent EXCEPT ![r] = @ \/ d.resp]
        /\ used' = [used EXCEPT ![r] = @ \/ d.usage]
    BY <1>3 DEF HandleUpdate
  <2>2. q0 \in Seq(Items)
    BY DEF TypeOK
  <2>3. /\ Item("full", r, 0) \in Items
        /\ Item("corr", r, 0) \in Items
        /\ Item("full", r, 0).kind # "end"
        /\ Item("corr", r, 0).kind # "end"
    BY ItemType
  <2>4. /\ q1 \in Seq(Items)
        /\ \A i \in DOMAIN q1 : q1[i].kind = "end" =>
              \E j \in DOMAIN q0 : q0[j].kind = "end"
    BY <2>2, <2>3
  <2>5. /\ q2 \in Seq(Items)
        /\ \A i \in DOMAIN q2 : q2[i].kind = "end" =>
              \E j \in DOMAIN q0 : q0[j].kind = "end"
    BY <2>2, <2>3, <2>4
  <2> HIDE DEF q2
  <2>6. queue' \in [Requests -> Seq(Items)]
    BY <2>1, <2>5 DEF TypeOK
  <2>7. /\ sent' \in [Requests -> BOOLEAN]
        /\ used' \in [Requests -> BOOLEAN]
    <3>1. (sent[r] \/ d.resp) \in BOOLEAN /\ (used[r] \/ d.usage) \in BOOLEAN
      OBVIOUS
    <3>2. QED
      BY <2>1, <3>1, Zenon DEF TypeOK
  <2>8. \A q \in Requests : \A i \in DOMAIN queue'[q] :
           queue'[q][i].kind = "end" =>
              \E j \in DOMAIN queue[q] : queue[q][j].kind = "end"
    BY <2>1, <2>5 DEF TypeOK
  <2>9. QED
    BY <2>6, <2>7, <2>8
<1>4. QED
  BY <1>2, <1>3

\* A request's queue after its run's last step is a queue of items.
LEMMA ConsumerEndFacts ==
    ASSUME TypeOK, NEW r \in Requests, NEW ok \in BOOLEAN, ConsumerEnd(r, ok)
    PROVE  /\ queue' \in [Requests -> Seq(Items)]
           /\ \A q \in Requests \ {r} : queue'[q] = queue[q]
<1> DEFINE q1 == IF ok \/ sent[r] THEN queue[r]
                 ELSE Append(queue[r], Item("sorry", r, 0))
           q2 == q1 \o <<Item("end", r, 0)>>
<1>1. Item("sorry", r, 0) \in Items /\ Item("end", r, 0) \in Items
  BY ItemType
<1>2. queue[r] \in Seq(Items)
  BY DEF TypeOK
<1>3. q1 \in Seq(Items)
  BY <1>1, <1>2
<1>4. q2 \in Seq(Items)
  <2> HIDE DEF q1
  <2>1. <<Item("end", r, 0)>> \in Seq(Items)
    BY <1>1
  <2>2. QED
    BY <1>3, <2>1
<1>5. queue' = [queue EXCEPT ![r] = q2]
  BY DEF ConsumerEnd
<1> HIDE DEF q2
<1>6. QED
  BY <1>4, <1>5 DEF TypeOK

(***************************************************************************)
(* The type invariant.                                                     *)
(***************************************************************************)
LEMMA TypeInit == Init => TypeOK
  BY DEF Init, TypeOK

\* Every step of the generator or the WebSocket handler keeps the types.
LEMMA TypeHandler ==
    ASSUME TypeOK, NEW r \in Requests, Handler(r)
    PROVE  TypeOK'
<1> USE DEF TypeOK, rigid, runVars
<1>1. CASE Admit(r)
  BY <1>1 DEF Admit
<1>2. CASE Deny(r)
  <2>1. <<Item("limit", r, 0), Item("done", r, 0)>> \in Seq(Items)
    BY ItemType
  <2>2. CASE out' = [out EXCEPT ![r] = <<Item("limit", r, 0), Item("done", r, 0)>>]
    BY <1>2, <2>1, <2>2 DEF Deny
  <2>3. CASE UNCHANGED out
    BY <1>2, <2>3 DEF Deny
  <2>4. QED
    BY <1>2, <2>2, <2>3 DEF Deny
<1>3. CASE Acquire(r)
  BY <1>3 DEF Acquire, Running, Neighbours
<1>4. CASE Refuse(r)
  <2>1. <<Item("concurrent", r, 0)>> \in Seq(Items)
    BY ItemType
  <2>2. QED
    BY <1>4, <2>1 DEF Refuse
<1>5. CASE Yield(r)
  <2>1. /\ Head(queue[r]) \in Items
        /\ Tail(queue[r]) \in Seq(Items)
    BY <1>5 DEF Yield
  <2>2. Append(out[r], Head(queue[r])) \in Seq(Items)
    BY <2>1
  <2>3. QED
    BY <1>5, <2>1, <2>2 DEF Yield
<1>6. CASE StreamDone(r)
  <2>1. Tail(queue[r]) \in Seq(Items)
    BY <1>6 DEF StreamDone
  <2>2. Item("done", r, 0) \in Items
    BY ItemType
  <2>3. Append(out[r], Item("done", r, 0)) \in Seq(Items)
    BY <2>2
  <2>4. QED
    BY <1>6, <2>1, <2>3 DEF StreamDone
<1>7. CASE Release(r)
  BY <1>7 DEF Release, FreeLock, AfterRelease
<1>8. CASE ReleaseFails(r)
  BY <1>8 DEF ReleaseFails, AfterRelease
<1>9. CASE CutShort(r)
  BY <1>9 DEF CutShort
<1>10. CASE Bill(r)
  BY <1>10 DEF Bill
<1>11. QED
  BY <1>1, <1>2, <1>3, <1>4, <1>5, <1>6, <1>7, <1>8, <1>9, <1>10 DEF Handler

\* So does every step of the graph run.
LEMMA TypeGraph ==
    ASSUME TypeOK, NEW r \in Requests, Graph(r)
    PROVE  TypeOK'
<1> USE ChatAssumption
<1>1. CASE ConsumerStart(r)
  BY <1>1 DEF TypeOK, rigid, runVars, ConsumerStart, Running
<1>2. ASSUME NEW d \in Diffs, NodeUpdate(r, d) PROVE TypeOK'
  <2>1. d \in AllDiffs /\ HandleUpdate(r, FALSE, d)
    BY <1>2 DEF NodeUpdate
  <2>2. /\ queue' \in [Requests -> Seq(Items)]
        /\ sent' \in [Requests -> BOOLEAN]
        /\ used' \in [Requests -> BOOLEAN]
    BY <2>1, HandleUpdateFacts
  <2>3. updates' \in [Requests -> Nat]
    BY <1>2 DEF TypeOK, NodeUpdate
  <2>4. UNCHANGED <<thread, proc, lock, attached, gen, run, captured, tokens, out,
                    billed, gone, expired, disturbed>>
    BY <1>2 DEF rigid, NodeUpdate
  <2>5. QED
    BY <2>2, <2>3, <2>4 DEF TypeOK
<1>3. CASE LlmStart(r)
  BY <1>3 DEF TypeOK, rigid, LlmStart, Running
<1>4. CASE LlmToken(r)
  <2>1. queue' \in [Requests -> Seq(Items)]
    <3>1. CASE captured[r] = NoReq
      BY <1>4, <3>1 DEF LlmToken, TypeOK
    <3>2. CASE captured[r] # NoReq
      <4>1. captured[r] \in Requests
        BY <3>2 DEF TypeOK
      <4>2. Item("tok", r, tokens[r] + 1) \in Items
        BY ItemType DEF TypeOK
      <4>3. Append(queue[captured[r]], Item("tok", r, tokens[r] + 1)) \in Seq(Items)
        BY <4>1, <4>2 DEF TypeOK
      <4>4. QED
        BY <1>4, <3>2, <4>1, <4>3 DEF LlmToken, Put, TypeOK
    <3>3. QED
      BY <3>1, <3>2
  <2>2. tokens' \in [Requests -> Nat]
    BY <1>4 DEF TypeOK, LlmToken
  <2>3. UNCHANGED <<thread, proc, lock, attached, gen, run, captured, updates,
                    sent, used, out, billed, gone, expired, disturbed>>
    BY <1>4 DEF rigid, LlmToken
  <2>4. QED
    BY <2>1, <2>2, <2>3 DEF TypeOK
<1>5. ASSUME NEW failed \in BOOLEAN, NEW d \in Diffs, LlmUpdate(r, failed, d)
      PROVE  TypeOK'
  <2>1. d \in AllDiffs /\ HandleUpdate(r, TRUE, d)
    BY <1>5 DEF LlmUpdate
  <2>2. /\ queue' \in [Requests -> Seq(Items)]
        /\ sent' \in [Requests -> BOOLEAN]
        /\ used' \in [Requests -> BOOLEAN]
    BY <2>1, HandleUpdateFacts
  <2>3. QED
    BY <1>5, <2>2 DEF TypeOK, rigid, LlmUpdate, Running
<1>6. ASSUME NEW ok \in BOOLEAN, ConsumerEnd(r, ok),
             UNCHANGED <<rigid, lock, gen, captured, tokens, updates, sent, used,
                         out, billed, gone, expired, disturbed>>
      PROVE  TypeOK'
  <2>1. queue' \in [Requests -> Seq(Items)]
    BY <1>6, ConsumerEndFacts
  <2>2. QED
    BY <1>6, <2>1 DEF TypeOK, rigid, ConsumerEnd
<1>7. ASSUME NEW ok \in BOOLEAN, WsEnd(r, ok) PROVE TypeOK'
  <2>1. Append(out[r], Item("done", r, 0)) \in Seq(Items)
    BY ItemType DEF TypeOK
  <2>2. out' \in [Requests -> Seq(Items)]
    BY <1>7, <2>1 DEF WsEnd, TypeOK
  <2>3. QED
    BY <1>7, <2>2 DEF TypeOK, rigid, WsEnd
<1>8. CASE ConsumerFinish(r)
  BY <1>8, <1>6 DEF ConsumerFinish
<1>9. CASE ConsumerFail(r)
  BY <1>9, <1>6 DEF ConsumerFail
<1>10. QED
  BY <1>1, <1>2, <1>3, <1>4, <1>5, <1>7, <1>8, <1>9 DEF Graph

\* Clients, the clock of Redis and dying processes keep them too.
LEMMA TypeStep == TypeOK /\ [Next]_vars => TypeOK'
<1> SUFFICES ASSUME TypeOK, [Next]_vars PROVE TypeOK'
  OBVIOUS
<1> USE DEF TypeOK, rigid, runVars
<1>1. ASSUME NEW r \in Requests, Disconnect(r) PROVE TypeOK'
  BY <1>1 DEF Disconnect
<1>2. ASSUME NEW r \in Requests, DisconnectEarly(r) PROVE TypeOK'
  BY <1>2 DEF DisconnectEarly
<1>3. ASSUME NEW t \in Threads, Expire(t) PROVE TypeOK'
  BY <1>3 DEF Expire
<1>4. ASSUME NEW p \in Procs, Crash(p) PROVE TypeOK'
  BY <1>4 DEF Crash
<1>5. CASE UNCHANGED vars
  BY <1>5 DEF vars
<1>6. QED
  BY <1>1, <1>2, <1>3, <1>4, <1>5, TypeHandler, TypeGraph DEF Next

(***************************************************************************)
(* The lock.  A request keeps its lock until its generator reaches the     *)
(* finally block, and without a disconnect it gets there only through the  *)
(* sentinel, which the run queues as its last act.                         *)
(***************************************************************************)
Rest == HoldsLock /\ LoopUntilDone /\ NoRunBeforeLock /\ EndAfterRun
            /\ WsInline /\ AttachedIsLive

\* Before any request the other parts hold trivially: nothing runs.
LEMMA RestInit == Init => Rest
  BY ChatAssumption DEF Init, Rest, HoldsLock, LoopUntilDone, NoRunBeforeLock, EndAfterRun,
         WsInline, AttachedIsLive, Live, Running

\* The steps of a request's handler.
LEMMA RestHandler ==
    ASSUME ChatInv, NEW r \in Requests, Handler(r)
    PROVE  Rest'
<1> USE DEF ChatInv, TypeOK, Rest, HoldsLock, LoopUntilDone, NoRunBeforeLock,
            EndAfterRun, WsInline, AttachedIsLive, Live, Running, rigid, runVars
<1>1. CASE Admit(r)
  BY <1>1 DEF Admit
<1>2. CASE Deny(r)
  BY <1>2 DEF Deny
<1>3. CASE Acquire(r)
  <2>1. run[r] = "none"
    BY <1>3 DEF Acquire, ReadyToLock
  <2>2. HoldsLock'
    BY <1>3, <2>1, ChatAssumption DEF Acquire
  <2>3. LoopUntilDone' /\ NoRunBeforeLock'
    <3>1. /\ gen' = [gen EXCEPT ![r] = "loop"]
          /\ \A q \in Requests \ {r} : run'[q] = run[q]
          /\ gone' = gone
      BY <1>3 DEF Acquire
    <3>2. \A q \in Requests \ {r} : gen'[q] = gen[q]
      BY <3>1
    <3>3. gen'[r] = "loop"
      BY <3>1
    <3>4. QED
      BY <3>1, <3>2, <3>3
  <2>4. WsInline'
    BY <1>3, <2>1, ChatAssumption DEF Acquire
  <2>5. EndAfterRun'
    BY <1>3, <2>1 DEF Acquire
  <2>6. AttachedIsLive'
    BY <1>3, <2>1 DEF Acquire
  <2>7. QED
    BY <2>2, <2>3, <2>4, <2>5, <2>6
<1>4. CASE Refuse(r)
  BY <1>4 DEF Refuse, ReadyToLock
<1>5. CASE Yield(r)
  <2>1. EndAfterRun'
    <3>1. \A i \in DOMAIN Tail(queue[r]) : Tail(queue[r])[i] = queue[r][i + 1]
                                          /\ i + 1 \in DOMAIN queue[r]
      BY <1>5 DEF Yield
    <3>2. QED
      BY <1>5, <3>1 DEF Yield
  <2>2. QED
    BY <1>5, <2>1 DEF Yield
<1>6. CASE StreamDone(r)
  <2>1. ~Live(r)
    <3>1. 1 \in DOMAIN queue[r] /\ queue[r][1].kind = "end"
      BY <1>6 DEF StreamDone
    <3>2. QED
      BY <3>1
  <2>2. EndAfterRun'
    <3>1. \A i \in DOMAIN Tail(queue[r]) : Tail(queue[r])[i] = queue[r][i + 1]
                                          /\ i + 1 \in DOMAIN queue[r]
      BY <1>6 DEF StreamDone
    <3>2. QED
      BY <1>6, <3>1 DEF StreamDone
  <2>3. QED
    BY <1>6, <2>1, <2>2 DEF StreamDone
<1>7. CASE Release(r)
  <2>1. Live(r) => r \in gone
    BY <1>7 DEF Release
  <2>2. QED
    BY <1>7, <2>1 DEF Release, FreeLock, AfterRelease
<1>8. CASE ReleaseFails(r)
  BY <1>8 DEF ReleaseFails, AfterRelease
<1>9. CASE CutShort(r)
  BY <1>9 DEF CutShort
<1>10. CASE Bill(r)
  BY <1>10 DEF Bill
<1>11. QED
  BY <1>1, <1>2, <1>3, <1>4, <1>5, <1>6, <1>7, <1>8, <1>9, <1>10, Zenon DEF Handler

\* A run that goes on, queues no sentinel and stays attached keeps the rest.
LEMMA RestRunGoesOn ==
    ASSUME ChatInv, NEW r \in Requests, NEW v \in {"graph", "llm", "post"},
           run[r] \in {"graph", "llm", "post"},
           run' = [run EXCEPT ![r] = v],
           UNCHANGED <<rigid, lock, attached, gen, gone, expired>>,
           \A q \in Requests : \A i \in DOMAIN queue'[q] :
              queue'[q][i].kind = "end" =>
                 \E j \in DOMAIN queue[q] : queue[q][j].kind = "end"
    PROVE  Rest'
<1> USE DEF ChatInv, TypeOK, Rest, Live, Running, rigid
<1>1. /\ \A q \in Requests : Live(q)' => Live(q)
      /\ \A q \in Requests : run'[q] = "none" => run[q] = "none"
      /\ \A q \in Requests : Live(q) => Live(q)'
  OBVIOUS
<1>2. HoldsLock'
  BY <1>1 DEF HoldsLock
<1>3. LoopUntilDone'
  BY <1>1 DEF LoopUntilDone
<1>4. NoRunBeforeLock'
  BY DEF NoRunBeforeLock
<1>5. EndAfterRun'
  BY <1>1 DEF EndAfterRun
<1>6. WsInline'
  BY ChatAssumption DEF WsInline
<1>7. AttachedIsLive'
  BY DEF AttachedIsLive
<1>8. QED
  BY <1>2, <1>3, <1>4, <1>5, <1>6, <1>7

\* The steps of a graph run.
LEMMA RestGraph ==
    ASSUME ChatInv, NEW r \in Requests, Graph(r)
    PROVE  Rest'
<1> USE ChatAssumption
<1>1. CASE ConsumerStart(r)
  <2> USE DEF ChatInv, TypeOK, Live, Running, rigid
  <2>1. /\ run[r] = "scheduled"
        /\ run' = [run EXCEPT ![r] = "graph"]
        /\ attached' = [attached EXCEPT ![proc[r]] = r]
        /\ UNCHANGED <<thread, proc, lock, gen, queue, gone, expired>>
    BY <1>1 DEF ConsumerStart
  <2>2. HoldsLock' /\ LoopUntilDone'
    BY <2>1 DEF HoldsLock, LoopUntilDone
  <2>3. NoRunBeforeLock' /\ WsInline'
    BY <2>1 DEF NoRunBeforeLock, WsInline
  <2>4. EndAfterRun'
    BY <2>1 DEF EndAfterRun
  <2>5. AttachedIsLive'
    BY <2>1 DEF AttachedIsLive, WsInline
  <2>6. QED
    BY <2>2, <2>3, <2>4, <2>5 DEF Rest
<1>2. ASSUME NEW d \in Diffs, NodeUpdate(r, d) PROVE Rest'
  <2>1. d \in AllDiffs /\ HandleUpdate(r, FALSE, d)
    BY <1>2 DEF NodeUpdate
  <2>2. \A q \in Requests : \A i \in DOMAIN queue'[q] :
           queue'[q][i].kind = "end" =>
              \E j \in DOMAIN queue[q] : queue[q][j].kind = "end"
    BY <2>1, HandleUpdateFacts DEF ChatInv
  <2>3. run[r] \in {"graph", "post"} /\ run' = [run EXCEPT ![r] = run[r]]
    BY <1>2 DEF NodeUpdate, ChatInv, TypeOK
  <2>4. UNCHANGED <<rigid, lock, attached, gen, gone, expired>>
    BY <1>2 DEF NodeUpdate
  <2>5. QED
    BY <2>2, <2>3, <2>4, RestRunGoesOn
<1>3. CASE LlmStart(r)
  <2>1. /\ run[r] = "graph" /\ run' = [run EXCEPT ![r] = "llm"]
        /\ UNCHANGED <<rigid, lock, attached, gen, gone, expired, queue>>
    BY <1>3 DEF LlmStart, ChatInv, TypeOK
  <2>2. QED
    BY <2>1, RestRunGoesOn
<1>4. CASE LlmToken(r)
  <2>1. /\ run[r] = "llm" /\ run' = [run EXCEPT ![r] = "llm"]
        /\ UNCHANGED <<rigid, lock, attached, gen, gone, expired>>
    BY <1>4 DEF LlmToken, ChatInv, TypeOK
  <2>2. \A q \in Requests : \A i \in DOMAIN queue'[q] :
           queue'[q][i].kind = "end" =>
              \E j \in DOMAIN queue[q] : queue[q][j].kind = "end"
    <3>1. CASE captured[r] = NoReq
      BY <1>4, <3>1 DEF LlmToken
    <3>2. CASE captured[r] # NoReq
      <4>1. captured[r] \in Requests
        BY <3>2 DEF ChatInv, TypeOK
      <4>2. Item("tok", r, tokens[r] + 1).kind # "end"
        BY ItemType DEF ChatInv, TypeOK
      <4>3. queue' = [queue EXCEPT ![captured[r]] =
                         Append(@, Item("tok", r, tokens[r] + 1))]
        BY <1>4, <3>2 DEF LlmToken, Put
      <4>4. queue[captured[r]] \in Seq(Items) /\ DOMAIN queue = Requests
        BY <4>1 DEF ChatInv, TypeOK
      <4>5. \A i \in DOMAIN queue'[captured[r]] :
               queue'[captured[r]][i].kind = "end" => queue[captured[r]][i].kind = "end"
                                                      /\ i \in DOMAIN queue[captured[r]]
        BY <4>1, <4>2, <4>3, <4>4
      <4>6. \A q \in Requests : q # captured[r] => queue'[q] = queue[q]
        BY <4>3, <4>4
      <4>7. QED
        BY <4>5, <4>6
    <3>3. QED
      BY <3>1, <3>2
  <2>3. QED
    BY <2>1, <2>2, RestRunGoesOn
<1>5. ASSUME NEW failed \in BOOLEAN, NEW d \in Diffs, LlmUpdate(r, failed, d)
      PROVE  Rest'
  <2>1. d \in AllDiffs /\ HandleUpdate(r, TRUE, d)
    BY <1>5 DEF LlmUpdate
  <2>2. \A q \in Requests : \A i \in DOMAIN queue'[q] :
           queue'[q][i].kind = "end" =>
              \E j \in DOMAIN queue[q] : queue[q][j].kind = "end"
    BY <2>1, HandleUpdateFacts DEF ChatInv
  <2>3. /\ run[r] = "llm" /\ run' = [run EXCEPT ![r] = "post"]
        /\ UNCHANGED <<rigid, lock, attached, gen, gone, expired>>
    BY <1>5 DEF LlmUpdate, ChatInv, TypeOK
  <2>4. QED
    BY <2>2, <2>3, RestRunGoesOn
<1>6. ASSUME NEW ok \in BOOLEAN, run[r] \in {"graph", "post"}, ConsumerEnd(r, ok),
             UNCHANGED <<rigid, lock, gen, captured, tokens, updates, sent, used,
                         out, billed, gone, expired, disturbed>>
      PROVE  Rest'
  <2> USE DEF ChatInv, TypeOK, Live, Running, rigid
  <2>1. /\ run' = [run EXCEPT ![r] = "done"]
        /\ attached' = [attached EXCEPT ![proc[r]] = NoReq]
    BY <1>6 DEF ConsumerEnd
  <2>2. \A q \in Requests \ {r} : queue'[q] = queue[q]
    BY <1>6, ConsumerEndFacts
  <2>3. HoldsLock' /\ LoopUntilDone'
    BY <1>6, <2>1 DEF HoldsLock, LoopUntilDone
  <2>4. NoRunBeforeLock' /\ WsInline'
    BY <1>6, <2>1 DEF NoRunBeforeLock, WsInline
  <2>5. EndAfterRun'
    BY <2>1, <2>2 DEF EndAfterRun
  <2>6. AttachedIsLive'
    BY <1>6, <2>1 DEF AttachedIsLive
  <2>7. QED
    BY <2>3, <2>4, <2>5, <2>6 DEF Rest
<1>7. ASSUME NEW ok \in BOOLEAN, WsEnd(r, ok) PROVE Rest'
  BY <1>7 DEF ChatInv, TypeOK, Rest, HoldsLock, LoopUntilDone, NoRunBeforeLock,
              EndAfterRun, WsInline, AttachedIsLive, Live, Running, rigid, WsEnd
<1>8. CASE ConsumerFinish(r)
  BY <1>8, <1>6 DEF ConsumerFinish
<1>9. CASE ConsumerFail(r)
  BY <1>9, <1>6 DEF ConsumerFail
<1>10. QED
  BY <1>1, <1>2, <1>3, <1>4, <1>5, <1>7, <1>8, <1>9 DEF Graph

\* Every step keeps the invariant.
LEMMA ChatInvStep == ChatInv /\ [Next]_vars => ChatInv'
<1> SUFFICES ASSUME ChatInv, [Next]_vars PROVE Rest'
  BY TypeStep DEF ChatInv, Rest
<1> USE ChatAssumption
        DEF ChatInv, TypeOK, Rest, HoldsLock, LoopUntilDone, NoRunBeforeLock,
            EndAfterRun, WsInline, AttachedIsLive, Live, Running, rigid, runVars
<1>1. ASSUME NEW r \in Requests, Disconnect(r) PROVE Rest'
  BY <1>1 DEF Disconnect
<1>2. ASSUME NEW r \in Requests, DisconnectEarly(r) PROVE Rest'
  BY <1>2 DEF DisconnectEarly
<1>3. ASSUME NEW t \in Threads, Expire(t) PROVE Rest'
  BY <1>3 DEF Expire
<1>4. ASSUME NEW p \in Procs, Crash(p) PROVE Rest'
  BY <1>4 DEF Crash
<1>5. CASE UNCHANGED vars
  BY <1>5 DEF vars
<1>6. QED
  <2> HIDE DEF ChatInv, Rest
  <2>1. QED
    BY <1>1, <1>2, <1>3, <1>4, <1>5, RestHandler, RestGraph DEF Next

\* ChatInv is an invariant of ChatStream.
THEOREM ChatInvariant == Spec => []ChatInv
<1>1. Init => ChatInv
  BY TypeInit, RestInit DEF ChatInv, Rest
<1>2. QED
  BY <1>1, ChatInvStep, PTL DEF Spec

\* The Redis lock of event_generator and chat_websocket: two graph runs are
\* under way on one thread only if one of them has lost its lock.
THEOREM ThreadRunsSerialUnlessLost == Spec => []SerialUnlessLost
<1>1. ChatInv => SerialUnlessLost
  BY DEF ChatInv, HoldsLock, SerialUnlessLost
<1>2. QED
  BY <1>1, ChatInvariant, PTL

\* _consume_stream's finally block: no queue of a run that is over stays
\* attached to stream_chat_completion.
THEOREM QueueDetached == Spec => []AttachedIsLive
<1>1. ChatInv => AttachedIsLive
  BY DEF ChatInv
<1>2. QED
  BY <1>1, ChatInvariant, PTL

(***************************************************************************)
(* The bill.  Only the last step of a generator writes a usage record, and *)
(* what a run has reported is never taken back.                            *)
(***************************************************************************)
BillShape ==
    \A r \in Requests :
        billed[r] # 0 => billed[r] = 1 /\ used[r] /\ gen[r] = "exit"

\* A step that writes no usage record, lets what has ended be, and takes back
\* no report.
Billless ==
    /\ billed' = billed
    /\ \A r \in Requests : (used[r] => used'[r]) /\ (gen[r] = "exit" => gen'[r] = "exit")

\* Steps that bill nothing keep the shape of the bill.
LEMMA BilllessKeepsShape == BillShape /\ Billless => BillShape'
BY DEF BillShape, Billless

\* The steps of a generator, of a graph run, and of the environment.
LEMMA HandlerBills ==
    ASSUME TypeOK, BillShape, NEW r \in Requests, Handler(r)
    PROVE  BillShape'
<1> USE DEF TypeOK, rigid, runVars
<1>1. CASE Admit(r) \/ Deny(r) \/ Refuse(r)
  <2>1. Billless
    BY <1>1 DEF Admit, Deny, Refuse, ReadyToLock, Billless
  <2>2. QED
    BY <2>1, BilllessKeepsShape
<1>2. CASE Acquire(r)
  <2>1. Billless
    BY <1>2 DEF Acquire, ReadyToLock, Billless
  <2>2. QED
    BY <2>1, BilllessKeepsShape
<1>3. CASE Yield(r) \/ StreamDone(r) \/ Release(r) \/ ReleaseFails(r) \/ CutShort(r)
  <2>1. Billless
    BY <1>3 DEF Yield, StreamDone, Release, ReleaseFails, CutShort, Billless
  <2>2. QED
    BY <2>1, BilllessKeepsShape
<1>4. CASE Bill(r)
  <2>1. billed[r] = 0
    BY <1>4 DEF Bill, BillShape
  <2>2. QED
    BY <1>4, <2>1 DEF Bill, BillShape
<1>5. QED
  BY <1>1, <1>2, <1>3, <1>4 DEF Handler

\* Nothing is billed while the graph runs.
LEMMA GraphBillsNothing ==
    ASSUME TypeOK, NEW r \in Requests, Graph(r)
    PROVE  Billless
<1> USE DEF TypeOK, rigid, runVars
<1>1. CASE ConsumerStart(r) \/ LlmStart(r) \/ LlmToken(r)
  BY <1>1 DEF ConsumerStart, LlmStart, LlmToken, Billless
<1>2. ASSUME NEW llm \in BOOLEAN, NEW d \in Diffs, HandleUpdate(r, llm, d)
      PROVE  \A q \in Requests : used[q] => used'[q]
  BY <1>2 DEF HandleUpdate
<1>3. ASSUME NEW d \in Diffs, NodeUpdate(r, d) PROVE Billless
  BY <1>2, <1>3 DEF NodeUpdate, Billless
<1>4. ASSUME NEW failed \in BOOLEAN, NEW d \in Diffs, LlmUpdate(r, failed, d)
      PROVE  Billless
  BY <1>2, <1>4 DEF LlmUpdate, Billless
<1>5. CASE ConsumerFinish(r) \/ ConsumerFail(r)
  BY <1>5 DEF ConsumerFinish, ConsumerFail, Billless
<1>6. ASSUME NEW ok \in BOOLEAN, WsEnd(r, ok) PROVE Billless
  BY <1>6 DEF WsEnd, Billless
<1>7. QED
  BY <1>1, <1>3, <1>4, <1>5, <1>6 DEF Graph

\* Every step keeps the shape of the bill.
LEMMA BillStep == ChatInv /\ BillShape /\ [Next]_vars => BillShape'
<1> SUFFICES ASSUME ChatInv, BillShape, [Next]_vars PROVE BillShape'
  OBVIOUS
<1>0. TypeOK
  BY DEF ChatInv
<1>1. ASSUME NEW r \in Requests, Handler(r) PROVE BillShape'
  BY <1>0, <1>1, HandlerBills
<1>2. ASSUME NEW r \in Requests, Graph(r) PROVE BillShape'
  BY <1>0, <1>2, GraphBillsNothing, BilllessKeepsShape
<1>3. ASSUME NEW r \in Requests, Disconnect(r) \/ DisconnectEarly(r) PROVE BillShape'
  <2>1. Billless
    BY <1>0, <1>3 DEF Disconnect, DisconnectEarly, Billless, TypeOK, runVars
  <2>2. QED
    BY <2>1, BilllessKeepsShape
<1>4. ASSUME NEW t \in Threads, Expire(t) PROVE BillShape'
  BY <1>4 DEF Expire, BillShape, runVars
<1>5. ASSUME NEW p \in Procs, Crash(p) PROVE BillShape'
  <2>1. Billless
    BY <1>0, <1>5 DEF Crash, Billless, TypeOK
  <2>2. QED
    BY <2>1, BilllessKeepsShape
<1>6. CASE UNCHANGED vars
  BY <1>6 DEF vars, BillShape, runVars
<1>7. QED
  BY <1>1, <1>2, <1>3, <1>4, <1>5, <1>6 DEF Next

\* record_usage at the end of event_generator: a request is charged once, for
\* usage its run has reported, and while that run goes on only if the client
\* has left it.
THEOREM BilledOnceAfterRun == Spec => []BilledAfterRun
<1>1. Init => BillShape
  BY DEF Init, BillShape
<1>2. ChatInv /\ BillShape => BilledAfterRun
  BY DEF ChatInv, TypeOK, BillShape, LoopUntilDone, BilledAfterRun
<1>3. QED
  BY ChatInvariant, BillStep, <1>1, <1>2, PTL DEF Spec

(***************************************************************************)
(* The turns of a conversation.  What a step does to a request is seen in  *)
(* ThreadTurns as the phase of its turn, whether it is lost, what it spent *)
(* and what it is charged.                                                 *)
(***************************************************************************)
\* A request that was not let in yet has lost nothing and owns no key.
Fresh ==
    \A r \in Requests : gen[r] \in {"new", "admitted"} =>
        /\ r \notin gone \cup expired
        /\ \A t \in Threads : lock[t] # r

\* Requests are let in one at a time, and only those let in lose anything.
LEMMA FreshStep == ChatInv /\ Fresh /\ [Next]_vars => Fresh'
<1> SUFFICES ASSUME ChatInv, Fresh, [Next]_vars PROVE Fresh'
  OBVIOUS
<1> USE ChatAssumption DEF ChatInv, TypeOK, Fresh, rigid, runVars
<1>1. ASSUME NEW r \in Requests, Admit(r) \/ Deny(r) \/ Refuse(r) PROVE Fresh'
  BY <1>1 DEF Admit, Deny, Refuse, ReadyToLock
<1>2. ASSUME NEW r \in Requests, Acquire(r) PROVE Fresh'
  <2>1. \A q \in Requests : gen'[q] \in {"new", "admitted"} => q # r /\ gen'[q] = gen[q]
    BY <1>2 DEF Acquire
  <2>2. \A q \in Requests, t \in Threads : q # r /\ lock[t] # q => lock'[t] # q
    BY <1>2 DEF Acquire
  <2>3. UNCHANGED <<gone, expired>>
    BY <1>2 DEF Acquire
  <2>4. QED
    BY <2>1, <2>2, <2>3
<1>3. ASSUME NEW r \in Requests, Yield(r) \/ StreamDone(r) PROVE Fresh'
  BY <1>3 DEF Yield, StreamDone
<1>4. ASSUME NEW r \in Requests, Release(r) PROVE Fresh'
  <2>1. \A q \in Requests : gen'[q] \in {"new", "admitted"} => gen'[q] = gen[q]
    BY <1>4 DEF Release, AfterRelease
  <2>2. \A q \in Requests, t \in Threads : lock[t] # q => lock'[t] # q
    BY <1>4 DEF Release, FreeLock
  <2>3. UNCHANGED <<gone, expired>>
    BY <1>4 DEF Release
  <2>4. QED
    BY <2>1, <2>2, <2>3
<1>5. ASSUME NEW r \in Requests, ReleaseFails(r) \/ CutShort(r) \/ Bill(r) PROVE Fresh'
  BY <1>5 DEF ReleaseFails, AfterRelease, CutShort, Bill
<1>6. ASSUME NEW r \in Requests, Graph(r) PROVE Fresh'
  <2>1. /\ UNCHANGED <<lock, gone, expired>>
        /\ \A q \in Requests : gen'[q] \in {"new", "admitted"} => gen'[q] = gen[q]
    BY <1>6 DEF Graph, ConsumerStart, NodeUpdate, LlmStart, LlmToken, LlmUpdate, ConsumerFinish,
                ConsumerFail, WsEnd
  <2>2. QED
    BY <2>1
<1>7. ASSUME NEW r \in Requests, Disconnect(r) \/ DisconnectEarly(r) PROVE Fresh'
  <2>1. \A q \in Requests : gen'[q] \in {"new", "admitted"} => q # r /\ gen'[q] = gen[q]
    BY <1>7 DEF Disconnect, DisconnectEarly
  <2>2. \A q \in Requests, t \in Threads : q # r /\ lock[t] # q => lock'[t] # q
    BY <1>7 DEF Disconnect, DisconnectEarly
  <2>3. gone' = gone \cup {r} /\ expired' = expired
    BY <1>7 DEF Disconnect, DisconnectEarly
  <2>4. QED
    BY <2>1, <2>2, <2>3
<1>8. ASSUME NEW t \in Threads, Expire(t) PROVE Fresh'
  BY <1>8 DEF Expire
<1>9. ASSUME NEW p \in Procs, Crash(p) PROVE Fresh'
  BY <1>9 DEF Crash
<1>10. CASE UNCHANGED vars
  BY <1>10 DEF vars
<1>11. QED
  <2> HIDE DEF ChatInv, Fresh
  <2>1. QED
    BY <1>1, <1>2, <1>3, <1>4, <1>5, <1>6, <1>7, <1>8, <1>9, <1>10 DEF Next, Handler

\* A step that no turn notices but in its phase.
SamePurse == UNCHANGED <<thread, used, billed, gone, expired>>

SamePhases == \A q \in Requests : Phase(q)' = Phase(q)

LEMMA TurnsStutter == SamePurse /\ SamePhases => UNCHANGED Chat!turnVars
BY DEF SamePurse, SamePhases, Chat!turnVars

\* Some turns are over; the others are where they were.
LEMMA TurnsEnd ==
    ASSUME NEW S \in SUBSET Requests, SamePurse,
           \A q \in Requests : Phase(q)' = IF q \in S THEN "over" ELSE Phase(q)
    PROVE  Chat!TurnsNext
<1>1. [q \in Requests |-> Phase(q)]'
        = [q \in Requests |-> IF q \in S THEN "over" ELSE [p \in Requests |-> Phase(p)][q]]
  OBVIOUS
<1>2. Chat!End(S)
  BY <1>1 DEF SamePurse, Chat!End
<1>3. QED
  BY <1>2 DEF Chat!TurnsNext

\* A run begins: the lock was free, so whoever else is at work has lost it.
LEMMA TurnBegins ==
    ASSUME ChatInv, Fresh, NEW r \in Requests, Acquire(r)
    PROVE  Chat!TurnsNext
<1> USE DEF ChatInv, TypeOK
<1>1. gen[r] \in {"new", "admitted"} /\ run[r] = "none" /\ lock[thread[r]] = NoReq
  BY DEF Acquire, ReadyToLock, NoRunBeforeLock
<1>2. Phase(r) = "waiting" /\ r \notin gone \cup expired
  BY <1>1 DEF Phase, Live, Running, Fresh
<1>3. \A q \in Requests \ {r} :
          Phase(q) = "working" /\ thread[q] = thread[r] => q \in gone \cup expired
  BY <1>1, ChatAssumption DEF Phase, HoldsLock
<1>4. Phase(r)' = "working" /\ \A q \in Requests \ {r} : Phase(q)' = Phase(q)
  BY DEF Acquire, Phase, Live, Running
<1>5. [q \in Requests |-> Phase(q)]' = [[q \in Requests |-> Phase(q)] EXCEPT ![r] = "working"]
  BY <1>4
<1>6. UNCHANGED <<thread, used, billed, gone, expired>>
  BY DEF Acquire, rigid
<1>7. Chat!Rivals(r) \subseteq gone \cup expired /\ r \notin gone
  BY <1>2, <1>3 DEF Chat!Rivals
<1>8. Chat!Begin(r)
  BY <1>2, <1>5, <1>6, <1>7 DEF Chat!Begin
<1>9. QED
  BY <1>8 DEF Chat!TurnsNext

\* record_usage charges what was spent, when the run is over or given up.
LEMMA TurnCharged ==
    ASSUME ChatInv, BillShape, NEW r \in Requests, Bill(r)
    PROVE  [Chat!TurnsNext]_(Chat!turnVars)
<1> USE DEF ChatInv, TypeOK
<1>1. gen[r] = "billing" /\ gen' = [gen EXCEPT ![r] = "exit"]
  BY DEF Bill
<1>2. UNCHANGED <<thread, run, used, gone, expired>>
  BY DEF Bill, rigid, runVars
<1>3. SamePhases
  BY <1>1, <1>2 DEF SamePhases, Phase, Live
<1>4. billed[r] = 0
  BY <1>1 DEF BillShape
<1>5. CASE ~used[r]
  <2>1. SamePurse
    BY <1>2, <1>5 DEF SamePurse, Bill
  <2>2. QED
    BY <1>3, <2>1, TurnsStutter
<1>6. CASE used[r]
  <2>1. billed' = [billed EXCEPT ![r] = 1]
    BY <1>4, <1>6 DEF Bill
  <2>2. Phase(r) = "over" \/ r \in gone
    BY <1>1 DEF Phase, LoopUntilDone
  <2>3. [q \in Requests |-> Phase(q)]' = [q \in Requests |-> Phase(q)]
    BY <1>3 DEF SamePhases
  <2>4. Chat!Charge(r)
    BY <1>2, <1>4, <1>6, <2>1, <2>2, <2>3 DEF Chat!Charge
  <2>5. QED
    BY <2>4 DEF Chat!TurnsNext
<1>7. QED
  BY <1>5, <1>6

\* The steps of a generator or of the WebSocket's handler.
LEMMA HandlerTurns ==
    ASSUME ChatInv, BillShape, Fresh, NEW r \in Requests, Handler(r)
    PROVE  [Chat!TurnsNext]_(Chat!turnVars)
<1>1. TypeOK /\ NoRunBeforeLock
  BY DEF ChatInv
<1>2. CASE Admit(r)
  <2>1. SamePurse /\ SamePhases
    BY <1>1, <1>2 DEF Admit, SamePurse, SamePhases, Phase, Live, TypeOK, rigid, runVars
  <2>2. QED
    BY <2>1, TurnsStutter
<1>3. CASE Deny(r) \/ Refuse(r)
  <2>1. gen[r] \in {"new", "admitted"} /\ gen' = [gen EXCEPT ![r] = "exit"] /\ SamePurse
    BY <1>3 DEF Deny, Refuse, ReadyToLock, SamePurse, rigid, runVars
  <2>2. run' = run
    BY <1>3 DEF Deny, Refuse, runVars
  <2>3. \A q \in Requests : Phase(q)' = IF q \in {r} THEN "over" ELSE Phase(q)
    BY <1>1, <2>1, <2>2 DEF Phase, Live, Running, NoRunBeforeLock, TypeOK
  <2>4. QED
    BY <2>1, <2>3, TurnsEnd
<1>4. CASE Acquire(r)
  BY <1>4, TurnBegins
<1>5. CASE Yield(r) \/ StreamDone(r) \/ Release(r) \/ ReleaseFails(r) \/ CutShort(r)
  <2>1. /\ SamePurse /\ run' = run
        /\ \A q \in Requests : gen'[q] # gen[q] =>
                 gen[q] \notin {"new", "admitted"} /\ gen'[q] \notin {"new", "admitted"}
    <3>1. CASE Yield(r)
      BY <3>1 DEF Yield, SamePurse, rigid, runVars
    <3>2. CASE StreamDone(r)
      BY <1>1, <3>2 DEF StreamDone, SamePurse, rigid, runVars, TypeOK
    <3>3. CASE Release(r) \/ ReleaseFails(r)
      BY <1>1, <3>3 DEF Release, ReleaseFails, AfterRelease, SamePurse, rigid, runVars, TypeOK
    <3>4. CASE CutShort(r)
      BY <1>1, <3>4 DEF CutShort, SamePurse, rigid, runVars, TypeOK
    <3>5. QED
      BY <1>5, <3>1, <3>2, <3>3, <3>4
  <2>2. SamePhases
    BY <2>1 DEF SamePhases, Phase, Live
  <2>3. QED
    BY <2>1, <2>2, TurnsStutter
<1>6. CASE Bill(r)
  BY <1>6, TurnCharged
<1>7. QED
  BY <1>2, <1>3, <1>4, <1>5, <1>6 DEF Handler

\* An update that reports its usage is spent by a run at work.
LEMMA TurnSpends ==
    ASSUME ChatInv, NEW r \in Requests, Live(r), SamePhases,
           UNCHANGED <<thread, billed, gone, expired>>,
           NEW d, NEW llm, HandleUpdate(r, llm, d)
    PROVE  [Chat!TurnsNext]_(Chat!turnVars)
<1>1. TypeOK
  BY DEF ChatInv
<1>2. \/ used' = used
      \/ used' = [used EXCEPT ![r] = used[r] \/ d.usage]
  BY DEF HandleUpdate
<1>3. \/ {q \in Requests : used'[q]} = {q \in Requests : used[q]}
      \/ {q \in Requests : used'[q]} = {q \in Requests : used[q]} \cup {r}
  BY <1>1, <1>2 DEF TypeOK
<1>4. [q \in Requests |-> Phase(q)]' = [q \in Requests |-> Phase(q)]
  BY DEF SamePhases
<1>5. CASE {q \in Requests : used'[q]} = {q \in Requests : used[q]}
  BY <1>4, <1>5 DEF Chat!turnVars
<1>6. CASE {q \in Requests : used'[q]} = {q \in Requests : used[q]} \cup {r}
  <2>1. Phase(r) = "working"
    BY DEF Phase
  <2>2. Chat!Spend(r)
    BY <1>4, <1>6, <2>1 DEF Chat!Spend
  <2>3. QED
    BY <2>2 DEF Chat!TurnsNext
<1>7. QED
  BY <1>3, <1>5, <1>6

\* The steps of a graph run: it goes on, reports, or ends.
LEMMA GraphTurns ==
    ASSUME ChatInv, NEW r \in Requests, Graph(r)
    PROVE  [Chat!TurnsNext]_(Chat!turnVars)
<1>1. TypeOK /\ NoRunBeforeLock
  BY DEF ChatInv
<1>2. Live(r) => gen[r] \notin {"new", "admitted"}
  BY <1>1 DEF NoRunBeforeLock, Live, Running
<1>3. CASE ConsumerStart(r) \/ LlmStart(r) \/ LlmToken(r)
  <2>1. /\ SamePurse /\ gen' = gen
        /\ Live(r) /\ Live(r)' /\ \A q \in Requests \ {r} : run'[q] = run[q]
    BY <1>1, <1>3 DEF ConsumerStart, LlmStart, LlmToken, SamePurse, rigid, runVars, TypeOK,
                      Live, Running
  <2>2. SamePhases
    BY <2>1 DEF SamePhases, Phase, Live
  <2>3. QED
    BY <2>1, <2>2, TurnsStutter
<1>4. ASSUME NEW d \in Diffs, NodeUpdate(r, d)
      PROVE  [Chat!TurnsNext]_(Chat!turnVars)
  <2>1. /\ Live(r) /\ UNCHANGED <<gen, run, thread, billed, gone, expired>>
        /\ HandleUpdate(r, FALSE, d)
    BY <1>4 DEF NodeUpdate, Live, Running, rigid
  <2>2. SamePhases
    BY <2>1 DEF SamePhases, Phase, Live
  <2>3. QED
    BY <2>1, <2>2, TurnSpends
<1>5. ASSUME NEW failed \in BOOLEAN, NEW d \in Diffs, LlmUpdate(r, failed, d)
      PROVE  [Chat!TurnsNext]_(Chat!turnVars)
  <2>1. /\ Live(r) /\ UNCHANGED <<gen, thread, billed, gone, expired>>
        /\ HandleUpdate(r, TRUE, d)
        /\ Live(r)' /\ \A q \in Requests \ {r} : run'[q] = run[q]
    BY <1>1, <1>5 DEF LlmUpdate, Live, Running, rigid, TypeOK
  <2>2. SamePhases
    BY <2>1 DEF SamePhases, Phase, Live
  <2>3. QED
    BY <2>1, <2>2, TurnSpends
<1>6. CASE ConsumerFinish(r) \/ ConsumerFail(r) \/ \E ok \in BOOLEAN : WsEnd(r, ok)
  <2>1. /\ SamePurse /\ Live(r) /\ run' = [run EXCEPT ![r] = "done"]
        /\ \A q \in Requests \ {r} : gen'[q] = gen[q]
        /\ gen'[r] = gen[r] \/ gen'[r] = "closing"
    BY <1>1, <1>6 DEF ConsumerFinish, ConsumerFail, ConsumerEnd, WsEnd, SamePurse, rigid, TypeOK,
                      Live, Running
  <2>2. \A q \in Requests : Phase(q)' = IF q \in {r} THEN "over" ELSE Phase(q)
    BY <1>1, <1>2, <2>1 DEF Phase, Live, Running, TypeOK
  <2>3. QED
    BY <2>1, <2>2, TurnsEnd
<1>7. QED
  BY <1>3, <1>4, <1>5, <1>6 DEF Graph

\* A client leaves its turn; one that waits is over with it.
LEMMA TurnIsLeft ==
    ASSUME NEW r \in Requests, UNCHANGED <<thread, used, billed, expired>>, gone' = gone \cup {r},
           Phase(r)' = IF Phase(r) = "waiting" THEN "over" ELSE Phase(r),
           \A q \in Requests \ {r} : Phase(q)' = Phase(q)
    PROVE  Chat!TurnsNext
<1> DEFINE phases == [q \in Requests |-> Phase(q)]
<1>1. phases' = [phases EXCEPT ![r] = IF @ = "waiting" THEN "over" ELSE @]
  OBVIOUS
<1>2. Chat!Leave(r)
  BY <1>1 DEF Chat!Leave
<1>3. QED
  BY <1>2 DEF Chat!TurnsNext

\* What clients, the time-to-live of the lock and dying processes do.
LEMMA FaultTurns ==
    ASSUME ChatInv, Fresh,
           \/ \E r \in Requests : Disconnect(r) \/ DisconnectEarly(r)
           \/ \E t \in Threads : Expire(t)
           \/ \E p \in Procs : Crash(p)
    PROVE  Chat!TurnsNext
<1>1. TypeOK /\ NoRunBeforeLock
  BY DEF ChatInv
<1>2. ASSUME NEW r \in Requests, Disconnect(r) PROVE Chat!TurnsNext
  <2>1. /\ UNCHANGED <<thread, run, used, billed>>
        /\ gone' = gone \cup {r} /\ expired' = expired
        /\ gen[r] \in {"loop", "closing", "billing"}
        /\ gen' = [gen EXCEPT ![r] = IF @ = "loop" THEN "closing" ELSE @]
    BY <1>2 DEF Disconnect, rigid, runVars
  <2>2. SamePhases /\ Phase(r) # "waiting"
    BY <1>1, <2>1 DEF SamePhases, Phase, Live, TypeOK
  <2>3. QED
    BY <2>1, <2>2, TurnIsLeft DEF SamePhases
<1>3. ASSUME NEW r \in Requests, DisconnectEarly(r) PROVE Chat!TurnsNext
  <2>1. /\ UNCHANGED <<thread, run, used, billed>>
        /\ gone' = gone \cup {r} /\ expired' = expired
        /\ gen[r] \in {"new", "admitted"} /\ gen' = [gen EXCEPT ![r] = "exit"]
    BY <1>3 DEF DisconnectEarly, rigid, runVars
  <2>2. run[r] = "none"
    BY <1>1, <2>1 DEF NoRunBeforeLock
  <2>3. /\ Phase(r) = "waiting" /\ Phase(r)' = "over"
        /\ \A q \in Requests \ {r} : Phase(q)' = Phase(q)
    BY <1>1, <2>1, <2>2 DEF Phase, Live, Running, TypeOK
  <2>4. QED
    BY <2>1, <2>3, TurnIsLeft
<1>4. ASSUME NEW t \in Threads, Expire(t) PROVE Chat!TurnsNext
  <2>1. /\ UNCHANGED <<thread, gen, run, used, billed, gone>>
        /\ expired' = expired \cup {lock[t]} /\ lock[t] \in Requests
    BY <1>1, <1>4 DEF Expire, rigid, runVars, TypeOK
  <2>2. SamePhases
    BY <2>1 DEF SamePhases, Phase, Live
  <2>3. Phase(lock[t]) # "waiting"
    BY <2>1 DEF Fresh, Phase
  <2>4. [q \in Requests |-> Phase(q)]' = [q \in Requests |-> Phase(q)]
    BY <2>2 DEF SamePhases
  <2>5. Chat!Overrun(lock[t])
    BY <2>1, <2>3, <2>4 DEF Chat!Overrun
  <2>6. QED
    BY <2>1, <2>5 DEF Chat!TurnsNext
<1>5. ASSUME NEW p \in Procs, Crash(p) PROVE Chat!TurnsNext
  <2> DEFINE hit == {r \in Requests : /\ proc[r] = p /\ gen[r] # "new"
                                      /\ gen[r] # "exit" \/ Live(r)}
  <2>1. /\ SamePurse
        /\ gen' = [r \in Requests |-> IF r \in hit THEN "exit" ELSE gen[r]]
        /\ run' = [r \in Requests |-> IF r \in hit THEN "dead" ELSE run[r]]
    BY <1>5 DEF Crash, SamePurse, rigid
  <2>2. \A q \in Requests : Phase(q)' = IF q \in hit THEN "over" ELSE Phase(q)
    BY <2>1 DEF Phase, Live, Running
  <2>3. QED
    BY <2>1, <2>2, TurnsEnd
<1>6. QED
  BY <1>2, <1>3, <1>4, <1>5

\* For any number of requests, conversations and processes and any of the
\* faults, event_generator, _consume_stream and the WebSocket handler with
\* their lock take turns as ThreadTurns says.
THEOREM TakesTurns == Spec => TurnsKept
<1>1. Init => Fresh /\ BillShape /\ Chat!TurnsInit
  <2> SUFFICES ASSUME Init PROVE Fresh /\ BillShape /\ Chat!TurnsInit
    OBVIOUS
  <2>1. Fresh /\ BillShape
    BY ChatAssumption DEF Init, Fresh, BillShape
  <2>2. \A r \in Requests : Phase(r) = "waiting" /\ ~used[r]
    BY DEF Init, Phase, Live, Running
  <2>3. gone = {} /\ expired = {} /\ {r \in Requests : used[r]} = {}
    BY <2>2 DEF Init
  <2>4. thread \in [Requests -> Threads] /\ billed = [r \in Requests |-> 0]
    BY DEF Init
  <2>5. QED
    BY <2>1, <2>2, <2>3, <2>4 DEF Chat!TurnsInit
<1>2. ChatInv /\ Fresh /\ BillShape /\ [Next]_vars => [Chat!TurnsNext]_(Chat!turnVars)
  <2> SUFFICES ASSUME ChatInv, Fresh, BillShape, [Next]_vars
               PROVE  [Chat!TurnsNext]_(Chat!turnVars)
    OBVIOUS
  <2>1. CASE UNCHANGED vars
    <3>1. SamePurse /\ SamePhases
      BY <2>1 DEF vars, SamePurse, SamePhases, Phase, Live, rigid, runVars
    <3>2. QED
      BY <3>1, TurnsStutter
  <2>2. QED
    BY <2>1, HandlerTurns, GraphTurns, FaultTurns DEF Next
<1>3. QED
  BY ChatInvariant, BillStep, FreshStep, <1>1, <1>2, PTL DEF Spec, TurnsKept, Chat!TurnsSpec

\* What ThreadTurns keeps of two turns of a conversation, and of a charge.
TurnsShape ==
    /\ SerialUnlessLost
    /\ billed \in [Requests -> {0, 1}]
    /\ \A r \in Requests : billed[r] # 0 => used[r] /\ (Live(r) => r \in gone)
    /\ \A r \in Requests : used[r] => Phase(r) # "waiting"

\* Each of its steps keeps that.
LEMMA TurnsShapeStep == TurnsShape /\ [Chat!TurnsNext]_(Chat!turnVars) => TurnsShape'
<1> DEFINE phases == [r \in Requests |-> Phase(r)]
           spent == {r \in Requests : used[r]}
<1> SUFFICES ASSUME TurnsShape, [Chat!TurnsNext]_(Chat!turnVars) PROVE TurnsShape'
  OBVIOUS
<1>1. \A r \in Requests : /\ Live(r) <=> phases[r] = "working"
                          /\ Live(r)' <=> phases'[r] = "working"
                          /\ phases[r] = Phase(r) /\ phases'[r] = Phase(r)'
  BY DEF Phase, Live
<1>2. \A r \in Requests : (used[r] <=> r \in spent) /\ (used'[r] <=> r \in spent')
  OBVIOUS
<1> USE DEF TurnsShape, SerialUnlessLost
<1>3. ASSUME UNCHANGED <<thread, gone, expired, billed, spent>>,
             \A r \in Requests : phases'[r] \in {phases[r], "over"}
      PROVE  TurnsShape'
  <2> HIDE DEF phases, spent
  <2>1. QED
    BY <1>1, <1>2, <1>3
<1>4. CASE UNCHANGED Chat!turnVars
  BY <1>3, <1>4 DEF Chat!turnVars
<1>5. ASSUME NEW S \in SUBSET Requests, Chat!End(S) PROVE TurnsShape'
  <2>1. UNCHANGED <<thread, gone, expired, billed, spent>>
    BY <1>5 DEF Chat!End
  <2>2. \A r \in Requests : phases'[r] \in {phases[r], "over"}
    BY <1>5 DEF Chat!End
  <2>3. QED
    BY <1>3, <2>1, <2>2
<1>6. ASSUME NEW r \in Requests, Chat!Begin(r) PROVE TurnsShape'
  <2>1. /\ UNCHANGED <<thread, gone, expired, billed, spent>>
        /\ phases[r] = "waiting" /\ phases' = [phases EXCEPT ![r] = "working"]
        /\ Chat!Rivals(r) \subseteq gone \cup expired
    BY <1>6 DEF Chat!Begin
  <2>2. \A q \in Requests \ {r} :
           Live(q) /\ thread[q] = thread[r] => q \in gone \cup expired
    BY <1>1, <2>1 DEF Chat!Rivals
  <2>3. DOMAIN phases = Requests
    OBVIOUS
  <2> HIDE DEF phases, spent
  <2>4. \A q \in Requests \ {r} : phases'[q] = phases[q]
    BY <2>1, <2>3
  <2>5. billed[r] = 0
    BY <1>1, <2>1
  <2>6. QED
    BY <1>1, <1>2, <2>1, <2>2, <2>3, <2>4, <2>5
<1>7. ASSUME NEW r \in Requests, Chat!Spend(r) PROVE TurnsShape'
  <2>1. /\ UNCHANGED <<thread, gone, expired, billed, phases>>
        /\ phases[r] = "working" /\ spent' = spent \cup {r}
    BY <1>7 DEF Chat!Spend
  <2> HIDE DEF phases, spent
  <2>2. QED
    BY <1>1, <1>2, <2>1
<1>8. ASSUME NEW r \in Requests, Chat!Leave(r) PROVE TurnsShape'
  <2>1. /\ UNCHANGED <<thread, expired, billed, spent>> /\ gone' = gone \cup {r}
        /\ \A q \in Requests : phases'[q] \in {phases[q], "over"}
    BY <1>8 DEF Chat!Leave
  <2> HIDE DEF phases, spent
  <2>2. QED
    BY <1>1, <1>2, <2>1
<1>9. ASSUME NEW r \in Requests, Chat!Overrun(r) PROVE TurnsShape'
  <2>1. UNCHANGED <<thread, gone, billed, spent, phases>> /\ expired' = expired \cup {r}
    BY <1>9 DEF Chat!Overrun
  <2> HIDE DEF phases, spent
  <2>2. QED
    BY <1>1, <1>2, <2>1
<1>10. ASSUME NEW r \in Requests, Chat!Charge(r) PROVE TurnsShape'
  <2>1. /\ UNCHANGED <<thread, gone, expired, spent, phases>>
        /\ billed' = [billed EXCEPT ![r] = 1]
        /\ r \in spent /\ (phases[r] = "over" \/ r \in gone)
    BY <1>10 DEF Chat!Charge
  <2> HIDE DEF phases, spent
  <2>2. QED
    BY <1>1, <1>2, <2>1
<1>11. QED
  BY <1>4, <1>5, <1>6, <1>7, <1>8, <1>9, <1>10 DEF Chat!TurnsNext

(***************************************************************************)
(* The promise is enough: whatever takes turns as ThreadTurns says, as the *)
(* endpoints of chat.py and ws_chat.py do, runs two turns of one           *)
(* conversation together only if one of them is lost, and charges a turn   *)
(* once, for what it spent, when it is over or its client has left.        *)
(***************************************************************************)
THEOREM TurnsSuffice == TurnsKept => [](SerialUnlessLost /\ BilledAfterRun)
<1>1. Chat!TurnsInit => TurnsShape
  <2> SUFFICES ASSUME Chat!TurnsInit PROVE TurnsShape
    OBVIOUS
  <2>1. [r \in Requests |-> Phase(r)] = [r \in Requests |-> "waiting"]
    BY DEF Chat!TurnsInit
  <2>2. \A r \in Requests : Phase(r) = "waiting"
    <3>1. \A r \in Requests : [q \in Requests |-> Phase(q)][r] = "waiting"
      BY <2>1
    <3>2. QED
      BY <3>1
  <2>3. \A r \in Requests : ~Live(r)
    BY <2>2 DEF Phase
  <2>4. {r \in Requests : used[r]} = {} /\ billed = [r \in Requests |-> 0]
    BY DEF Chat!TurnsInit
  <2>5. QED
    BY <2>2, <2>3, <2>4 DEF TurnsShape, SerialUnlessLost
<1>2. TurnsShape => SerialUnlessLost /\ BilledAfterRun
  BY DEF TurnsShape, BilledAfterRun
<1>3. QED
  BY <1>1, <1>2, TurnsShapeStep, PTL DEF TurnsKept, Chat!TurnsSpec

(***************************************************************************)
(* The tokens.  What a client has received and what still waits in its     *)
(* queue is one stream, to which its run adds at the end and from which    *)
(* nothing is taken but in order: lemmas on streams, then who may touch    *)
(* one.                                                                    *)
(***************************************************************************)
\* The next of its own tokens keeps a stream of tokens exact.
LEMMA ExactToken ==
    ASSUME NEW s \in Seq(Items), NEW r \in Requests, NEW n \in Nat, Exact(s, r, n)
    PROVE  Exact(Append(s, Item("tok", r, n + 1)), r, n + 1)
<1> DEFINE x == Item("tok", r, n + 1)
           u == Append(s, x)
<1>1. x.kind = "tok" /\ x.of = r /\ x.n = n + 1
  BY DEF Item
<1>2. /\ Len(u) = Len(s) + 1
      /\ DOMAIN u = 1..(Len(s) + 1)
      /\ DOMAIN s = 1..Len(s)
      /\ Len(s) \in Nat
      /\ \A i \in DOMAIN s : i \in DOMAIN u /\ u[i] = s[i]
      /\ u[Len(s) + 1] = x
  BY ItemType
<1> HIDE DEF x, u
<1>3. \A i \in DOMAIN u : u[i].kind = "tok" => u[i].of = r /\ u[i].n \in 1..(n + 1)
  BY <1>1, <1>2 DEF Exact
<1>4. \A k \in 1..(n + 1) : \E i \in DOMAIN u : u[i] = Item("tok", r, k)
  <2> TAKE k \in 1..(n + 1)
  <2>1. CASE k = n + 1
    BY <1>2, <2>1 DEF x
  <2>2. CASE k # n + 1
    <3>1. k \in 1..n
      BY <2>2
    <3>2. PICK i \in DOMAIN s : s[i] = Item("tok", r, k)
      BY <3>1 DEF Exact
    <3>3. QED
      BY <1>2, <3>2
  <2>3. QED
    BY <2>1, <2>2
<1>5. ASSUME NEW i \in DOMAIN u, NEW j \in DOMAIN u, i < j, u[i].kind = "tok", u[j].kind = "tok"
      PROVE  u[i].n < u[j].n
  <2>1. i \in DOMAIN s
    BY <1>2, <1>5
  <2>2. CASE j \in DOMAIN s
    BY <1>2, <1>5, <2>1, <2>2 DEF Exact
  <2>3. CASE j = Len(s) + 1
    <3>1. s[i].n \in 1..n
      BY <1>2, <1>5, <2>1 DEF Exact
    <3>2. QED
      BY <1>1, <1>2, <2>1, <2>3, <3>1
  <2>4. QED
    BY <1>2, <2>2, <2>3
<1>6. Exact(u, r, n + 1)
  BY <1>3, <1>4, <1>5 DEF Exact
<1>7. QED
  BY <1>6 DEF u, x

\* What is no token neither makes a stream exact nor spoils it.
LEMMA ExactOther ==
    ASSUME NEW s \in Seq(Items), NEW r \in Requests, NEW n \in Nat, NEW x \in Items,
           x.kind # "tok"
    PROVE  Exact(Append(s, x), r, n) <=> Exact(s, r, n)
<1> DEFINE u == Append(s, x)
<1>1. /\ DOMAIN u = 1..(Len(s) + 1)
      /\ DOMAIN s = 1..Len(s)
      /\ Len(s) \in Nat
      /\ \A i \in DOMAIN s : i \in DOMAIN u /\ u[i] = s[i]
      /\ u[Len(s) + 1] = x
  OBVIOUS
<1>2. \A k : Item("tok", r, k).kind = "tok"
  BY DEF Item
<1>3. \A i \in DOMAIN u : u[i].kind = "tok" => i \in DOMAIN s
  BY <1>1
<1>4. \A i \in DOMAIN u : \A k \in 1..n : u[i] = Item("tok", r, k) => i \in DOMAIN s
  BY <1>2, <1>3
<1> HIDE DEF u
<1>5. ASSUME Exact(s, r, n) PROVE Exact(u, r, n)
  <2>1. \A i \in DOMAIN u : u[i].kind = "tok" => u[i].of = r /\ u[i].n \in 1..n
    BY <1>1, <1>3, <1>5 DEF Exact
  <2>2. \A k \in 1..n : \E i \in DOMAIN u : u[i] = Item("tok", r, k)
    BY <1>1, <1>5 DEF Exact
  <2>3. \A i, j \in DOMAIN u :
          i < j /\ u[i].kind = "tok" /\ u[j].kind = "tok" => u[i].n < u[j].n
    BY <1>1, <1>3, <1>5 DEF Exact
  <2>4. QED
    BY <2>1, <2>2, <2>3 DEF Exact
<1>6. ASSUME Exact(u, r, n) PROVE Exact(s, r, n)
  <2>1. \A i \in DOMAIN s : s[i].kind = "tok" => s[i].of = r /\ s[i].n \in 1..n
    BY <1>1, <1>6 DEF Exact
  <2>2. \A k \in 1..n : \E i \in DOMAIN s : s[i] = Item("tok", r, k)
    BY <1>1, <1>4, <1>6 DEF Exact
  <2>3. \A i, j \in DOMAIN s :
          i < j /\ s[i].kind = "tok" /\ s[j].kind = "tok" => s[i].n < s[j].n
    BY <1>1, <1>6 DEF Exact
  <2>4. QED
    BY <2>1, <2>2, <2>3 DEF Exact
<1>7. QED
  BY <1>5, <1>6 DEF u

\* A queue grows at the end of the stream it belongs to.
LEMMA GrowsAtEnd ==
    ASSUME NEW o \in Seq(Items), NEW q \in Seq(Items), NEW x \in Items
    PROVE  o \o Append(q, x) = Append(o \o q, x)
<1>1. Append(q, x) = q \o <<x>>
  OBVIOUS
<1>2. o \o q \in Seq(Items) /\ <<x>> \in Seq(Items)
  OBVIOUS
<1>3. o \o (q \o <<x>>) = (o \o q) \o <<x>>
  BY <1>2, ConcatAssociative
<1>4. QED
  BY <1>1, <1>2, <1>3

\* Handing over the first item of a queue does not change the stream.
LEMMA MovesOver ==
    ASSUME NEW o \in Seq(Items), NEW q \in Seq(Items), q # <<>>
    PROVE  Append(o, Head(q)) \o Tail(q) = o \o q
<1>1. Head(q) \in Items /\ Tail(q) \in Seq(Items) /\ <<Head(q)>> \in Seq(Items)
  OBVIOUS
<1>2. q = <<Head(q)>> \o Tail(q)
  OBVIOUS
<1>3. Append(o, Head(q)) = o \o <<Head(q)>>
  BY <1>1
<1>4. (o \o <<Head(q)>>) \o Tail(q) = o \o (<<Head(q)>> \o Tail(q))
  BY <1>1, ConcatAssociative
<1>5. QED
  BY <1>2, <1>3, <1>4

(***************************************************************************)
(* What a request's client has received and will receive from its queue.   *)
(***************************************************************************)
Stream(r) == out[r] \o queue[r]

\* The items s neither end a stream nor say that one has ended.
Open(s) == \A i \in DOMAIN s : s[i].kind \notin {"end", "done"}

\* The items s end with one of that kind, and not before.
Closed(s, kind) ==
    /\ s # <<>>
    /\ s[Len(s)].kind = kind
    /\ \A i \in DOMAIN s : i # Len(s) => s[i].kind \notin {"end", "done"}

\* Two runs of one process that are under way together are both disturbed.
Apart ==
    \A r, q \in Requests :
        r # q /\ proc[r] = proc[q] /\ Live(r) /\ Live(q) => {r, q} \subseteq disturbed

\* An answer is pushed to another's queue only if that one is disturbed, and
\* a run that is not has its own queue attached, and its answer's picked up.
OwnQueue ==
    /\ \A r, q \in Requests : captured[q] = r /\ q # r => r \in disturbed
    /\ \A r \in Requests \ (WsRequests \cup disturbed) :
         /\ run[r] \in {"graph", "llm", "post"} => attached[proc[r]] = r
         /\ run[r] = "llm" => captured[r] = r

\* The stream of a request is its answer so far, open while the run goes on,
\* closed by the sentinel when it is over, and by [DONE] when that was read.
Told(r) ==
    /\ Exact(Stream(r), r, tokens[r])
    /\ run[r] = "none" =>
         /\ tokens[r] = 0
         /\ queue[r] = <<>>
         /\ gen[r] \in {"new", "admitted"} => out[r] = <<>>
    /\ Live(r) => Open(Stream(r))
    /\ run[r] = "done" /\ gen[r] = "loop" => queue[r] # <<>> /\ Closed(Stream(r), "end")
    /\ run[r] = "done" /\ gen[r] # "loop" => queue[r] = <<>> /\ Closed(Stream(r), "done")

\* Streams whose client is there, and whose run met no other.
Undisturbed == Requests \ (WsRequests \cup disturbed \cup gone)

\* Each of them, unless its process has died.
AllTold == \A r \in Undisturbed : run[r] # "dead" => Told(r)

\* Runs meet when one starts beside another, and both are noted then.
LEMMA ApartStep == ChatInv /\ Apart /\ [Next]_vars => Apart'
<1> SUFFICES ASSUME ChatInv, Apart, [Next]_vars PROVE Apart'
  OBVIOUS
<1>t. TypeOK
  BY DEF ChatInv
<1>1. ASSUME NEW r \in Requests, Acquire(r) PROVE Apart'
  <2>1. /\ run' = [run EXCEPT ![r] = IF r \in WsRequests THEN "graph" ELSE "scheduled"]
        /\ proc' = proc
        /\ disturbed' = IF Neighbours(r) = {} THEN disturbed
                        ELSE disturbed \cup Neighbours(r) \cup {r}
    BY <1>1 DEF Acquire, rigid
  <2>2. \A q \in Requests \ {r} : Live(q)' <=> Live(q)
    BY <1>t, <2>1 DEF TypeOK, Live
  <2>3. \A q \in Requests \ {r} : proc[q] = proc[r] /\ Live(q) => {r, q} \subseteq disturbed'
    BY <2>1 DEF Neighbours
  <2>4. disturbed \subseteq disturbed'
    BY <2>1
  <2>5. QED
    BY <2>1, <2>2, <2>3, <2>4 DEF Apart
<1>2. ASSUME \A q \in Requests : Live(q)' => Live(q), proc' = proc, disturbed' = disturbed
      PROVE  Apart'
  BY <1>2 DEF Apart
<1> USE <1>t DEF TypeOK, Live, Running, rigid, runVars
<1>3. ASSUME NEW r \in Requests, Handler(r) PROVE Apart'
  <2>1. CASE Acquire(r)
    BY <1>1, <2>1
  <2>2. CASE ~Acquire(r)
    BY <1>2, <1>3, <2>2 DEF Handler, Admit, Deny, Refuse, Yield, StreamDone, Release,
       ReleaseFails, CutShort, Bill
  <2>3. QED
    BY <2>1, <2>2
<1>4. ASSUME NEW r \in Requests, Graph(r) PROVE Apart'
  <2>1. proc' = proc /\ disturbed' = disturbed /\ Live(r)
    BY <1>4 DEF Graph, ConsumerStart, NodeUpdate, LlmStart, LlmToken, LlmUpdate,
       ConsumerFinish, ConsumerFail, WsEnd
  <2>2. \A q \in Requests \ {r} : run'[q] = run[q]
    BY <1>4 DEF Graph, ConsumerStart, NodeUpdate, LlmStart, LlmToken, LlmUpdate,
       ConsumerFinish, ConsumerFail, ConsumerEnd, WsEnd
  <2>3. QED
    BY <1>2, <2>1, <2>2
<1>5. ASSUME NEW r \in Requests, Disconnect(r) \/ DisconnectEarly(r) PROVE Apart'
  BY <1>2, <1>5 DEF Disconnect, DisconnectEarly
<1>6. ASSUME NEW t \in Threads, Expire(t) PROVE Apart'
  BY <1>2, <1>6 DEF Expire
<1>7. ASSUME NEW p \in Procs, Crash(p) PROVE Apart'
  BY <1>2, <1>7 DEF Crash
<1>8. CASE UNCHANGED vars
  BY <1>2, <1>8 DEF vars
<1>9. QED
  BY <1>3, <1>4, <1>5, <1>6, <1>7, <1>8 DEF Next

\* Queues are attached at a run's start, picked up with its answer's, and
\* detached by the end of a run, where each meets only runs it disturbs.
LEMMA OwnQueueStep == ChatInv /\ Apart /\ OwnQueue /\ [Next]_vars => OwnQueue'
<1> SUFFICES ASSUME ChatInv, Apart, OwnQueue, [Next]_vars PROVE OwnQueue'
  OBVIOUS
<1>t. TypeOK
  BY DEF ChatInv
<1>a. NoReq \notin Requests
  BY ChatAssumption
<1>1. ASSUME captured' = captured, attached' = attached, proc' = proc,
             disturbed \subseteq disturbed',
             \A q \in Requests \ WsRequests : run'[q] \in {"graph", "llm", "post"} =>
                run[q] \in {"graph", "llm", "post"} /\ (run'[q] = "llm" => run[q] = "llm")
      PROVE  OwnQueue'
  BY <1>1 DEF OwnQueue
<1>2. ASSUME NEW r \in Requests, Acquire(r) PROVE OwnQueue'
  <2>1. \A q \in Requests \ WsRequests : run'[q] \in {"graph", "llm", "post"} => run'[q] = run[q]
    BY <1>t, <1>2 DEF Acquire, TypeOK
  <2>2. QED
    BY <1>1, <1>2, <2>1 DEF Acquire, rigid
<1>3. ASSUME NEW r \in Requests, Handler(r), ~Acquire(r) PROVE OwnQueue'
  BY <1>1, <1>3 DEF Handler, Admit, Deny, Refuse, Yield, StreamDone, Release,
     ReleaseFails, CutShort, Bill, rigid, runVars
<1>4. ASSUME NEW r \in Requests, ConsumerStart(r) PROVE OwnQueue'
  <2>1. /\ run[r] = "scheduled" /\ run' = [run EXCEPT ![r] = "graph"]
        /\ attached' = [attached EXCEPT ![proc[r]] = r]
        /\ UNCHANGED <<proc, captured, disturbed>>
    BY <1>4 DEF ConsumerStart, rigid
  <2>2. \A q \in Requests \ {r} : proc[q] = proc[r] /\ Live(q) => q \in disturbed
    BY <2>1 DEF Apart, Live, Running
  <2>3. QED
    BY <1>t, <2>1, <2>2 DEF OwnQueue, TypeOK, Live, Running
<1>5. ASSUME NEW r \in Requests, LlmStart(r) PROVE OwnQueue'
  <2>1. /\ run[r] = "graph" /\ run' = [run EXCEPT ![r] = "llm"]
        /\ captured' = [captured EXCEPT ![r] = attached[proc[r]]]
        /\ UNCHANGED <<proc, attached, disturbed>>
    BY <1>5 DEF LlmStart, rigid
  <2>2. ASSUME NEW q \in Requests, attached[proc[r]] = q, q # r PROVE q \in disturbed
    <3>1. run[q] \in {"graph", "llm", "post"} /\ proc[q] = proc[r]
      BY <1>t, <1>a, <2>2 DEF ChatInv, AttachedIsLive, TypeOK
    <3>2. QED
      BY <2>1, <2>2, <3>1 DEF Apart, Live, Running
  <2>3. \A x, q \in Requests : captured'[q] = x /\ q # x => x \in disturbed
    BY <1>t, <2>1, <2>2 DEF OwnQueue, TypeOK
  <2>4. QED
    BY <1>t, <2>1, <2>3 DEF OwnQueue, TypeOK
<1>6. ASSUME NEW r \in Requests, NEW d \in Diffs, NodeUpdate(r, d) PROVE OwnQueue'
  BY <1>1, <1>6 DEF NodeUpdate, rigid
<1>7. ASSUME NEW r \in Requests, LlmToken(r) PROVE OwnQueue'
  BY <1>1, <1>7 DEF LlmToken, rigid
<1>8. ASSUME NEW r \in Requests, NEW failed \in BOOLEAN, NEW d \in Diffs, LlmUpdate(r, failed, d)
      PROVE  OwnQueue'
  BY <1>t, <1>1, <1>8 DEF LlmUpdate, rigid, TypeOK
<1>9. ASSUME NEW r \in Requests, NEW ok \in BOOLEAN, run[r] \in {"graph", "post"}, ConsumerEnd(r, ok),
             UNCHANGED <<proc, captured, disturbed>>
      PROVE  OwnQueue'
  <2>1. \A q \in Requests \ {r} : proc[q] = proc[r] /\ Live(q) => q \in disturbed
    BY <1>9 DEF Apart, Live, Running
  <2>2. run' = [run EXCEPT ![r] = "done"] /\ attached' = [attached EXCEPT ![proc[r]] = NoReq]
    BY <1>9 DEF ConsumerEnd
  <2>3. QED
    BY <1>t, <1>9, <2>1, <2>2 DEF OwnQueue, TypeOK, Live, Running
<1>10. ASSUME NEW r \in Requests, NEW ok \in BOOLEAN, WsEnd(r, ok) PROVE OwnQueue'
  BY <1>t, <1>1, <1>10 DEF WsEnd, rigid, TypeOK
<1>11. ASSUME NEW r \in Requests, Disconnect(r) \/ DisconnectEarly(r) PROVE OwnQueue'
  BY <1>1, <1>11 DEF Disconnect, DisconnectEarly, rigid, runVars
<1>12. ASSUME NEW t \in Threads, Expire(t) PROVE OwnQueue'
  BY <1>1, <1>12 DEF Expire, rigid, runVars
<1>13. ASSUME NEW p \in Procs, Crash(p) PROVE OwnQueue'
  <2>1. \A q \in Requests : run'[q] \in {"graph", "llm", "post"} =>
           run'[q] = run[q] /\ proc[q] # p
    BY <1>t, <1>13 DEF Crash, ChatInv, NoRunBeforeLock, TypeOK, Live, Running
  <2>2. attached' = [attached EXCEPT ![p] = NoReq] /\ UNCHANGED <<proc, captured, disturbed>>
    BY <1>13 DEF Crash, rigid
  <2>3. QED
    BY <1>t, <2>1, <2>2 DEF OwnQueue, TypeOK
<1>14. CASE UNCHANGED vars
  BY <1>1, <1>14 DEF vars, rigid, runVars
<1>15. ASSUME NEW r \in Requests, Graph(r) PROVE OwnQueue'
  <2>1. CASE ConsumerFinish(r)
    BY <1>9, <2>1 DEF ConsumerFinish, rigid
  <2>2. CASE ConsumerFail(r)
    BY <1>9, <2>2 DEF ConsumerFail, rigid
  <2>3. QED
    BY <1>4, <1>5, <1>6, <1>7, <1>8, <1>10, <1>15, <2>1, <2>2 DEF Graph
<1>16. QED
  BY <1>2, <1>3, <1>15, <1>11, <1>12, <1>13, <1>14 DEF Next

\* A stream of which nothing changes stays as it was told.
LEMMA Untouched ==
    ASSUME NEW r \in Requests, Told(r),
           out'[r] = out[r], queue'[r] = queue[r], run'[r] = run[r], tokens'[r] = tokens[r],
           gen'[r] = gen[r] \/ (gen[r] # "loop" /\ gen'[r] \notin {"new", "loop"}
                                /\ (gen'[r] = "admitted" => gen[r] = "new"))
    PROVE  Told(r)'
BY DEF Told, Stream, Live

\* The items of a queue stand behind those already handed over.
LEMMA BehindEachOther ==
    ASSUME NEW o \in Seq(Items), NEW q \in Seq(Items), q # <<>>
    PROVE  LET s == o \o q IN
           /\ s \in Seq(Items)
           /\ Len(s) = Len(o) + Len(q)
           /\ Len(o) \in Nat /\ Len(q) \in Nat /\ Len(q) > 0
           /\ DOMAIN s = 1..Len(s) /\ DOMAIN o = 1..Len(o)
           /\ Len(o) + 1 \in DOMAIN s
           /\ s[Len(o) + 1] = Head(q)
           /\ \A i \in DOMAIN o : i \in DOMAIN s /\ s[i] = o[i]
           /\ Len(q) = 1 => Tail(q) = <<>> /\ q = <<Head(q)>>
           /\ Len(q) # 1 => Tail(q) # <<>>
<1>h. q = <<Head(q)>> \o Tail(q)
  OBVIOUS
<1> DEFINE s == o \o q
<1>1. /\ s \in Seq(Items)
      /\ Len(s) = Len(o) + Len(q)
      /\ DOMAIN s = 1..Len(s) /\ DOMAIN o = 1..Len(o)
  OBVIOUS
<1>2. Len(o) \in Nat /\ Len(q) \in Nat /\ Len(q) > 0
  OBVIOUS
<1>3. s[Len(o) + 1] = Head(q)
  <2>1. Len(o) + 1 \in 1..(Len(o) + Len(q)) /\ ~(Len(o) + 1 <= Len(o))
    BY <1>2
  <2>2. Len(o) + 1 - Len(o) = 1
    BY <1>2
  <2>3. s[Len(o) + 1] = q[Len(o) + 1 - Len(o)]
    BY <2>1, ConcatProperties
  <2>4. QED
    BY <2>2, <2>3
<1>4. \A i \in DOMAIN o : i \in DOMAIN s /\ s[i] = o[i]
  BY <1>1, <1>2
<1>5. Len(q) = 1 => Tail(q) = <<>> /\ q = <<Head(q)>>
  <2> SUFFICES ASSUME Len(q) = 1 PROVE Tail(q) = <<>> /\ q = <<Head(q)>>
    OBVIOUS
  <2>1. Tail(q) \in Seq(Items) /\ Len(Tail(q)) = 0
    BY HeadTailProperties
  <2>2. Tail(q) = <<>>
    BY <2>1, EmptySeq
  <2>3. <<Head(q)>> \o <<>> = <<Head(q)>>
    OBVIOUS
  <2>4. QED
    BY <1>h, <2>2, <2>3
<1>6. Len(q) # 1 => Tail(q) # <<>>
  <2>1. Len(Tail(q)) = Len(q) - 1
    BY HeadTailProperties
  <2>2. Len(<<>>) = 0
    OBVIOUS
  <2>3. Len(q) # 1 => Len(Tail(q)) # 0
    BY <1>2, <2>1
  <2>4. QED
    BY <2>2, <2>3
<1> HIDE DEF s
<1>7. Len(o) + 1 \in DOMAIN s
  <2>1. Len(o) + 1 \in 1..(Len(o) + Len(q))
    BY <1>2
  <2>2. QED
    BY <1>1, <2>1
<1>8. QED
  BY <1>1, <1>2, <1>3, <1>4, <1>5, <1>6, <1>7 DEF s

\* A run puts one more item into its queue, its next token or no token.
LEMMA OneMore ==
    ASSUME TypeOK, NEW r \in Requests, NEW n \in Nat, NEW x \in Items,
           NEW q \in Seq(Items), Exact(out[r] \o q, r, n), Open(out[r] \o q),
           x.kind \notin {"end", "done", "tok"}
    PROVE  /\ Append(q, x) \in Seq(Items)
           /\ Exact(out[r] \o Append(q, x), r, n)
           /\ Open(out[r] \o Append(q, x))
<1>1. out[r] \in Seq(Items) /\ out[r] \o q \in Seq(Items)
  BY DEF TypeOK
<1>2. out[r] \o Append(q, x) = Append(out[r] \o q, x)
  BY <1>1, GrowsAtEnd
<1> DEFINE s == out[r] \o q
<1>3. s \in Seq(Items) /\ Exact(s, r, n) /\ Open(s)
  BY <1>1
<1> HIDE DEF s
<1>4. Exact(Append(s, x), r, n)
  BY <1>3, ExactOther
<1>5. Open(Append(s, x))
  BY <1>3 DEF Open
<1>6. QED
  BY <1>2, <1>4, <1>5 DEF s

\* An update adds the whole answer, a correction, or nothing to a stream.
LEMMA UpdateTold ==
    ASSUME TypeOK, NEW r \in Requests \ WsRequests, NEW llm \in BOOLEAN, NEW d \in AllDiffs,
           HandleUpdate(r, llm, d), Live(r), Live(r)', Told(r),
           out' = out, tokens' = tokens
    PROVE  Told(r)'
<1> DEFINE q0 == queue[r]
           whole == d.resp /\ ~sent[r] /\ ~llm /\ q0 = <<>>
           q1 == IF whole THEN Append(q0, Item("full", r, 0)) ELSE q0
           q2 == IF d.corr THEN Append(q1, Item("corr", r, 0)) ELSE q1
           Fits(q) == /\ q \in Seq(Items)
                      /\ Exact(out[r] \o q, r, tokens[r])
                      /\ Open(out[r] \o q)
<1>1. queue'[r] = q2
  <2>1. queue' = [queue EXCEPT ![r] = q2]
    BY DEF HandleUpdate
  <2> HIDE DEF q2
  <2>2. QED
    BY <2>1 DEF TypeOK
<1>2. /\ Item("full", r, 0) \in Items /\ Item("full", r, 0).kind = "full"
      /\ Item("corr", r, 0) \in Items /\ Item("corr", r, 0).kind = "corr"
      /\ tokens[r] \in Nat
  BY ItemType DEF TypeOK
<1>3. Fits(q0)
  BY DEF Told, Stream, TypeOK
<1>4. ASSUME NEW q, Fits(q) PROVE Fits(Append(q, Item("full", r, 0))) /\ Fits(Append(q, Item("corr", r, 0)))
  BY <1>2, <1>4, OneMore
<1> HIDE DEF Fits
<1>5. Fits(q1)
  BY <1>3, <1>4
<1>6. Fits(q2)
  BY <1>4, <1>5
<1> HIDE DEF q0, q1, q2, whole
<1>7. Exact(Stream(r), r, tokens[r])' /\ Open(Stream(r))'
  BY <1>1, <1>6 DEF Fits, Stream
<1>8. run'[r] \notin {"none", "done"}
  BY DEF Live, Running
<1>9. QED
  BY <1>7, <1>8 DEF Told

\* A token goes to the end of its own stream.
LEMMA TokenTold ==
    ASSUME TypeOK, NEW r \in Requests \ WsRequests, LlmToken(r), captured[r] = r, Told(r)
    PROVE  Told(r)'
<1> DEFINE x == Item("tok", r, tokens[r] + 1)
<1>1. captured[r] # NoReq
  BY ChatAssumption
<1>2. /\ queue'[r] = Append(queue[r], x)
      /\ tokens'[r] = tokens[r] + 1
      /\ out' = out /\ run' = run /\ gen' = gen /\ run[r] = "llm"
  BY <1>1 DEF LlmToken, Put, TypeOK
<1>3. /\ x \in Items /\ x.kind = "tok" /\ tokens[r] \in Nat
      /\ out[r] \in Seq(Items) /\ queue[r] \in Seq(Items) /\ Stream(r) \in Seq(Items)
  BY ItemType DEF TypeOK, Stream
<1> HIDE DEF x
<1>4. Stream(r)' = Append(Stream(r), x)
  <2>1. out[r] \o Append(queue[r], x) = Append(out[r] \o queue[r], x)
    BY <1>3, GrowsAtEnd
  <2>2. QED
    BY <1>2, <2>1, Zenon DEF Stream
<1>5. Exact(Stream(r), r, tokens[r]) /\ Open(Stream(r))
  BY <1>2 DEF Told, Live, Running
<1> DEFINE s == Stream(r)
<1>6. Exact(Append(s, x), r, tokens[r] + 1)
  BY <1>3, <1>5, ExactToken DEF x
<1>7. Open(Append(s, x))
  BY <1>3, <1>5 DEF Open
<1>8. QED
  BY <1>2, <1>4, <1>6, <1>7 DEF Told, Live, Running

\* The last acts of a run: an apology, perhaps, and the sentinel.
LEMMA EndTold ==
    ASSUME ChatInv, NEW r \in Requests \ WsRequests, NEW ok \in BOOLEAN, ConsumerEnd(r, ok),
           Live(r), r \notin gone, Told(r), out' = out, tokens' = tokens, gen' = gen
    PROVE  Told(r)'
<1>t. TypeOK
  BY DEF ChatInv
<1> DEFINE q0 == queue[r]
           q1 == IF ok \/ sent[r] THEN q0 ELSE Append(q0, Item("sorry", r, 0))
           x == Item("end", r, 0)
<1>1. /\ Item("sorry", r, 0) \in Items /\ Item("sorry", r, 0).kind = "sorry"
      /\ x \in Items /\ x.kind = "end"
      /\ tokens[r] \in Nat /\ out[r] \in Seq(Items) /\ q0 \in Seq(Items)
  BY <1>t, ItemType DEF TypeOK
<1>2. queue'[r] = q1 \o <<x>>
  <2> DEFINE q2 == q1 \o <<x>>
  <2>1. queue' = [queue EXCEPT ![r] = q2]
    BY DEF ConsumerEnd
  <2> HIDE DEF q2
  <2>2. queue'[r] = q2
    BY <1>t, <2>1 DEF TypeOK
  <2>3. QED
    BY <2>2 DEF q2
<1>3. Exact(out[r] \o q0, r, tokens[r]) /\ Open(out[r] \o q0)
  BY DEF Told, Stream
<1>4. q1 \in Seq(Items) /\ Exact(out[r] \o q1, r, tokens[r]) /\ Open(out[r] \o q1)
  BY <1>t, <1>1, <1>3, OneMore
<1> HIDE DEF q0, q1, x
<1>5. queue'[r] = Append(q1, x)
  BY <1>1, <1>2, <1>4
<1> DEFINE s == out[r] \o q1
<1>6. s \in Seq(Items)
  BY <1>1, <1>4
<1>7. Stream(r)' = Append(s, x)
  <2>1. out[r] \o Append(q1, x) = Append(out[r] \o q1, x)
    BY <1>1, <1>4, GrowsAtEnd
  <2>2. QED
    BY <1>5, <2>1, Zenon DEF Stream
<1>8. Exact(s, r, tokens[r]) /\ Open(s)
  BY <1>4
<1> HIDE DEF s
<1>9. Exact(Append(s, x), r, tokens[r])
  BY <1>1, <1>6, <1>8, ExactOther
<1>10. Closed(Append(s, x), "end")
  <2>1. /\ Len(Append(s, x)) = Len(s) + 1 /\ DOMAIN Append(s, x) = 1..(Len(s) + 1)
        /\ DOMAIN s = 1..Len(s) /\ Len(s) \in Nat
        /\ Append(s, x)[Len(s) + 1] = x
        /\ \A i \in DOMAIN s : Append(s, x)[i] = s[i]
        /\ Append(s, x) # <<>>
    BY <1>1, <1>6
  <2>2. QED
    BY <1>1, <1>8, <2>1 DEF Closed, Open
<1>11. queue'[r] # <<>>
  BY <1>1, <1>4, <1>5
<1>12. run'[r] = "done"
  BY <1>t DEF ConsumerEnd, TypeOK
<1>13. gen'[r] = "loop"
  BY DEF ChatInv, LoopUntilDone
<1>14. ~Live(r)'
  BY <1>12 DEF Live, Running
<1>15. QED
  BY <1>7, <1>9, <1>10, <1>11, <1>12, <1>13, <1>14 DEF Told

\* The generator hands over the first item of the queue.
LEMMA YieldTold ==
    ASSUME TypeOK, NEW r \in Requests, Yield(r), Told(r)
    PROVE  Told(r)'
<1>1. /\ out[r] \in Seq(Items) /\ queue[r] \in Seq(Items) /\ queue[r] # <<>>
      /\ Head(queue[r]) \in Items /\ Tail(queue[r]) \in Seq(Items)
      /\ gen[r] = "loop" /\ Head(queue[r]).kind # "end"
  BY DEF Yield, TypeOK
<1>2. /\ out'[r] = Append(out[r], Head(queue[r])) /\ queue'[r] = Tail(queue[r])
      /\ run' = run /\ gen' = gen /\ tokens' = tokens
  BY DEF Yield, TypeOK, runVars
<1>3. Stream(r)' = Stream(r)
  BY <1>1, <1>2, MovesOver DEF Stream
<1>4. run[r] # "none"
  BY <1>1 DEF Told
<1>5. ASSUME run[r] = "done" PROVE queue'[r] # <<>>
  <2>1. Closed(Stream(r), "end")
    BY <1>1, <1>5 DEF Told
  <2> DEFINE o == out[r]
             q == queue[r]
             s == Stream(r)
  <2>2. /\ Len(s) = Len(o) + Len(q) /\ Len(o) \in Nat /\ Len(q) \in Nat
        /\ Len(o) + 1 \in DOMAIN s /\ s[Len(o) + 1] = Head(q)
        /\ Len(q) # 1 => Tail(q) # <<>>
    BY <1>1, BehindEachOther DEF Stream
  <2>3. Closed(s, "end")
    BY <2>1
  <2> HIDE DEF o, s, q
  <2>4. Len(q) # 1
    <3>1. SUFFICES ASSUME Len(q) = 1 PROVE FALSE
      OBVIOUS
    <3>2. Head(q).kind = "end"
      BY <2>2, <2>3, <3>1 DEF Closed
    <3>3. QED
      BY <1>1, <3>2 DEF q
  <2>5. QED
    BY <1>2, <2>2, <2>4 DEF q
<1>6. QED
  BY <1>1, <1>2, <1>3, <1>4, <1>5 DEF Told, Live

\* The sentinel is the last item of its queue, and [DONE] takes its place.
LEMMA DoneTold ==
    ASSUME ChatInv, NEW r \in Requests, StreamDone(r), run[r] # "dead", Told(r)
    PROVE  Told(r)'
<1>t. TypeOK
  BY DEF ChatInv
<1> DEFINE x == Item("done", r, 0)
           e == Head(queue[r])
<1>1. /\ out[r] \in Seq(Items) /\ queue[r] \in Seq(Items) /\ queue[r] # <<>>
      /\ e \in Items /\ e.kind = "end" /\ e = queue[r][1] /\ 1 \in DOMAIN queue[r]
      /\ gen[r] = "loop"
  BY <1>t DEF StreamDone, TypeOK
<1>2. /\ out'[r] = Append(out[r], x) /\ queue'[r] = Tail(queue[r])
      /\ run' = run /\ gen'[r] = "closing" /\ tokens' = tokens
  BY <1>t DEF StreamDone, TypeOK, runVars
<1>3. x \in Items /\ x.kind = "done" /\ tokens[r] \in Nat
  BY <1>t, ItemType DEF TypeOK
<1> HIDE DEF x, e
<1>4. run[r] = "done"
  <2>1. ~Live(r) /\ run[r] # "none"
    BY <1>1 DEF ChatInv, EndAfterRun
  <2>2. QED
    BY <1>t, <2>1 DEF TypeOK, Live
<1>5. Exact(Stream(r), r, tokens[r]) /\ Closed(Stream(r), "end")
  BY <1>1, <1>4 DEF Told
<1> DEFINE o == out[r]
           q == queue[r]
           s0 == Stream(r)
           s == Append(o, x)
<1>6. /\ Len(s0) = Len(o) + Len(q) /\ Len(o) \in Nat /\ Len(q) \in Nat
      /\ DOMAIN o = 1..Len(o) /\ Len(o) + 1 \in DOMAIN s0 /\ s0[Len(o) + 1] = Head(q)
      /\ \A i \in DOMAIN o : i \in DOMAIN s0 /\ s0[i] = o[i]
      /\ Len(q) = 1 => Tail(q) = <<>> /\ q = <<Head(q)>>
  BY <1>1, BehindEachOther DEF Stream
<1>7. Len(q) = 1
  <2>1. Head(q).kind = "end"
    BY <1>1 DEF e
  <2>2. Closed(s0, "end")
    BY <1>5
  <2> HIDE DEF o, q, s0, s
  <2>3. Len(o) + 1 = Len(s0)
    BY <1>6, <2>1, <2>2 DEF Closed
  <2>4. Len(o) + 1 = Len(o) + Len(q) /\ Len(o) \in Nat /\ Len(q) \in Nat
    BY <1>6, <2>3
  <2>5. QED
    BY <2>4
<1>8. queue'[r] = <<>> /\ queue[r] = <<e>>
  <2>1. Tail(q) = <<>> /\ q = <<Head(q)>>
    BY <1>6, <1>7
  <2>2. QED
    BY <1>2, <2>1 DEF e
<1>9. Stream(r) = Append(out[r], e)
  BY <1>1, <1>8 DEF Stream
<1>10. Exact(out[r], r, tokens[r])
  BY <1>1, <1>3, <1>5, <1>9, ExactOther
<1>11. Exact(s, r, tokens[r])
  BY <1>1, <1>3, <1>10, ExactOther
<1>12. /\ s \in Seq(Items) /\ Len(s) = Len(o) + 1 /\ DOMAIN s = 1..(Len(o) + 1)
       /\ s[Len(o) + 1] = x /\ s # <<>>
       /\ \A i \in DOMAIN o : s[i] = o[i]
  BY <1>1, <1>3
<1>13. Closed(s, "done")
  <2>1. \A i \in DOMAIN o : o[i].kind \notin {"end", "done"}
    <3>1. Closed(s0, "end")
      BY <1>5
    <3> HIDE DEF o, q, s0, s
    <3>2. QED
      BY <1>6, <1>7, <3>1 DEF Closed
  <2>2. \A i \in DOMAIN s : i # Len(s) => i \in DOMAIN o
    BY <1>6, <1>12
  <2> HIDE DEF o, s
  <2>3. QED
    BY <1>3, <1>12, <2>1, <2>2 DEF Closed
<1>14. Stream(r)' = s
  BY <1>2, <1>8, <1>12 DEF Stream
<1> HIDE DEF s
<1>15. QED
  BY <1>2, <1>4, <1>8, <1>11, <1>13, <1>14 DEF Told, Live, Running

(***************************************************************************)
(* Every step keeps every undisturbed stream as Told says: only its own    *)
(* run and its own generator touch it.                                     *)
(***************************************************************************)
\* The steps of a generator or a WebSocket handler.
LEMMA AllToldHandler ==
    ASSUME ChatInv, AllTold, NEW r \in Requests, Handler(r)
    PROVE  AllTold'
<1>t. TypeOK
  BY DEF ChatInv
<1>1. SUFFICES ASSUME NEW q \in Undisturbed', run'[q] # "dead" PROVE Told(q)'
  BY DEF AllTold
<1>2. disturbed \subseteq disturbed' /\ gone' = gone
  BY DEF Handler, Admit, Deny, Acquire, Refuse, Yield, StreamDone, Release, ReleaseFails,
     CutShort, Bill
<1>3. q \in Undisturbed /\ q \in Requests /\ q \notin WsRequests /\ q \notin gone
  BY <1>2 DEF Undisturbed
<1>4. (run[q] # "dead" => Told(q)) /\ tokens' = tokens
  BY <1>3 DEF AllTold, Handler, Admit, Deny, Acquire, Refuse, Yield, StreamDone, Release,
     ReleaseFails, CutShort, Bill, runVars
<1>5. CASE q # r
  <2>1. out'[q] = out[q] /\ queue'[q] = queue[q] /\ run'[q] = run[q] /\ gen'[q] = gen[q]
    BY <1>t, <1>3, <1>5 DEF TypeOK, Handler, Admit, Deny, Acquire, Refuse, Yield, StreamDone,
       Release, ReleaseFails, CutShort, Bill, runVars
  <2>2. QED
    BY <1>1, <1>3, <1>4, <2>1, Untouched
<1> DEFINE s == out'[q]
<1>6. ASSUME q = r, Admit(r) \/ Release(r) \/ ReleaseFails(r) \/ CutShort(r) \/ Bill(r)
      PROVE  Told(q)'
  <2>1. /\ out' = out /\ queue' = queue /\ run' = run
        /\ gen[q] # "loop" /\ gen'[q] \notin {"new", "loop"}
        /\ gen'[q] = "admitted" => gen[q] = "new"
    BY <1>t, <1>6 DEF TypeOK, Admit, Release, ReleaseFails, AfterRelease, CutShort, Bill, runVars
  <2>2. QED
    BY <1>1, <1>3, <1>4, <2>1, Untouched
<1>7. ASSUME q = r, Deny(r) \/ Refuse(r) PROVE Told(q)'
  <2>1. /\ gen[q] \in {"new", "admitted"} /\ gen'[q] = "exit"
        /\ queue' = queue /\ run' = run
        /\ out'[q] \in {out[q], <<Item("limit", q, 0), Item("done", q, 0)>>,
                         <<Item("concurrent", q, 0)>>}
    BY <1>t, <1>3, <1>7 DEF TypeOK, Deny, Refuse, ReadyToLock, runVars
  <2>2. run[q] = "none" /\ Told(q)
    BY <1>3, <1>4, <2>1 DEF ChatInv, NoRunBeforeLock
  <2>3. tokens[q] = 0 /\ queue[q] = <<>> /\ out[q] = <<>>
    BY <2>1, <2>2 DEF Told
  <2>4. Stream(q)' = s /\ s \in Seq(Items)
    <3>1. /\ Item("limit", q, 0) \in Items /\ Item("done", q, 0) \in Items
          /\ Item("concurrent", q, 0) \in Items
      BY <1>3, ItemType
    <3>2. s \in Seq(Items)
      <4>1. /\ <<Item("limit", q, 0), Item("done", q, 0)>> \in Seq(Items)
            /\ <<Item("concurrent", q, 0)>> \in Seq(Items)
            /\ <<>> \in Seq(Items)
        BY <3>1
      <4>2. QED
        BY <2>1, <2>3, <4>1, Zenon
    <3>3. queue'[q] = <<>>
      BY <2>1, <2>3
    <3> HIDE DEF s
    <3>4. s \o <<>> = s
      BY <3>2
    <3>5. QED
      BY <3>2, <3>3, <3>4 DEF Stream, s
  <2>5. \A i \in DOMAIN s : s[i].kind # "tok"
    BY <2>1, <2>3 DEF Item
  <2> HIDE DEF s
  <2>6. Exact(s, q, 0)
    BY <2>5 DEF Exact
  <2>7. QED
    BY <1>4, <2>1, <2>2, <2>3, <2>4, <2>6 DEF Told, Live, Running
<1>8. ASSUME q = r, Acquire(r) PROVE Told(q)'
  <2>1. /\ gen[q] \in {"new", "admitted"} /\ gen'[q] = "loop" /\ run'[q] = "scheduled"
        /\ queue' = queue /\ out' = out
    BY <1>t, <1>3, <1>8 DEF TypeOK, Acquire, ReadyToLock
  <2>2. run[q] = "none" /\ Told(q)
    BY <1>3, <1>4, <2>1 DEF ChatInv, NoRunBeforeLock
  <2>3. queue[q] = <<>> /\ out[q] = <<>>
    BY <2>1, <2>2 DEF Told
  <2>4. Stream(q)' = Stream(q) /\ Stream(q) = <<>>
    BY <2>1, <2>3 DEF Stream
  <2>5. Open(Stream(q)')
    BY <2>4 DEF Open
  <2>6. Exact(Stream(q)', q, tokens'[q])
    BY <1>4, <2>2, <2>4 DEF Told
  <2>7. QED
    BY <2>1, <2>5, <2>6 DEF Told, Live, Open
<1>9. ASSUME q = r, Yield(r) PROVE Told(q)'
  BY <1>t, <1>1, <1>3, <1>4, <1>9, YieldTold DEF Yield, runVars
<1>10. ASSUME q = r, StreamDone(r) PROVE Told(q)'
  BY <1>1, <1>3, <1>4, <1>10, DoneTold DEF StreamDone, runVars
<1>11. QED
  BY <1>5, <1>6, <1>7, <1>8, <1>9, <1>10 DEF Handler

\* The steps of a graph run.
LEMMA AllToldGraph ==
    ASSUME ChatInv, OwnQueue, AllTold, NEW r \in Requests, Graph(r)
    PROVE  AllTold'
<1>t. TypeOK
  BY DEF ChatInv
<1>1. SUFFICES ASSUME NEW q \in Undisturbed', run'[q] # "dead" PROVE Told(q)'
  BY DEF AllTold
<1>2. disturbed' = disturbed /\ gone' = gone /\ Live(r)
  BY DEF Graph, ConsumerStart, NodeUpdate, LlmStart, LlmToken, LlmUpdate, ConsumerFinish,
     ConsumerFail, WsEnd, Live, Running
<1>3. q \in Undisturbed /\ q \in Requests \ WsRequests /\ q \notin gone /\ q \notin disturbed
  BY <1>2 DEF Undisturbed
<1>4. ASSUME q # r PROVE Told(q)'
  <2>1. /\ run'[q] = run[q] /\ gen'[q] = gen[q] /\ out'[q] = out[q] /\ tokens'[q] = tokens[q]
    BY <1>t, <1>3, <1>4 DEF TypeOK, Graph, ConsumerStart, NodeUpdate, LlmStart, LlmToken,
       LlmUpdate, ConsumerFinish, ConsumerFail, ConsumerEnd, WsEnd
  <2>2. captured[r] # q
    BY <1>3, <1>4 DEF OwnQueue
  <2>3. queue'[q] = queue[q]
    <3>1. ASSUME NEW llm \in BOOLEAN, NEW d \in Diffs, HandleUpdate(r, llm, d)
          PROVE  queue'[q] = queue[q]
      BY <1>t, <1>3, <1>4, <3>1 DEF HandleUpdate, TypeOK
    <3>2. LlmToken(r) => queue'[q] = queue[q]
      BY <1>t, <1>3, <2>2 DEF LlmToken, Put, TypeOK
    <3>3. ASSUME NEW ok \in BOOLEAN, ConsumerEnd(r, ok) PROVE queue'[q] = queue[q]
      BY <1>t, <1>3, <1>4, <3>3, ConsumerEndFacts
    <3>4. QED
      BY <3>1, <3>2, <3>3 DEF Graph, ConsumerStart, NodeUpdate, LlmStart, LlmUpdate,
         ConsumerFinish, ConsumerFail, WsEnd
  <2>4. Told(q)
    BY <1>1, <1>3, <2>1 DEF AllTold
  <2>5. QED
    BY <1>3, <2>1, <2>3, <2>4, Untouched
<1>5. ASSUME q = r PROVE Told(q)'
  <2> SUFFICES Told(r)'
    BY <1>5
  <2>1. r \in Requests \ WsRequests /\ r \notin gone /\ r \notin disturbed /\ Told(r)
    BY <1>2, <1>3, <1>5 DEF AllTold, Live, Running
  <2>2. ASSUME NEW v \in Running, NEW u \in Running, run[r] = u, run' = [run EXCEPT ![r] = v],
               UNCHANGED <<out, queue, tokens, gen>>
        PROVE  Told(r)'
    <3>1. run'[r] = v
      BY <1>t, <2>2 DEF TypeOK
    <3>2. Stream(r)' = Stream(r)
      BY <2>2 DEF Stream
    <3>3. QED
      BY <2>1, <2>2, <3>1, <3>2 DEF Told, Live, Running
  <2>3. CASE ConsumerStart(r)
    BY <2>2, <2>3 DEF ConsumerStart, Running
  <2>4. CASE LlmStart(r)
    BY <2>2, <2>4 DEF LlmStart, Running
  <2>5. CASE LlmToken(r)
    <3>1. captured[r] = r
      BY <2>1, <2>5 DEF OwnQueue, LlmToken
    <3>2. QED
      BY <1>t, <2>1, <2>5, <3>1, TokenTold
  <2>6. ASSUME NEW d \in Diffs, NodeUpdate(r, d) PROVE Told(r)'
    <3>1. /\ d \in AllDiffs /\ HandleUpdate(r, FALSE, d) /\ Live(r)'
          /\ out' = out /\ tokens' = tokens
      BY <1>2, <2>6, ChatAssumption DEF NodeUpdate, Live
    <3>2. QED
      BY <1>t, <1>2, <2>1, <3>1, UpdateTold
  <2>7. ASSUME NEW failed \in BOOLEAN, NEW d \in Diffs, LlmUpdate(r, failed, d) PROVE Told(r)'
    <3>1. /\ d \in AllDiffs /\ HandleUpdate(r, TRUE, d) /\ Live(r)'
          /\ out' = out /\ tokens' = tokens
      BY <1>t, <2>7, ChatAssumption DEF LlmUpdate, Live, Running, TypeOK
    <3>2. QED
      BY <1>t, <1>2, <2>1, <3>1, UpdateTold
  <2>8. CASE ConsumerFinish(r)
    <3>1. ConsumerEnd(r, TRUE) /\ out' = out /\ tokens' = tokens /\ gen' = gen
      BY <2>8 DEF ConsumerFinish
    <3>2. QED
      BY <1>2, <2>1, <3>1, EndTold
  <2>9. CASE ConsumerFail(r)
    <3>1. ConsumerEnd(r, FALSE) /\ out' = out /\ tokens' = tokens /\ gen' = gen
      BY <2>9 DEF ConsumerFail
    <3>2. QED
      BY <1>2, <2>1, <3>1, EndTold
  <2>10. ASSUME NEW ok \in BOOLEAN, WsEnd(r, ok) PROVE Told(r)'
    BY <2>1, <2>10 DEF WsEnd
  <2>11. QED
    BY <1>5, <2>3, <2>4, <2>5, <2>6, <2>7, <2>8, <2>9, <2>10 DEF Graph
<1>6. QED
  BY <1>4, <1>5

\* Every step.
LEMMA AllToldStep == ChatInv /\ OwnQueue /\ AllTold /\ [Next]_vars => AllTold'
<1> SUFFICES ASSUME ChatInv, OwnQueue, AllTold, [Next]_vars PROVE AllTold'
  OBVIOUS
<1>t. TypeOK
  BY DEF ChatInv
<1>1. ASSUME NEW r \in Requests, Handler(r) PROVE AllTold'
  BY <1>1, AllToldHandler
<1>2. ASSUME NEW r \in Requests, Graph(r) PROVE AllTold'
  BY <1>2, AllToldGraph
<1>3. ASSUME UNCHANGED <<out, queue, tokens>>, disturbed' = disturbed, gone \subseteq gone',
             \A q \in Requests :
                \/ q \in gone'
                \/ run'[q] = "dead"
                \/ run'[q] = run[q] /\ gen'[q] = gen[q]
      PROVE  AllTold'
  <2>1. SUFFICES ASSUME NEW q \in Undisturbed', run'[q] # "dead" PROVE Told(q)'
    BY DEF AllTold
  <2>2. q \in Undisturbed /\ q \in Requests /\ q \notin gone'
    BY <1>3 DEF Undisturbed
  <2>3. run'[q] = run[q] /\ gen'[q] = gen[q]
    BY <1>3, <2>1, <2>2
  <2>4. Told(q)
    BY <2>1, <2>2, <2>3 DEF AllTold
  <2>5. QED
    BY <1>3, <2>2, <2>3, <2>4, Untouched
<1>4. ASSUME NEW r \in Requests, Disconnect(r) \/ DisconnectEarly(r) PROVE AllTold'
  <2>1. /\ UNCHANGED <<out, queue, tokens, run, disturbed>> /\ gone' = gone \cup {r}
        /\ \A q \in Requests \ {r} : gen'[q] = gen[q]
    BY <1>t, <1>4 DEF Disconnect, DisconnectEarly, runVars, TypeOK
  <2>2. QED
    BY <1>3, <2>1
<1>5. ASSUME NEW t \in Threads, Expire(t) PROVE AllTold'
  BY <1>3, <1>5 DEF Expire, runVars
<1>6. ASSUME NEW p \in Procs, Crash(p) PROVE AllTold'
  BY <1>t, <1>3, <1>6 DEF Crash, TypeOK
<1>7. CASE UNCHANGED vars
  BY <1>3, <1>7 DEF vars, runVars
<1>8. QED
  BY <1>1, <1>2, <1>4, <1>5, <1>6, <1>7 DEF Next

\* The token queue of event_generator: a client whose stream shared its
\* process with no other run, and who stayed to its end, has received the
\* tokens of its own answer, all of them, in order, then [DONE].
THEOREM UndisturbedStreamsExact == Spec => []UndisturbedIsExact
<1>1. Init => Apart /\ OwnQueue
  BY ChatAssumption DEF Init, Apart, OwnQueue, Live, Running
<1>2. Init => AllTold
  <2> SUFFICES ASSUME Init, NEW r \in Requests PROVE Told(r)
    BY DEF AllTold, Undisturbed
  <2>1. out[r] = <<>> /\ queue[r] = <<>> /\ run[r] = "none" /\ tokens[r] = 0
    BY DEF Init
  <2>2. Stream(r) = <<>>
    BY <2>1 DEF Stream
  <2>3. Exact(<<>>, r, 0)
    BY DEF Exact
  <2>4. QED
    BY <2>1, <2>2, <2>3 DEF Told, Live, Running
<1>3. ChatInv /\ AllTold => UndisturbedIsExact
  <2> SUFFICES ASSUME ChatInv, AllTold, NEW r \in Requests \ WsRequests,
                      r \notin disturbed, r \notin gone,
                      gen[r] \in {"closing", "billing", "exit"}, run[r] = "done"
               PROVE  /\ Exact(out[r], r, tokens[r])
                      /\ \A i \in DOMAIN out[r] : out[r][i].kind = "done" <=> i = Len(out[r])
    BY DEF UndisturbedIsExact
  <2>1. Told(r)
    BY DEF AllTold, Undisturbed
  <2>2. Exact(Stream(r), r, tokens[r]) /\ queue[r] = <<>> /\ Closed(Stream(r), "done")
    BY <2>1 DEF Told
  <2>3. out[r] \in Seq(Items)
    BY DEF ChatInv, TypeOK
  <2>4. Stream(r) = out[r]
    BY <2>2, <2>3 DEF Stream
  <2>5. QED
    BY <2>2, <2>4 DEF Closed
<1>4. QED
  BY ChatInvariant, ApartStep, OwnQueueStep, AllToldStep, <1>1, <1>2, <1>3, PTL DEF Spec
=============================================================================

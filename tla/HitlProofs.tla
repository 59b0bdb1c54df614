----------------------------- MODULE HitlProofs -----------------------------
(***************************************************************************)
(* Proofs about HitlSessions, for any number of sessions, conversations,   *)
(* admin requests and pollers; and about HitlBroadcast, for any number of  *)
(* sockets and of broadcasts that overlap: what the list iterators of the  *)
(* broadcasts have passed, in a registry that grows and shrinks under them.*)
(***************************************************************************)
EXTENDS MCHitl, KnowledgePipelineProofs, RanksProofs

-----------------------------------------------------------------------------
\* The sessions.

\* The initial tables satisfy the inductive invariant.
LEMMA HitlInit == Init => HitlInv
BY HitlAssumption
   DEF Init, HitlInv, TypeOK, PendingHasTask, AtMostOneTicket, TaskLockExclusive,
       PollerShape, TaskShape, RequestShape, TakerShape, Status

\* notify_hitl_request and the clock preserve it.
LEMMA NotifyInv ==
    ASSUME HitlInv, NEW s \in Sessions, NEW t \in Threads, NotifyHitlRequest(s, t)
    PROVE  HitlInv'
<1> USE HitlAssumption DEF HitlInv, NotifyHitlRequest, reqVars, pollVars
<1>1. TypeOK'
  BY DEF TypeOK, Status
<1>2. PendingHasTask' /\ AtMostOneTicket'
  BY DEF TypeOK, PendingHasTask, AtMostOneTicket
<1>3. TaskLockExclusive' /\ RequestShape'
  BY DEF TypeOK, TaskLockExclusive, RequestShape
<1>4. PollerShape'
  BY DEF TypeOK, PollerShape, TaskShape
<1>5. TaskShape' /\ TakerShape'
  BY DEF TypeOK, TaskShape, TakerShape
<1>6. QED
  BY <1>1, <1>2, <1>3, <1>4, <1>5

\* The clock touches nothing else.
LEMMA TickInv == HitlInv /\ Tick => HitlInv'
<1> SUFFICES ASSUME HitlInv, Tick PROVE HitlInv'
  OBVIOUS
<1> QED
  BY DEF HitlInv, Tick, dbVars, reqVars, pollVars, TypeOK, PendingHasTask,
         AtMostOneTicket, TaskLockExclusive, PollerShape, TaskShape, RequestShape, TakerShape

\* The admins' checks and commits preserve it.
LEMMA AdminInv ==
    ASSUME HitlInv, NEW a \in Admins, AdminStep(a)
    PROVE  HitlInv'
<1> USE HitlAssumption DEF HitlInv
<1>1. ASSUME NEW s \in Sessions, NEW name \in {"take", "end", "message"},
             NEW wanted \in {"pending", "active"}, wanted = "pending" <=> name = "take",
             CheckSession(a, s, name, wanted)
      PROVE  HitlInv'
  BY <1>1 DEF CheckSession, dbVars, pollVars, TypeOK, PendingHasTask,
         AtMostOneTicket, TaskLockExclusive, PollerShape, TaskShape, RequestShape, TakerShape
<1>2. CASE TakeCommit(a)
  <2> USE <1>2 DEF TakeCommit, RequestDone, SetThreadStatus, pollVars
  <2>1. target[a] \in Sessions /\ status[target[a]] # "none"
    BY DEF RequestShape
  <2>2. TypeOK'
    BY <2>1 DEF TypeOK, Status
  <2>3. PendingHasTask' /\ AtMostOneTicket' /\ TaskShape'
    BY <2>1 DEF TypeOK, PendingHasTask, AtMostOneTicket, TaskShape
  <2>4. TaskLockExclusive' /\ PollerShape'
    BY <2>1 DEF TypeOK, TaskLockExclusive, PollerShape
  <2>5. RequestShape' /\ TakerShape'
    BY <2>1 DEF TypeOK, RequestShape, TakerShape
  <2>6. QED
    BY <2>2, <2>3, <2>4, <2>5
<1>3. CASE EndCommit(a)
  <2> USE <1>3 DEF EndCommit, RequestDone, SetThreadStatus, pollVars
  <2>1. target[a] \in Sessions /\ status[target[a]] # "none"
    BY DEF RequestShape
  <2>2. TypeOK'
    BY <2>1 DEF TypeOK, Status
  <2>3. PendingHasTask' /\ AtMostOneTicket' /\ TaskShape'
    BY <2>1 DEF TypeOK, PendingHasTask, AtMostOneTicket, TaskShape
  <2>4. TaskLockExclusive' /\ PollerShape'
    BY <2>1 DEF TypeOK, TaskLockExclusive, PollerShape
  <2>5. RequestShape' /\ TakerShape'
    BY <2>1 DEF TypeOK, RequestShape, TakerShape
  <2>6. QED
    BY <2>2, <2>3, <2>4, <2>5
<1>4. CASE MessageInsert(a)
  <2> USE <1>4 DEF MessageInsert, RequestDone, dbVars, pollVars
  <2>1. target[a] \in Sessions
    BY DEF RequestShape
  <2>2. TypeOK'
    BY <2>1 DEF TypeOK
  <2>3. QED
    BY <2>2 DEF TypeOK, PendingHasTask, AtMostOneTicket, TaskLockExclusive,
                PollerShape, TaskShape, RequestShape, TakerShape
<1>5. QED
  BY <1>1, <1>2, <1>3, <1>4 DEF AdminStep, TakeCheck, EndCheck, MessageCheck

\* The pollers' steps and crashes preserve it.
LEMMA PollInv ==
    ASSUME HitlInv, NEW p \in Pollers, PollStep(p) \/ PollCrash(p)
    PROVE  HitlInv'
<1> USE HitlAssumption DEF HitlInv
<1>1. ASSUME NEW s \in Sessions, PollPick(p, s) PROVE HitlInv'
  <2> USE <1>1 DEF PollPick, dbVars, reqVars
  <2>1. s \in tasks /\ \A q \in Pollers : ptask[q] # s
    BY DEF NextTasks, Overdue, Locked
  <2>2. TypeOK'
    BY DEF TypeOK
  <2>3. TaskLockExclusive'
    BY <2>1 DEF TypeOK, TaskLockExclusive
  <2>4. PollerShape'
    BY <2>1 DEF TypeOK, PollerShape
  <2>5. QED
    BY <2>2, <2>3, <2>4 DEF PendingHasTask, AtMostOneTicket, TaskShape, RequestShape, TakerShape
<1>2. CASE PollReadSession(p)
  <2> USE <1>2 DEF PollReadSession, dbVars, reqVars
  <2>1. ptask[p] \in Sessions /\ ptask[p] \in tasks
    BY DEF TypeOK, PollerShape
  <2>2. TypeOK'
    BY <2>1 DEF TypeOK
  <2>3. PollerShape'
    BY <2>1 DEF TypeOK, PollerShape, TaskShape, Status
  <2>4. QED
    BY <2>2, <2>3 DEF PendingHasTask, AtMostOneTicket, TaskLockExclusive,
                      TaskShape, RequestShape, TakerShape
<1>3. CASE PollEscalate(p)
  <2> USE <1>3 DEF PollEscalate, PollDone, reqVars
  <2>1. ptask[p] \in Sessions /\ ptask[p] \in tasks /\ tickets[ptask[p]] = 0
    BY DEF TypeOK, PollerShape, TaskShape
  <2>2. TypeOK'
    BY <2>1 DEF TypeOK, Status
  <2>3. PendingHasTask' /\ TaskShape' /\ AtMostOneTicket'
    BY <2>1 DEF TypeOK, PendingHasTask, TaskShape, AtMostOneTicket
  <2>4. TaskLockExclusive' /\ RequestShape' /\ TakerShape'
    BY <2>1 DEF TypeOK, TaskLockExclusive, RequestShape, TakerShape
  <2>5. PollerShape'
    BY <2>1 DEF TypeOK, PollerShape, TaskLockExclusive
  <2>6. QED
    BY <2>2, <2>3, <2>4, <2>5
<1>4. CASE PollRollback(p) \/ PollCrash(p)
  <2> USE <1>4 DEF PollRollback, PollCrash, PollDone, dbVars, reqVars
  <2>1. TypeOK'
    BY DEF TypeOK, Status
  <2>2. TaskLockExclusive' /\ PollerShape'
    BY DEF TypeOK, TaskLockExclusive, PollerShape
  <2>3. QED
    BY <2>1, <2>2 DEF PendingHasTask, AtMostOneTicket, TaskShape, RequestShape, TakerShape
<1>5. CASE PollDrop(p)
  <2> USE <1>5 DEF PollDrop, PollDone, reqVars
  <2>1. ptask[p] \in Sessions /\ status[ptask[p]] # "pending"
    BY DEF TypeOK, PollerShape
  <2>2. TypeOK'
    BY DEF TypeOK, Status
  <2>3. PendingHasTask' /\ TaskShape' /\ AtMostOneTicket'
    BY <2>1 DEF TypeOK, PendingHasTask, TaskShape, AtMostOneTicket
  <2>4. TaskLockExclusive' /\ RequestShape' /\ TakerShape'
    BY <2>1 DEF TypeOK, TaskLockExclusive, RequestShape, TakerShape
  <2>5. PollerShape'
    BY <2>1 DEF TypeOK, PollerShape, TaskLockExclusive
  <2>6. QED
    BY <2>2, <2>3, <2>4, <2>5
<1>6. QED
  BY <1>1, <1>2, <1>3, <1>4, <1>5 DEF PollStep

\* Every step preserves the inductive invariant.
LEMMA StepInv == HitlInv /\ [Next]_vars => HitlInv'
<1> SUFFICES ASSUME HitlInv, [Next]_vars PROVE HitlInv'
  OBVIOUS
<1>1. CASE Next
  BY <1>1, TickInv, NotifyInv, AdminInv, PollInv DEF Next
<1>2. CASE UNCHANGED vars
  BY <1>2 DEF vars, dbVars, reqVars, pollVars, HitlInv, TypeOK, PendingHasTask,
         AtMostOneTicket, TaskLockExclusive, PollerShape, TaskShape, RequestShape, TakerShape
<1>3. QED
  BY <1>1, <1>2

\* The tables and the pollers' local state keep their types and the inductive
\* invariant of the escalation protocol always holds.
THEOREM HitlInvariant == Spec => []HitlInv
<1>1. QED
  BY HitlInit, StepInv, PTL DEF Spec

\* However pollers and admins interleave and wherever a poller dies, a session
\* still pending keeps its escalation task.
THEOREM PendingSessionKeepsTask == Spec => []PendingHasTask
<1>1. HitlInv => PendingHasTask
  BY DEF HitlInv
<1>2. QED
  BY <1>1, HitlInvariant, PTL

\* A session is never escalated to more than one ticket, and no two pollers
\* ever hold the same task row.
THEOREM TicketUniqueness == Spec => [](AtMostOneTicket /\ TaskLockExclusive)
<1>1. HitlInv => AtMostOneTicket /\ TaskLockExclusive
  BY DEF HitlInv
<1>2. QED
  BY <1>1, HitlInvariant, PTL

\* No step reopens a session that has left pending or withdraws a ticket.
THEOREM SessionsNeverReopen == Spec => NoReopening
<1>1. ASSUME HitlInv, [Next]_vars
      PROVE  [\A s \in Sessions :
                /\ status[s] \notin {"none", "pending"} => status'[s] \notin {"none", "pending"}
                /\ tickets'[s] >= tickets[s]]_vars
  <2> SUFFICES ASSUME Next, NEW s \in Sessions
               PROVE  /\ status[s] \notin {"none", "pending"} => status'[s] \notin {"none", "pending"}
                      /\ tickets'[s] >= tickets[s]
    BY <1>1
  <2> USE <1>1 DEF HitlInv, TypeOK, dbVars, reqVars, pollVars
  <2>1. CASE Tick
    BY <2>1 DEF Tick
  <2>2. ASSUME NEW r \in Sessions, NEW t \in Threads, NotifyHitlRequest(r, t)
        PROVE  /\ status[s] \notin {"none", "pending"} => status'[s] \notin {"none", "pending"}
               /\ tickets'[s] >= tickets[s]
    BY <2>2 DEF NotifyHitlRequest
  <2>3. ASSUME NEW a \in Admins, AdminStep(a)
        PROVE  /\ status[s] \notin {"none", "pending"} => status'[s] \notin {"none", "pending"}
               /\ tickets'[s] >= tickets[s]
    BY <2>3 DEF AdminStep, CheckSession, TakeCheck, EndCheck, MessageCheck,
                TakeCommit, EndCommit, MessageInsert
  <2>4. ASSUME NEW p \in Pollers, PollStep(p) \/ PollCrash(p)
        PROVE  /\ status[s] \notin {"none", "pending"} => status'[s] \notin {"none", "pending"}
               /\ tickets'[s] >= tickets[s]
    BY <2>4 DEF PollStep, PollPick, PollReadSession, PollEscalate, PollRollback,
                PollDrop, PollCrash
  <2>5. QED
    BY <2>1, <2>2, <2>3, <2>4 DEF Next
<1>2. QED
  BY <1>1, HitlInvariant, PTL DEF Spec, NoReopening

\* take_hitl_session answers 409 once a take has been committed.
THEOREM LateTakesRefused == Spec => LateTakeRefused
<1>1. ASSUME HitlInv, [Next]_vars
      PROVE  [\A a \in Admins :
                op[a] = "idle" /\ op'[a] = "take" => takers[target'[a]] = {}]_vars
  <2> SUFFICES ASSUME Next, NEW a \in Admins, op[a] = "idle", op'[a] = "take"
               PROVE  takers[target'[a]] = {}
    BY <1>1
  <2> USE <1>1 DEF HitlInv, TypeOK, reqVars
  <2>1. PICK b \in Admins : AdminStep(b)
    BY DEF Next, Tick, NotifyHitlRequest, PollStep, PollPick, PollReadSession,
           PollEscalate, PollRollback, PollDrop, PollCrash
  <2>2. PICK s \in Sessions : TakeCheck(b, s)
    BY <2>1 DEF AdminStep, CheckSession, EndCheck, MessageCheck, TakeCommit,
                EndCommit, MessageInsert, RequestDone
  <2>3. a = b /\ target'[a] = s /\ status[s] = "pending"
    BY <2>2 DEF TakeCheck, CheckSession
  <2>4. QED
    BY <2>3 DEF TakerShape
<1>2. QED
  BY <1>1, HitlInvariant, PTL DEF Spec, LateTakeRefused

(***************************************************************************)
(* The refinement: a step of the tables is a step of the calls, or leaves  *)
(* them alone.                                                             *)
(***************************************************************************)
\* Empty tables are calls nobody has made.
LEMMA LifeStarts == Init => Life!LifeInit
BY DEF Init, Life!LifeInit

\* A step that touches neither sessions, takes nor tickets leaves the calls alone.
LEMMA LifeStutters ==
    ASSUME UNCHANGED <<status, tickets, takers>>,
           \A a \in Admins : (op'[a] = "take" <=> op[a] = "take")
                          /\ (op[a] = "take" => target'[a] = target[a])
    PROVE  UNCHANGED Life!life
<1>1. {<<a, target'[a]>> : a \in {b \in Admins : op'[b] = "take"}}
        = {<<a, target[a]>> : a \in {b \in Admins : op[b] = "take"}}
  OBVIOUS
<1>2. QED
  BY <1>1 DEF Life!life

\* A take past its check is one helper asking for a call that is pending.
LEMMA TakeAsks ==
    ASSUME HitlInv, NEW a \in Admins, NEW s \in Sessions, TakeCheck(a, s)
    PROVE  Life!Ask(a, s)
<1> USE DEF HitlInv, TypeOK, TakeCheck, CheckSession, dbVars
<1>1. {<<b, target'[b]>> : b \in {c \in Admins : op'[c] = "take"}}
        = {<<b, target[b]>> : b \in {c \in Admins : op[c] = "take"}} \cup {<<a, s>>}
  OBVIOUS
<1>2. \A d \in Sessions : <<a, d>> \notin {<<b, target[b]>> : b \in {c \in Admins : op[c] = "take"}}
  OBVIOUS
<1>3. QED
  BY <1>1, <1>2 DEF Life!Ask

\* Its commit grants the call.
LEMMA TakeGrants ==
    ASSUME HitlInv, NEW a \in Admins, NEW s \in Sessions, s = target[a], TakeCommit(a)
    PROVE  Life!Grant(a, s)
<1> USE DEF HitlInv, TypeOK, TakeCommit, RequestDone
<1>1. {<<b, target'[b]>> : b \in {c \in Admins : op'[c] = "take"}}
        = {<<b, target[b]>> : b \in {c \in Admins : op[c] = "take"}} \ {<<a, s>>}
  OBVIOUS
<1>2. {g \in Admins \X Sessions : g[1] \in takers'[g[2]]}
        = {g \in Admins \X Sessions : g[1] \in takers[g[2]]} \cup {<<a, s>>}
  OBVIOUS
<1>3. [r \in Sessions |-> IF status'[r] \in {"none", "pending"} THEN status'[r] ELSE "handled"]
        = [[r \in Sessions |-> IF status[r] \in {"none", "pending"} THEN status[r] ELSE "handled"]
             EXCEPT ![s] = "handled"]
  OBVIOUS
<1>4. <<a, s>> \in {<<b, target[b]>> : b \in {c \in Admins : op[c] = "take"}}
  OBVIOUS
<1>5. UNCHANGED tickets
  OBVIOUS
<1>6. QED
  BY <1>1, <1>2, <1>3, <1>4, <1>5 DEF Life!Grant

\* An escalation opens the call's first ticket, whatever its status has become.
LEMMA EscalationTickets ==
    ASSUME HitlInv, NEW p \in Pollers, NEW s \in Sessions, s = ptask[p], PollEscalate(p)
    PROVE  Life!Ticket(s)
<1> USE DEF HitlInv, TypeOK, PollEscalate, PollDone, reqVars
<1>1. s \in tasks
  BY HitlAssumption DEF PollerShape
<1>2. status[s] # "none" /\ tickets[s] = 0
  BY <1>1 DEF TaskShape
<1>3. {r \in Sessions : tickets'[r] > 0} = {r \in Sessions : tickets[r] > 0} \cup {s}
  BY <1>1, <1>2
<1>4. [r \in Sessions |-> IF status'[r] \in {"none", "pending"} THEN status'[r] ELSE "handled"]
        = [[r \in Sessions |-> IF status[r] \in {"none", "pending"} THEN status[r] ELSE "handled"]
             EXCEPT ![s] = "handled"]
  BY <1>1
<1>5. UNCHANGED <<op, target, takers>>
  OBVIOUS
<1>6. QED
  BY <1>1, <1>2, <1>3, <1>4, <1>5 DEF Life!Ticket

\* The other steps of admins end a session that was handled, or nothing at all.
LEMMA AdminLives ==
    ASSUME HitlInv, NEW a \in Admins, AdminStep(a)
    PROVE  [Life!LifeNext]_(Life!life)
<1> USE DEF HitlInv, TypeOK
<1>1. CASE \E s \in Sessions : TakeCheck(a, s)
  BY <1>1, TakeAsks DEF Life!LifeNext
<1>2. CASE TakeCommit(a)
  <2>1. PICK s \in Sessions : s = target[a]
    BY <1>2 DEF TakeCommit, RequestShape
  <2>2. Life!Grant(a, s)
    BY <1>2, <2>1, TakeGrants
  <2>3. QED
    BY <2>2 DEF Life!LifeNext
<1>3. CASE \E s \in Sessions : EndCheck(a, s) \/ MessageCheck(a, s)
  BY <1>3, LifeStutters DEF EndCheck, MessageCheck, CheckSession, dbVars
<1>4. CASE EndCommit(a)
  <2> USE <1>4 DEF EndCommit, RequestDone
  <2>1. status[target[a]] \notin {"none", "pending"}
    BY DEF RequestShape
  <2>2. [s \in Sessions |-> IF status'[s] \in {"none", "pending"} THEN status'[s] ELSE "handled"]
          = [s \in Sessions |-> IF status[s] \in {"none", "pending"} THEN status[s] ELSE "handled"]
    BY <2>1
  <2>3. {<<b, target'[b]>> : b \in {c \in Admins : op'[c] = "take"}}
          = {<<b, target[b]>> : b \in {c \in Admins : op[c] = "take"}}
    OBVIOUS
  <2>4. UNCHANGED <<tickets, takers>>
    OBVIOUS
  <2>5. QED
    BY <2>2, <2>3, <2>4 DEF Life!life
<1>5. CASE MessageInsert(a)
  BY <1>5, LifeStutters DEF MessageInsert, RequestDone, dbVars
<1>6. QED
  BY <1>1, <1>2, <1>3, <1>4, <1>5 DEF AdminStep

\* A poller's steps but the escalation leave the calls alone, and so does its death.
LEMMA PollLives ==
    ASSUME HitlInv, NEW p \in Pollers, PollStep(p) \/ PollCrash(p)
    PROVE  [Life!LifeNext]_(Life!life)
<1>1. CASE PollEscalate(p)
  <2>1. PICK s \in Sessions : s = ptask[p]
    BY <1>1, HitlAssumption DEF PollEscalate, HitlInv, TypeOK, PollerShape
  <2>2. Life!Ticket(s)
    BY <1>1, <2>1, EscalationTickets
  <2>3. QED
    BY <2>2 DEF Life!LifeNext
<1>2. CASE ~PollEscalate(p)
  <2>1. UNCHANGED <<status, tickets, takers, op, target>>
    BY <1>2 DEF PollStep, PollPick, PollReadSession, PollRollback, PollDrop, PollCrash,
                dbVars, reqVars
  <2>2. QED
    BY <2>1 DEF Life!life
<1>3. QED
  BY <1>1, <1>2

\* notify_hitl_request raises a call.
LEMMA NotifyRaises ==
    ASSUME HitlInv, NEW s \in Sessions, NEW t \in Threads, NotifyHitlRequest(s, t)
    PROVE  Life!Raise(s)
<1> USE DEF HitlInv, TypeOK, NotifyHitlRequest, reqVars
<1>1. [r \in Sessions |-> IF status'[r] \in {"none", "pending"} THEN status'[r] ELSE "handled"]
        = [[r \in Sessions |-> IF status[r] \in {"none", "pending"} THEN status[r] ELSE "handled"]
             EXCEPT ![s] = "pending"]
  OBVIOUS
<1>2. UNCHANGED <<tickets, takers, op, target>>
  OBVIOUS
<1>3. QED
  BY <1>1, <1>2 DEF Life!Raise

\* For any number of sessions, admins and pollers, the tables with their
\* READ COMMITTED handlers (routes/hitl.py) implement SessionLife.
THEOREM ImplementsSessionLife == Spec => SessionLifeKept
<1>1. ASSUME HitlInv, [Next]_vars
      PROVE  [Life!LifeNext]_(Life!life)
  <2>1. CASE UNCHANGED vars
    BY <2>1 DEF vars, dbVars, reqVars, Life!life
  <2>2. CASE Tick
    BY <2>2 DEF Tick, dbVars, reqVars, Life!life
  <2>3. CASE \E s \in Sessions, t \in Threads : NotifyHitlRequest(s, t)
    BY <1>1, <2>3, NotifyRaises DEF Life!LifeNext
  <2>4. CASE \E a \in Admins : AdminStep(a)
    BY <1>1, <2>4, AdminLives
  <2>5. CASE \E p \in Pollers : PollStep(p) \/ PollCrash(p)
    BY <1>1, <2>5, PollLives
  <2>6. QED
    BY <1>1, <2>1, <2>2, <2>3, <2>4, <2>5 DEF Next
<1>2. QED
  BY <1>1, LifeStarts, HitlInvariant, PTL DEF Spec, SessionLifeKept, Life!LifeSpec

-----------------------------------------------------------------------------
\* The sockets.

\* Whom a broadcast has served stands before its iterator, or has gone.
ServedBefore ==
    \A s \in Sockets, b \in Broadcasts :
        /\ received[s][b] \in {0, 1}
        /\ received[s][b] = 1 =>
             /\ conn[s] # "new"
             /\ \A i \in DOMAIN registry : registry[i] = s => i < index[b]

\* A quiet broadcast's audience is open.
AudienceIsOpen == \A b \in Broadcasts : \A s \in audience[b] : conn[s] = "open"

\* Of a broadcast during which nobody left the registry: it has served those
\* of its audience that its iterator passed, and finds again whom it failed on.
QuietSoFar ==
    \A b \in Broadcasts \ churn :
        /\ bpc[b] = "idle" =>
             index[b] = 1 /\ dead[b] = <<>> /\ \A s \in Sockets : received[s][b] = 0
        /\ bpc[b] = "send" =>
             /\ \A i \in DOMAIN registry :
                    i < index[b] /\ registry[i] \in audience[b] => received[registry[i]][b] = 1
             /\ \A k \in DOMAIN dead[b] : Registered(dead[b][k])

\* The inductive invariant.
BroadcastIInv ==
    BusTypeOK /\ RegistryExact /\ DeadHaveLeft /\ ServedBefore /\ AudienceIsOpen
    /\ QuietSoFar /\ QuietReachesAll
(***************************************************************************)
(* The registry without some sockets: the others keep their order, and     *)
(* none moves away from the front.                                         *)
(***************************************************************************)
LEMMA WithoutSome ==
    ASSUME NEW list \in Seq(Sockets), NEW gone
    PROVE  /\ Without(list, gone) \in Seq(Sockets)
           /\ \A k \in DOMAIN Without(list, gone) :
                /\ Without(list, gone)[k] \notin gone
                /\ \E i \in DOMAIN list : k <= i /\ list[i] = Without(list, gone)[k]
           /\ \A i \in DOMAIN list : list[i] \notin gone =>
                \E k \in DOMAIN Without(list, gone) : Without(list, gone)[k] = list[i]
           /\ (\A i, j \in DOMAIN list : list[i] = list[j] => i = j) =>
                \A k, m \in DOMAIN Without(list, gone) :
                    Without(list, gone)[k] = Without(list, gone)[m] => k = m
<1> DEFINE n == Len(list)
           S == {i \in DOMAIN list : list[i] \notin gone}
           left == InOrder(S)
           c == Cardinality(S)
           W == Without(list, gone)
<1>1. n \in Nat /\ DOMAIN list = 1..n /\ \A i \in 1..n : list[i] \in Sockets
  OBVIOUS
<1>2. S \in SUBSET (1..n)
  BY <1>1
<1>3. IsFiniteSet(S) /\ c \in Nat /\ \A k \in 1..c : k <= left[k]
  <2> HIDE DEF S
  <2> QED BY <1>1, <1>2, MovesForward
<1>4. /\ DOMAIN left = 1..c
      /\ \A x \in S : \E k \in 1..c : left[k] = x
      /\ \A j, k \in 1..c : j < k <=> left[j] < left[k]
      /\ \A k \in 1..c : left[k] \in S
  <2>1. S \in SUBSET Int
    BY <1>2
  <2> HIDE DEF S
  <2>2. QED
    BY <1>3, <2>1, Ordered
<1>5. W = [k \in 1..c |-> list[left[k]]]
  BY <1>4 DEF Without
<1> HIDE DEF left, c, W
<1>6. \A k \in 1..c : left[k] \in 1..n /\ list[left[k]] \in Sockets /\ list[left[k]] \notin gone
  BY <1>4, <1>1
<1>7. DOMAIN W = 1..c /\ \A k \in 1..c : W[k] = list[left[k]]
  BY <1>5
<1>8. W \in Seq(Sockets)
  <2>1. W \in [1..c -> Sockets]
    BY <1>5, <1>6
  <2>2. QED
    BY <2>1, <1>3, SeqDef
<1>9. \A k \in DOMAIN W : W[k] \notin gone /\ \E i \in DOMAIN list : k <= i /\ list[i] = W[k]
  BY <1>1, <1>3, <1>6, <1>7
<1>10. \A i \in DOMAIN list : list[i] \notin gone => \E k \in DOMAIN W : W[k] = list[i]
  BY <1>4, <1>7
<1>11. ASSUME \A i, j \in DOMAIN list : list[i] = list[j] => i = j,
              NEW k \in DOMAIN W, NEW m \in DOMAIN W, W[k] = W[m]
       PROVE  k = m
  <2>1. k \in 1..c /\ m \in 1..c
    BY <1>7
  <2>2. left[k] = left[m] /\ left[k] \in Int
    BY <1>11, <2>1, <1>6, <1>7, <1>1
  <2>3. ~(k < m) /\ ~(m < k)
    BY <2>1, <2>2, <1>4
  <2>4. QED
    BY <2>1, <2>3, <1>3
<1>12. QED
  BY <1>8, <1>9, <1>10, <1>11 DEF W

\* Taking from a list what it does not have leaves it as it is.
LEMMA WithoutNone ==
    ASSUME NEW list \in Seq(Sockets), NEW gone, \A i \in DOMAIN list : list[i] \notin gone
    PROVE  Without(list, gone) = list
<1> DEFINE n == Len(list)
           S == {i \in DOMAIN list : list[i] \notin gone}
           left == InOrder(1..n)
<1>1. n \in Nat /\ DOMAIN list = 1..n /\ list = [k \in 1..n |-> list[k]]
  OBVIOUS
<1>2. S = 1..n
  BY <1>1
<1>6. Without(list, gone) = [k \in DOMAIN left |-> list[left[k]]]
  BY <1>2 DEF Without
<1> HIDE DEF n
<1>3. IsFiniteSet(1..n) /\ Cardinality(1..n) = n /\ 1..n \in SUBSET Int
  BY <1>1, FS_Interval
<1>4. DOMAIN left = 1..n /\ \A k \in 1..n : left[k] \in 1..n /\ Cardinality({y \in 1..n : y < left[k]}) = k - 1
  BY <1>3, Ordered
<1>5. ASSUME NEW k \in 1..n
      PROVE  left[k] = k
  <2> DEFINE x == left[k]
  <2>1. x \in 1..n /\ Cardinality({y \in 1..n : y < x}) = k - 1
    BY <1>4
  <2> HIDE DEF x, left
  <2>2. {y \in 1..n : y < x} = 1..(x - 1)
    BY <2>1, <1>1
  <2>3. Cardinality(1..(x - 1)) = x - 1
    BY <2>1, FS_Interval
  <2>4. x - 1 = k - 1
    BY <2>1, <2>2, <2>3
  <2>5. QED
    BY <2>1, <2>4 DEF x
<1> HIDE DEF left
<1>7. QED
  BY <1>1, <1>4, <1>5, <1>6

\* The first state has no sockets and no broadcasts.
LEMMA BroadcastInit == BusInit => BroadcastIInv
BY DEF BusInit, BroadcastIInv, BusTypeOK, RegistryExact, DeadHaveLeft, ServedBefore,
       AudienceIsOpen, QuietSoFar, QuietReachesAll, Registered

\* The handlers and the broadcasts, as long as nobody leaves the registry.
LEMMA RegisterKeeps ==
    ASSUME BroadcastIInv, NEW s \in Sockets, Register(s)
    PROVE  BroadcastIInv'
<1> USE DEF Register
<1>t. BusTypeOK /\ registry \in Seq(Sockets)
  BY DEF BroadcastIInv, BusTypeOK
<1>r. /\ registry' \in Seq(Sockets)
      /\ DOMAIN registry' = DOMAIN registry \cup {Len(registry) + 1}
      /\ \A i \in DOMAIN registry : registry'[i] = registry[i] /\ i # Len(registry) + 1
      /\ registry'[Len(registry) + 1] = s
  BY <1>t
<1>n. ~Registered(s)
  BY DEF BroadcastIInv, RegistryExact
<1>g. \A x \in Sockets : Registered(x)' <=> (Registered(x) \/ x = s)
  BY <1>r DEF Registered
<1>1. BusTypeOK'
  BY <1>t, <1>r DEF BusTypeOK
<1>2. RegistryExact'
  BY <1>r, <1>n, <1>g, <1>t DEF BroadcastIInv, RegistryExact, BusTypeOK, Registered
<1>3. DeadHaveLeft'
  BY <1>t DEF BroadcastIInv, DeadHaveLeft, BusTypeOK
<1>4. ServedBefore'
  BY <1>r, <1>t DEF BroadcastIInv, ServedBefore, BusTypeOK
<1>5. AudienceIsOpen'
  BY <1>t DEF BroadcastIInv, AudienceIsOpen, BusTypeOK
<1>6. QuietSoFar'
  <2>1. \A b \in Broadcasts : s \notin audience[b]
    BY <1>t DEF BroadcastIInv, AudienceIsOpen, BusTypeOK
  <2>2. \A b \in Broadcasts : \A k \in DOMAIN dead[b] : dead[b][k] \in Sockets
    BY <1>t DEF BusTypeOK
  <2>3. QED
    BY <2>1, <2>2, <1>r, <1>g, <1>t DEF BroadcastIInv, QuietSoFar, BusTypeOK
<1>7. QuietReachesAll'
  BY DEF BroadcastIInv, QuietReachesAll
<1>8. QED
  BY <1>1, <1>2, <1>3, <1>4, <1>5, <1>6, <1>7 DEF BroadcastIInv

\* A socket that is refused is in no list.
LEMMA RejectKeeps ==
    ASSUME BroadcastIInv, NEW s \in Sockets, Reject(s)
    PROVE  BroadcastIInv'
<1> USE DEF Reject
<1>t. BusTypeOK
  BY DEF BroadcastIInv
<1>1. BusTypeOK'
  BY <1>t DEF BusTypeOK
<1>2. RegistryExact'
  BY <1>t DEF BroadcastIInv, RegistryExact, BusTypeOK, Registered
<1>3. DeadHaveLeft'
  BY <1>t DEF BroadcastIInv, DeadHaveLeft, BusTypeOK
<1>4. ServedBefore'
  BY <1>t DEF BroadcastIInv, ServedBefore, BusTypeOK
<1>5. AudienceIsOpen'
  BY <1>t DEF BroadcastIInv, AudienceIsOpen, BusTypeOK
<1>6. QuietSoFar'
  BY DEF BroadcastIInv, QuietSoFar, Registered
<1>7. QuietReachesAll'
  BY DEF BroadcastIInv, QuietReachesAll
<1>8. QED
  BY <1>1, <1>2, <1>3, <1>4, <1>5, <1>6, <1>7 DEF BroadcastIInv

\* A peer that leaves is only seen by a later send.
LEMMA PeerLeavesKeeps ==
    ASSUME BroadcastIInv, NEW s \in Sockets, PeerLeaves(s)
    PROVE  BroadcastIInv'
<1> USE DEF PeerLeaves
<1>t. BusTypeOK
  BY DEF BroadcastIInv
<1>a. \A b \in Broadcasts : audience'[b] = audience[b] \ {s}
  OBVIOUS
<1>1. BusTypeOK'
  BY <1>t DEF BusTypeOK
<1>2. RegistryExact'
  BY <1>t DEF BroadcastIInv, RegistryExact, BusTypeOK, Registered
<1>3. DeadHaveLeft'
  BY <1>t DEF BroadcastIInv, DeadHaveLeft, BusTypeOK
<1>4. ServedBefore'
  BY <1>t DEF BroadcastIInv, ServedBefore, BusTypeOK
<1>5. AudienceIsOpen'
  BY <1>t, <1>a DEF BroadcastIInv, AudienceIsOpen, BusTypeOK
<1>6. QuietSoFar'
  BY <1>a DEF BroadcastIInv, QuietSoFar, Registered
<1>7. QuietReachesAll'
  BY <1>a DEF BroadcastIInv, QuietReachesAll
<1>8. QED
  BY <1>1, <1>2, <1>3, <1>4, <1>5, <1>6, <1>7 DEF BroadcastIInv

\* A broadcast starts at the head of the list.
LEMMA StartKeeps ==
    ASSUME BroadcastIInv, NEW b \in Broadcasts, Start(b)
    PROVE  BroadcastIInv'
<1> USE DEF Start
<1>t. BusTypeOK
  BY DEF BroadcastIInv
<1>a. /\ audience'[b] = {s \in Sockets : conn[s] = "open"}
      /\ \A c \in Broadcasts \ {b} : audience'[c] = audience[c] /\ bpc'[c] = bpc[c]
      /\ bpc'[b] = "send"
  BY <1>t DEF BusTypeOK
<1>1. BusTypeOK'
  BY <1>t, <1>a DEF BusTypeOK
<1>2. RegistryExact'
  BY DEF BroadcastIInv, RegistryExact, Registered
<1>3. DeadHaveLeft'
  BY DEF BroadcastIInv, DeadHaveLeft
<1>4. ServedBefore'
  BY DEF BroadcastIInv, ServedBefore
<1>5. AudienceIsOpen'
  BY <1>a DEF BroadcastIInv, AudienceIsOpen
<1>6. QuietSoFar'
  BY <1>a, <1>t DEF BroadcastIInv, QuietSoFar, Registered, BusTypeOK
<1>7. QuietReachesAll'
  BY <1>a DEF BroadcastIInv, QuietReachesAll
<1>8. QED
  BY <1>1, <1>2, <1>3, <1>4, <1>5, <1>6, <1>7 DEF BroadcastIInv

\* A send that fails marks its socket as dead and goes on.
LEMMA SendFailsKeeps ==
    ASSUME BroadcastIInv, NEW b \in Broadcasts, SendFails(b)
    PROVE  BroadcastIInv'
<1> USE DEF SendFails
<1>t. BusTypeOK
  BY DEF BroadcastIInv
<1>a. /\ registry[index[b]] \in Sockets
      /\ dead' = [dead EXCEPT ![b] = Append(@, registry[index[b]])]
      /\ dead'[b] = Append(dead[b], registry[index[b]])
      /\ index'[b] = index[b] + 1
      /\ \A c \in Broadcasts \ {b} : dead'[c] = dead[c] /\ index'[c] = index[c]
      /\ dead[b] \in Seq(Sockets)
  BY <1>t DEF BusTypeOK
<1>d. \A k \in DOMAIN dead'[b] : (k \in DOMAIN dead[b] /\ dead'[b][k] = dead[b][k])
                                    \/ dead'[b][k] = registry[index[b]]
  BY <1>a
<1>1. BusTypeOK'
  BY <1>t, <1>a DEF BusTypeOK
<1>2. RegistryExact'
  BY DEF BroadcastIInv, RegistryExact, Registered
<1>3. DeadHaveLeft'
  BY <1>a, <1>d DEF BroadcastIInv, DeadHaveLeft
<1>4. ServedBefore'
  BY <1>t, <1>a DEF BroadcastIInv, ServedBefore, BusTypeOK
<1>5. AudienceIsOpen'
  BY DEF BroadcastIInv, AudienceIsOpen
<1>6. QuietSoFar'
  <2>1. registry[index[b]] \notin audience[b]
    BY DEF BroadcastIInv, AudienceIsOpen
  <2>2. Registered(registry[index[b]])
    BY DEF Registered
  <2>3. \A i \in DOMAIN registry : i \in Nat
    BY <1>t DEF BusTypeOK
  <2>4. index[b] \in Nat /\ bpc[b] = "send"
    BY <1>t DEF BusTypeOK
  <2>5. \A i \in DOMAIN registry : i < index'[b] /\ registry[i] \in audience[b] => i < index[b]
    BY <1>a, <2>1, <2>3, <2>4
  <2>6. \A x : Registered(x)' <=> Registered(x)
    BY DEF Registered
  <2>7. QED
    BY <1>a, <1>d, <2>2, <2>4, <2>5, <2>6 DEF BroadcastIInv, QuietSoFar
<1>7. QuietReachesAll'
  BY DEF BroadcastIInv, QuietReachesAll
<1>8. QED
  BY <1>1, <1>2, <1>3, <1>4, <1>5, <1>6, <1>7 DEF BroadcastIInv

\* A send delivers to the socket under the iterator.
LEMMA SendKeeps ==
    ASSUME BroadcastIInv, NEW b \in Broadcasts, Send(b)
    PROVE  BroadcastIInv'
<1> DEFINE t == registry[index[b]]
<1>t. BusTypeOK
  BY DEF BroadcastIInv
<1>a. /\ bpc[b] = "send" /\ index[b] \in DOMAIN registry
      /\ t \in Sockets
      /\ index'[b] = index[b] + 1
      /\ index' \in [Broadcasts -> Nat \ {0}]
      /\ \A c \in Broadcasts \ {b} : index'[c] = index[c]
      /\ UNCHANGED <<conn, registry, bpc, dead, audience, churn>>
  <2>1. /\ bpc[b] = "send" /\ index[b] \in DOMAIN registry
        /\ index' = [index EXCEPT ![b] = index[b] + 1]
        /\ UNCHANGED <<conn, registry, bpc, dead, audience, churn>>
    BY DEF Send
  <2>2. index \in [Broadcasts -> Nat \ {0}] /\ registry \in Seq(Sockets)
    BY <1>t DEF BusTypeOK
  <2>3. t \in Sockets
    BY <2>1, <2>2
  <2>4. index[b] + 1 \in Nat \ {0}
    BY <2>2
  <2>5. /\ index'[b] = index[b] + 1
        /\ index' \in [Broadcasts -> Nat \ {0}]
        /\ \A c \in Broadcasts \ {b} : index'[c] = index[c]
    BY <2>1, <2>2, <2>4
  <2>6. QED
    BY <2>1, <2>3, <2>5
<1>b. received[t][b] = 0
  BY <1>a, <1>t DEF BroadcastIInv, ServedBefore, BusTypeOK
<1>c. /\ received' \in [Sockets -> [Broadcasts -> Nat]]
      /\ \A x \in Sockets, c \in Broadcasts : <<x, c>> # <<t, b>> => received'[x][c] = received[x][c]
      /\ received'[t][b] = IF conn[t] = "open" THEN 1 ELSE 0
  BY <1>a, <1>b, <1>t DEF Send, BusTypeOK
<1>s. conn[t] # "new"
  BY <1>a DEF BroadcastIInv, RegistryExact, Registered
<1> HIDE DEF t
<1>1. BusTypeOK'
  BY <1>t, <1>a, <1>c DEF BusTypeOK
<1>2. RegistryExact'
  BY <1>a DEF BroadcastIInv, RegistryExact, Registered
<1>3. DeadHaveLeft'
  BY <1>a DEF BroadcastIInv, DeadHaveLeft
<1>4. ServedBefore'
  <2>1. \A i \in DOMAIN registry : registry[i] = t => i = index[b]
    BY <1>a DEF BroadcastIInv, RegistryExact, t
  <2>2. \A c \in Broadcasts : index[c] \in Nat /\ index[c] <= index'[c]
    <3> TAKE c \in Broadcasts
    <3>1. index[c] \in Nat
      BY <1>t DEF BusTypeOK
    <3>2. QED
      BY <3>1, <1>a
  <2>3. \A i \in DOMAIN registry : i \in Nat
    BY <1>t DEF BusTypeOK
  <2>4. QED
    BY <1>a, <1>c, <1>s, <2>1, <2>2, <2>3 DEF BroadcastIInv, ServedBefore
<1>5. AudienceIsOpen'
  BY <1>a DEF BroadcastIInv, AudienceIsOpen
<1>6. QuietSoFar'
  <2> SUFFICES ASSUME NEW c \in Broadcasts, c \notin churn
               PROVE  /\ bpc[c] = "idle" => index'[c] = 1 /\ dead[c] = <<>>
                                             /\ \A s \in Sockets : received'[s][c] = 0
                      /\ bpc[c] = "send" =>
                           /\ \A i \in DOMAIN registry :
                                 i < index'[c] /\ registry[i] \in audience[c] => received'[registry[i]][c] = 1
                           /\ \A k \in DOMAIN dead[c] : Registered(dead[c][k])
    BY <1>a DEF QuietSoFar, Registered
  <2>1. \A i \in DOMAIN registry : i \in Nat /\ registry[i] \in Sockets
    BY <1>t DEF BusTypeOK
  <2>2. /\ bpc[c] = "idle" => index[c] = 1 /\ dead[c] = <<>> /\ \A s \in Sockets : received[s][c] = 0
        /\ bpc[c] = "send" =>
             /\ \A i \in DOMAIN registry :
                   i < index[c] /\ registry[i] \in audience[c] => received[registry[i]][c] = 1
             /\ \A k \in DOMAIN dead[c] : Registered(dead[c][k])
    BY DEF BroadcastIInv, QuietSoFar
  <2>3. CASE c # b
    BY <2>2, <2>3, <1>a, <1>c, <2>1
  <2>4. CASE c = b
    <3>1. index[b] \in Nat
      BY <1>t DEF BusTypeOK
    <3>2. t \in audience[b] => conn[t] = "open"
      BY DEF BroadcastIInv, AudienceIsOpen
    <3>3. ASSUME NEW i \in DOMAIN registry, i < index'[b], registry[i] \in audience[b]
          PROVE  received'[registry[i]][b] = 1
      <4>1. CASE i = index[b]
        BY <4>1, <3>2, <3>3, <1>c DEF t
      <4>2. CASE i # index[b]
        <5>1. i < index[b]
          BY <3>1, <2>1, <3>3, <4>2, <1>a
        <5>2. registry[i] # t
          BY <4>2, <1>a DEF BroadcastIInv, RegistryExact, t
        <5>3. QED
          BY <5>1, <5>2, <2>2, <2>4, <3>3, <1>a, <1>c, <2>1
      <4>3. QED
        BY <4>1, <4>2
    <3>4. QED
      BY <2>2, <2>4, <3>3, <1>a
  <2>5. QED
    BY <2>3, <2>4
<1>7. QuietReachesAll'
  <2>1. \A c \in Broadcasts : \A s \in audience[c] : s \in Sockets
    BY <1>t DEF BusTypeOK
  <2>2. QED
    BY <1>a, <1>c, <2>1 DEF BroadcastIInv, QuietReachesAll
<1>8. QED
  BY <1>1, <1>2, <1>3, <1>4, <1>5, <1>6, <1>7 DEF BroadcastIInv
\* The registry after a removal.
LEMMA Removal ==
    ASSUME BusTypeOK, RegistryExact, NEW gone, registry' = Without(registry, gone)
    PROVE  /\ registry' \in Seq(Sockets)
           /\ \A x \in Sockets : Registered(x)' <=> (Registered(x) /\ x \notin gone)
           /\ \A i, j \in DOMAIN registry' : registry'[i] = registry'[j] => i = j
           /\ \A k \in DOMAIN registry' : \E i \in DOMAIN registry :
                k <= i /\ registry[i] = registry'[k]
           /\ (\A x \in gone : ~Registered(x)) => registry' = registry
<1> DEFINE old == registry
           new == Without(old, gone)
<1>1. old \in Seq(Sockets) /\ \A i, j \in DOMAIN old : old[i] = old[j] => i = j
  BY DEF BusTypeOK, RegistryExact
<1> HIDE DEF old
<1>2. /\ new \in Seq(Sockets)
      /\ \A k \in DOMAIN new :
            /\ new[k] \notin gone
            /\ \E i \in DOMAIN old : k <= i /\ old[i] = new[k]
      /\ \A i \in DOMAIN old : old[i] \notin gone => \E k \in DOMAIN new : new[k] = old[i]
      /\ \A k, m \in DOMAIN new : new[k] = new[m] => k = m
  BY <1>1, WithoutSome
<1>3. (\A i \in DOMAIN old : old[i] \notin gone) => new = old
  BY <1>1, WithoutNone
<1>4. new = registry' /\ old = registry
  BY DEF old
<1> HIDE DEF new
<1>5. \A x \in Sockets : Registered(x)' <=> (Registered(x) /\ x \notin gone)
  BY <1>2, <1>4 DEF Registered
<1>6. (\A x \in gone : ~Registered(x)) => registry' = registry
  BY <1>3, <1>4 DEF Registered
<1>7. QED
  BY <1>2, <1>4, <1>5, <1>6

\* A removal shifts the list under the iterators of the broadcasts.
LEMMA UnregisterKeeps ==
    ASSUME BroadcastIInv, NEW s \in Sockets, Unregister(s)
    PROVE  BroadcastIInv'
<1>t. BusTypeOK /\ RegistryExact
  BY DEF BroadcastIInv
<1>u. /\ conn[s] = "left" /\ conn' = [conn EXCEPT ![s] = "closed"]
      /\ registry' = Without(registry, {s})
      /\ churn' = IF Registered(s) THEN churn \cup Sending ELSE churn
      /\ UNCHANGED <<bpc, index, dead, received, audience>>
  BY DEF Unregister
<1>r. /\ registry' \in Seq(Sockets)
      /\ \A x \in Sockets : Registered(x)' <=> (Registered(x) /\ x # s)
      /\ \A i, j \in DOMAIN registry' : registry'[i] = registry'[j] => i = j
      /\ \A k \in DOMAIN registry' : \E i \in DOMAIN registry : k <= i /\ registry[i] = registry'[k]
      /\ ~Registered(s) => registry' = registry
  <2> DEFINE gone == {s}
  <2>1. registry' = Without(registry, gone)
    BY <1>u
  <2>2. \A x : x \in gone <=> x = s
    OBVIOUS
  <2> HIDE DEF gone
  <2>3. /\ registry' \in Seq(Sockets)
        /\ \A x \in Sockets : Registered(x)' <=> (Registered(x) /\ x \notin gone)
        /\ \A i, j \in DOMAIN registry' : registry'[i] = registry'[j] => i = j
        /\ \A k \in DOMAIN registry' : \E i \in DOMAIN registry : k <= i /\ registry[i] = registry'[k]
        /\ (\A x \in gone : ~Registered(x)) => registry' = registry
    BY <1>t, <2>1, Removal, Zenon
  <2>4. QED
    BY <2>2, <2>3
<1>c. /\ conn' \in [Sockets -> {"new", "open", "left", "closed"}]
      /\ conn'[s] = "closed"
      /\ \A x \in Sockets \ {s} : conn'[x] = conn[x]
  BY <1>t, <1>u DEF BusTypeOK
<1>1. BusTypeOK'
  BY <1>t, <1>u, <1>r, <1>c DEF BusTypeOK, Sending
<1>2. RegistryExact'
  <2>1. \A x \in Sockets : conn'[x] = "open" => conn[x] = "open" /\ x # s
    BY <1>c
  <2>2. QED
    BY <2>1, <1>r, <1>c DEF BroadcastIInv, RegistryExact
<1>3. DeadHaveLeft'
  <2>1. \A b \in Broadcasts : \A i \in DOMAIN dead[b] : dead[b][i] \in Sockets
    BY <1>t DEF BusTypeOK
  <2>2. QED
    BY <2>1, <1>u, <1>c DEF BroadcastIInv, DeadHaveLeft
<1>4. ServedBefore'
  <2>1. \A k \in DOMAIN registry' : k \in Int
    BY <1>r
  <2>2. \A i \in DOMAIN registry : i \in Int
    BY <1>t DEF BusTypeOK
  <2>3. \A b \in Broadcasts : index[b] \in Int
    BY <1>t DEF BusTypeOK
  <2>4. \A x \in Sockets : conn'[x] = "new" => conn[x] = "new"
    BY <1>c
  <2>5. ASSUME NEW x \in Sockets, NEW b \in Broadcasts, received[x][b] = 1,
               NEW k \in DOMAIN registry', registry'[k] = x
        PROVE  k < index[b]
    <3>1. PICK i \in DOMAIN registry : k <= i /\ registry[i] = x
      BY <2>5, <1>r
    <3>2. i < index[b]
      BY <2>5, <3>1 DEF BroadcastIInv, ServedBefore
    <3>3. QED
      BY <2>1, <2>2, <2>3, <3>1, <3>2
  <2>6. QED
    BY <2>4, <2>5, <1>u DEF BroadcastIInv, ServedBefore
<1>5. AudienceIsOpen'
  <2>1. \A b \in Broadcasts : \A x \in audience[b] : x \in Sockets
    BY <1>t DEF BusTypeOK
  <2>2. QED
    BY <2>1, <1>u, <1>c DEF BroadcastIInv, AudienceIsOpen
<1>6. QuietSoFar'
  <2>1. CASE Registered(s)
    <3>1. \A b \in Broadcasts \ churn' : b \notin churn /\ bpc[b] # "send"
      BY <2>1, <1>u DEF Sending
    <3>2. QED
      BY <3>1, <1>u DEF BroadcastIInv, QuietSoFar
  <2>2. CASE ~Registered(s)
    <3>1. UNCHANGED <<registry, churn, bpc, index, dead, received, audience>>
      BY <2>2, <1>u, <1>r
    <3>2. QED
      BY <3>1 DEF BroadcastIInv, QuietSoFar, Registered
  <2>3. QED
    BY <2>1, <2>2
<1>7. QuietReachesAll'
  <2>1. churn \subseteq churn'
    BY <1>u
  <2>2. QED
    BY <2>1, <1>u DEF BroadcastIInv, QuietReachesAll
<1>8. QED
  BY <1>1, <1>2, <1>3, <1>4, <1>5, <1>6, <1>7 DEF BroadcastIInv

\* A broadcast that has sent removes the dead sockets it found.
LEMMA ReapKeeps ==
    ASSUME BroadcastIInv, NEW b \in Broadcasts, Reap(b)
    PROVE  BroadcastIInv'
<1> DEFINE missing == {i \in DOMAIN dead[b] : ~Registered(dead[b][i])}
           reaped == {dead[b][i] : i \in {j \in DOMAIN dead[b] : \A k \in missing : j < k}}
<1>t. BusTypeOK /\ RegistryExact
  BY DEF BroadcastIInv
<1>u. /\ bpc[b] = "send" /\ index[b] \notin DOMAIN registry
      /\ registry' = Without(registry, reaped)
      /\ churn' = IF reaped = {} THEN churn ELSE churn \cup (Sending \ {b})
      /\ bpc' = [bpc EXCEPT ![b] = IF missing = {} THEN "done" ELSE "raised"]
      /\ UNCHANGED <<conn, index, dead, received, audience>>
  BY DEF Reap
<1>d. reaped \subseteq Sockets /\ \A x \in reaped : conn[x] \in {"left", "closed"}
  BY <1>t DEF BroadcastIInv, DeadHaveLeft, BusTypeOK
<1>q. b \notin churn => missing = {}
  BY <1>u DEF BroadcastIInv, QuietSoFar
<1> HIDE DEF missing, reaped
<1>r. /\ registry' \in Seq(Sockets)
      /\ \A x \in Sockets : Registered(x)' <=> (Registered(x) /\ x \notin reaped)
      /\ \A i, j \in DOMAIN registry' : registry'[i] = registry'[j] => i = j
      /\ \A k \in DOMAIN registry' : \E i \in DOMAIN registry : k <= i /\ registry[i] = registry'[k]
      /\ reaped = {} => registry' = registry
  BY <1>t, <1>u, Removal
<1>p. /\ bpc' \in [Broadcasts -> {"idle", "send", "done", "raised"}]
      /\ bpc'[b] = IF missing = {} THEN "done" ELSE "raised"
      /\ \A c \in Broadcasts \ {b} : bpc'[c] = bpc[c]
  BY <1>t, <1>u DEF BusTypeOK
<1>1. BusTypeOK'
  BY <1>t, <1>u, <1>r, <1>p DEF BusTypeOK, Sending
<1>2. RegistryExact'
  BY <1>t, <1>d, <1>u, <1>r DEF BroadcastIInv, RegistryExact
<1>3. DeadHaveLeft'
  BY <1>u DEF BroadcastIInv, DeadHaveLeft
<1>4. ServedBefore'
  <2>1. \A k \in DOMAIN registry' : k \in Int
    BY <1>r
  <2>2. \A i \in DOMAIN registry : i \in Int
    BY <1>t DEF BusTypeOK
  <2>3. \A c \in Broadcasts : index[c] \in Int
    BY <1>t DEF BusTypeOK
  <2>4. QED
    BY <2>1, <2>2, <2>3, <1>u, <1>r DEF BroadcastIInv, ServedBefore
<1>5. AudienceIsOpen'
  BY <1>u DEF BroadcastIInv, AudienceIsOpen
<1>6. QuietSoFar'
  <2> SUFFICES ASSUME NEW c \in Broadcasts \ churn'
               PROVE  /\ bpc'[c] = "idle" => index[c] = 1 /\ dead[c] = <<>>
                                              /\ \A s \in Sockets : received[s][c] = 0
                      /\ bpc'[c] = "send" =>
                           /\ \A i \in DOMAIN registry' :
                                 i < index[c] /\ registry'[i] \in audience[c] => received[registry'[i]][c] = 1
                           /\ \A k \in DOMAIN dead[c] :
                                 \E i \in DOMAIN registry' : registry'[i] = dead[c][k]
    BY <1>u DEF QuietSoFar, Registered
  <2>1. c \notin churn
    BY <1>u
  <2>2. CASE c = b
    BY <2>2, <1>p
  <2>3. CASE c # b /\ reaped # {}
    <3>1. bpc[c] # "send" /\ bpc'[c] = bpc[c]
      BY <2>3, <1>u, <1>p DEF Sending
    <3>2. QED
      BY <3>1, <2>1 DEF BroadcastIInv, QuietSoFar
  <2>4. CASE c # b /\ reaped = {}
    <3>1. registry' = registry /\ bpc'[c] = bpc[c]
      BY <2>4, <1>r, <1>p
    <3>2. QED
      BY <3>1, <2>1 DEF BroadcastIInv, QuietSoFar, Registered
  <2>5. QED
    BY <2>2, <2>3, <2>4
<1>7. QuietReachesAll'
  <2> SUFFICES ASSUME NEW c \in Broadcasts, bpc'[c] \in {"done", "raised"}, c \notin churn'
               PROVE  bpc'[c] = "done" /\ \A s \in audience[c] : received[s][c] = 1
    BY <1>u DEF QuietReachesAll
  <2>1. c \notin churn
    BY <1>u
  <2>2. CASE c = b
    <3>1. bpc'[b] = "done"
      BY <2>1, <2>2, <1>q, <1>p
    <3>2. \A i \in DOMAIN registry : i < index[b]
      BY <1>t, <1>u DEF BusTypeOK
    <3>3. \A s \in audience[b] : s \in Sockets /\ Registered(s)
      BY <1>t DEF BroadcastIInv, AudienceIsOpen, RegistryExact, BusTypeOK
    <3>4. \A s \in audience[b] : received[s][b] = 1
      BY <3>2, <3>3, <2>1, <2>2, <1>u DEF BroadcastIInv, QuietSoFar, Registered
    <3>5. QED
      BY <3>1, <3>4, <2>2
  <2>3. CASE c # b
    BY <2>3, <2>1, <1>p DEF BroadcastIInv, QuietReachesAll
  <2>4. QED
    BY <2>2, <2>3
<1>8. QED
  BY <1>1, <1>2, <1>3, <1>4, <1>5, <1>6, <1>7 DEF BroadcastIInv

\* Every step keeps the inductive invariant.
LEMMA BroadcastStep == BroadcastIInv /\ [BusNext]_busVars => BroadcastIInv'
<1> SUFFICES ASSUME BroadcastIInv, [BusNext]_busVars
             PROVE  BroadcastIInv'
  OBVIOUS
<1>1. CASE \E s \in Sockets : Register(s) \/ Reject(s) \/ PeerLeaves(s) \/ Unregister(s)
  BY <1>1, RegisterKeeps, RejectKeeps, PeerLeavesKeeps, UnregisterKeeps
<1>2. CASE \E b \in Broadcasts : Start(b) \/ SendFails(b) \/ Send(b) \/ Reap(b)
  BY <1>2, StartKeeps, SendFailsKeeps, SendKeeps, ReapKeeps
<1>3. CASE UNCHANGED busVars
  BY <1>3 DEF busVars, BroadcastIInv, BusTypeOK, RegistryExact, DeadHaveLeft, ServedBefore,
              AudienceIsOpen, QuietSoFar, QuietReachesAll, Registered
<1>4. QED
  BY <1>1, <1>2, <1>3 DEF BusNext

\* It holds in every state.
LEMMA BroadcastAlways == BusSpec => []BroadcastIInv
<1>1. QED
  BY BroadcastInit, BroadcastStep, PTL DEF BusSpec

(***************************************************************************)
(* The registry holds every open socket exactly once, and no socket is     *)
(* sent an event twice, for any number of sockets that come and go while   *)
(* any number of broadcasts iterate over it.                               *)
(***************************************************************************)
THEOREM BroadcastInvariant == BusSpec => []BroadcastInv
<1>1. BroadcastIInv => BroadcastInv
  BY DEF BroadcastIInv, BroadcastInv, ServedBefore, AtMostOnce
<1>2. QED
  BY <1>1, BroadcastAlways, PTL

(***************************************************************************)
(* A broadcast during which nobody left the registry returns, and has      *)
(* reached each socket that was open when it began and still is.           *)
(***************************************************************************)
THEOREM QuietBroadcastReachesAll == BusSpec => []QuietReachesAll
<1>1. BroadcastIInv => QuietReachesAll
  BY DEF BroadcastIInv
<1>2. QED
  BY <1>1, BroadcastAlways, PTL

-----------------------------------------------------------------------------
\* Sessions, sockets and documents side by side.

\* They start as each of them does.
LEMMA DeskStarts == DeskInit => Init /\ BusInit /\ PipelineInit
BY DEF DeskInit

\* A step of one leaves the others as they are.
LEMMA DeskSteps ==
    [DeskNext]_deskVars =>
       [Next]_vars /\ [BusNext]_busVars /\ [PipelineNext]_pipelineVars
BY DEF DeskNext, deskVars

(***************************************************************************)
(* Side by side, as the runs take them, the sessions, the sockets and the  *)
(* documents each behave as their own specification says, so that what is  *)
(* proved of them holds of the behaviours of the runs.                     *)
(***************************************************************************)
THEOREM EachDeskAlone == DeskSpec => Spec /\ BusSpec /\ PipelineSpec
BY DeskStarts, DeskSteps, PTL DEF DeskSpec, Spec, BusSpec, PipelineSpec

(***************************************************************************)
(* All that the run checks of the escalations, of the broadcasts and of    *)
(* the documents, for any number of them.                                  *)
(***************************************************************************)
THEOREM DeskHolds ==
    DeskSpec =>
       /\ [](HitlInv /\ PendingHasTask /\ AtMostOneTicket)
       /\ [](BroadcastInv /\ QuietReachesAll)
       /\ [](PipelineInv /\ DeletedNeverShown /\ CompletedIsSearchable)
       /\ SessionLifeKept
       /\ LateTakeRefused
BY EachDeskAlone, HitlInvariant, PendingSessionKeepsTask, TicketUniqueness,
   BroadcastInvariant, QuietBroadcastReachesAll, PipelineInvariant, FilterHidesDeleted,
   CompletedStaysSearchable, ImplementsSessionLife, LateTakesRefused, PTL
=============================================================================

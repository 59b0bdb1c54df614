---------------------------- MODULE HitlSessions ----------------------------
(***************************************************************************)
(* The human-in-the-loop tables of the admin service                       *)
(* (admin_service/routes/hitl.py): hitl_sessions, hitl_escalation_tasks,   *)
(* tickets and threads.status, with the handlers that race on them: the    *)
(* agent's notify_hitl_request, the admins' take / end / message requests, *)
(* and the 60-second escalation pollers.                                   *)
(*                                                                         *)
(* PostgreSQL runs at its default level, READ COMMITTED: a SELECT without  *)
(* FOR UPDATE locks nothing and sees what is committed at that moment, so  *)
(* a handler's check and its writes are separate steps.  The writes of one *)
(* transaction become visible together at COMMIT; none of them reads, and  *)
(* all transactions lock a thread row before a session row, so performing  *)
(* them in the commit step loses no interleaving.                          *)
(*                                                                         *)
(* No lifespan of the repository starts run_escalation_poller              *)
(* (admin_service/main.py:27-57), and a task whose conversation has no row *)
(* in threads makes its ticket's INSERT fail on every poll and, being the  *)
(* oldest, is polled before the others.  So the module promises nothing    *)
(* about a pending session's end, only what holds whatever number of       *)
(* pollers runs.                                                           *)
(***************************************************************************)
EXTENDS Naturals, FiniteSets

CONSTANTS
    Sessions,       \* uuid4 session ids notify_hitl_request may draw
    Threads,        \* conversation ids of the LangGraph checkpointer
    ThreadRows,     \* the conversations that have a row in table threads
    Admins,         \* concurrent admin requests
    Pollers,        \* concurrent escalation pollers
    NoSession,      \* "no session selected"
    NoThread,       \* "no thread yet"
    EscalationDelay,\* INTERVAL '60 seconds', in clock ticks
    MaxTime,        \* bound on the clock
    MaxCrashes      \* bound on poller crashes

ASSUME HitlAssumption ==
    /\ ThreadRows \subseteq Threads
    /\ NoSession \notin Sessions
    /\ NoThread \notin Threads
    /\ EscalationDelay \in Nat
    /\ MaxTime \in Nat
    /\ MaxCrashes \in Nat

Status == {"none", "pending", "active", "resolved", "auto_escalated"}

VARIABLES
    now,          \* database clock
    status,       \* hitl_sessions.status; "none": no such row
    sthread,      \* hitl_sessions.thread_id
    tasks,        \* sessions that have a row in hitl_escalation_tasks
    executeAt,    \* hitl_escalation_tasks.execute_at
    tickets,      \* number of rows in tickets per session
    threadStatus, \* threads.status
    op,           \* per admin request: handler it runs, past its check
    target,       \* per admin request: session_id of the URL
    ppc,          \* per poller: position in _poll_escalation_tasks
    ptask,        \* per poller: session of the task row it holds FOR UPDATE
    pseen,        \* per poller: session status it read
    crashes,      \* poller crashes so far
    takers        \* history: admins told they took the session

dbVars   == <<status, sthread, tasks, executeAt, tickets, threadStatus>>
reqVars  == <<op, target>>
pollVars == <<ppc, ptask, pseen, crashes>>
vars     == <<now, dbVars, reqVars, pollVars, takers>>

Init ==
    /\ now = 0
    /\ status = [s \in Sessions |-> "none"]
    /\ sthread = [s \in Sessions |-> NoThread]
    /\ tasks = {}
    /\ executeAt = [s \in Sessions |-> 0]
    /\ tickets = [s \in Sessions |-> 0]
    /\ threadStatus = [t \in ThreadRows |-> "active"]
    /\ op = [a \in Admins |-> "idle"]
    /\ target = [a \in Admins |-> NoSession]
    /\ ppc = [p \in Pollers |-> "idle"]
    /\ ptask = [p \in Pollers |-> NoSession]
    /\ pseen = [p \in Pollers |-> "none"]
    /\ crashes = 0
    /\ takers = [s \in Sessions |-> {}]

(***************************************************************************)
(* Time: NOW() advances.                                                   *)
(***************************************************************************)
Tick ==
    /\ now < MaxTime
    /\ now' = now + 1
    /\ UNCHANGED <<dbVars, reqVars, pollVars, takers>>

(***************************************************************************)
(* notify_hitl_request: one transaction inserts the pending session and    *)
(* its escalation task.  The thread ids of both tables lost their foreign  *)
(* key in migration 005, so any conversation id is accepted.               *)
(***************************************************************************)
\* Mutant: INSERT ... ON CONFLICT DO UPDATE revives an old session id.
NotifyHitlRequest_Revive(s, t) ==
    /\ now + EscalationDelay <= MaxTime
    /\ status' = [status EXCEPT ![s] = "pending"]
    /\ sthread' = [sthread EXCEPT ![s] = t]
    /\ tasks' = tasks \cup {s}
    /\ executeAt' = [executeAt EXCEPT ![s] = now + EscalationDelay]
    /\ UNCHANGED <<now, tickets, threadStatus, reqVars, pollVars, takers>>

NotifyHitlRequest(s, t) ==
    /\ status[s] = "none"
    /\ now + EscalationDelay <= MaxTime
    /\ status' = [status EXCEPT ![s] = "pending"]
    /\ sthread' = [sthread EXCEPT ![s] = t]
    /\ tasks' = tasks \cup {s}
    /\ executeAt' = [executeAt EXCEPT ![s] = now + EscalationDelay]
    /\ UNCHANGED <<now, tickets, threadStatus, reqVars, pollVars, takers>>

(***************************************************************************)
(* The three admin handlers.  Each first SELECTs the row and answers 404   *)
(* or 409 without touching anything; past the check it goes on with what   *)
(* it read.                                                                *)
(***************************************************************************)
CheckSession(a, s, name, wanted) ==
    /\ op[a] = "idle"
    /\ status[s] = wanted
    /\ op' = [op EXCEPT ![a] = name]
    /\ target' = [target EXCEPT ![a] = s]
    /\ UNCHANGED <<now, dbVars, pollVars, takers>>

\* Mutant: a take of a session somebody has taken is let through.
TakeCheck_Active(a, s) ==
    \E wanted \in {"pending", "active"} : CheckSession(a, s, "take", wanted)

TakeCheck(a, s) == CheckSession(a, s, "take", "pending")

EndCheck(a, s) == CheckSession(a, s, "end", "active")

MessageCheck(a, s) == CheckSession(a, s, "message", "active")

\* Mutant: an upsert, which adds the missing row of the conversation.
SetThreadStatus_Upsert(t, v) ==
    threadStatus' = [r \in Threads |-> IF r = t THEN v ELSE "active"]

\* UPDATE threads ... WHERE id = t touches no row when the conversation has none.
SetThreadStatus(t, v) ==
    threadStatus' = [r \in ThreadRows |-> IF r = t THEN v ELSE threadStatus[r]]

RequestDone(a) ==
    /\ op' = [op EXCEPT ![a] = "idle"]
    /\ target' = [target EXCEPT ![a] = NoSession]

TakeCommit(a) ==
    /\ op[a] = "take"
    /\ SetThreadStatus(sthread[target[a]], "human_intervention")
    /\ status' = [status EXCEPT ![target[a]] = "active"]
    /\ takers' = [takers EXCEPT ![target[a]] = @ \cup {a}]
    /\ RequestDone(a)
    /\ UNCHANGED <<now, sthread, tasks, executeAt, tickets, pollVars>>

EndCommit(a) ==
    /\ op[a] = "end"
    /\ SetThreadStatus(sthread[target[a]], "active")
    /\ status' = [status EXCEPT ![target[a]] = "resolved"]
    /\ RequestDone(a)
    /\ UNCHANGED <<now, sthread, tasks, executeAt, tickets, pollVars, takers>>

\* The INSERT of send_hitl_message names no tenant_id, which is NOT NULL and
\* has no default: the transaction is rolled back and the request ends.
MessageInsert(a) ==
    /\ op[a] = "message"
    /\ RequestDone(a)
    /\ UNCHANGED <<now, dbVars, pollVars, takers>>

(***************************************************************************)
(* _poll_escalation_tasks.  The task row is selected FOR UPDATE SKIP       *)
(* LOCKED inside a transaction and stays locked until it ends; the session *)
(* row is read without a lock.                                             *)
(***************************************************************************)
\* Mutant: SELECT without FOR UPDATE SKIP LOCKED.
Locked_Never(s) == FALSE

Locked(s) == \E p \in Pollers : ptask[p] = s

Overdue == {s \in tasks : executeAt[s] <= now}

\* ORDER BY execute_at LIMIT 1 over the rows nobody holds.
NextTasks ==
    LET free == {s \in Overdue : ~Locked(s)}
    IN  {s \in free : \A r \in free : executeAt[s] <= executeAt[r]}

PollPick(p, s) ==
    /\ ppc[p] = "idle"
    /\ s \in NextTasks
    /\ ppc' = [ppc EXCEPT ![p] = "locked"]
    /\ ptask' = [ptask EXCEPT ![p] = s]
    /\ UNCHANGED <<now, dbVars, reqVars, pseen, crashes, takers>>

PollReadSession(p) ==
    /\ ppc[p] = "locked"
    /\ ppc' = [ppc EXCEPT ![p] = "checked"]
    /\ pseen' = [pseen EXCEPT ![p] = status[ptask[p]]]
    /\ UNCHANGED <<now, dbVars, reqVars, ptask, crashes, takers>>

\* The transaction ends and the task row is unlocked.
PollDone(p) ==
    /\ ppc' = [ppc EXCEPT ![p] = "idle"]
    /\ ptask' = [ptask EXCEPT ![p] = NoSession]
    /\ pseen' = [pseen EXCEPT ![p] = "none"]

\* tickets.thread_id still references threads(id).
TicketInsertOK(s) == sthread[s] \in ThreadRows

PollEscalate(p) ==
    /\ ppc[p] = "checked"
    /\ pseen[p] = "pending"
    /\ TicketInsertOK(ptask[p])
    /\ status' = [status EXCEPT ![ptask[p]] = "auto_escalated"]
    /\ tickets' = [tickets EXCEPT ![ptask[p]] = @ + 1]
    /\ tasks' = tasks \ {ptask[p]}
    /\ PollDone(p)
    /\ UNCHANGED <<now, sthread, executeAt, threadStatus, reqVars, crashes, takers>>

\* Mutant: the processed task is deleted even when the ticket failed.
PollRollback_DeleteTask(p) ==
    /\ ppc[p] = "checked"
    /\ pseen[p] = "pending"
    /\ ~TicketInsertOK(ptask[p])
    /\ tasks' = tasks \ {ptask[p]}
    /\ PollDone(p)
    /\ UNCHANGED <<now, status, sthread, executeAt, tickets, threadStatus,
                   reqVars, crashes, takers>>

\* The ticket's foreign key fails: the whole transaction is rolled back and
\* run_escalation_poller logs the error and polls again.
PollRollback(p) ==
    /\ ppc[p] = "checked"
    /\ pseen[p] = "pending"
    /\ ~TicketInsertOK(ptask[p])
    /\ PollDone(p)
    /\ UNCHANGED <<now, dbVars, reqVars, crashes, takers>>

\* An admin took the session before the poller looked: only the task goes.
PollDrop(p) ==
    /\ ppc[p] = "checked"
    /\ pseen[p] # "pending"
    /\ tasks' = tasks \ {ptask[p]}
    /\ PollDone(p)
    /\ UNCHANGED <<now, status, sthread, executeAt, tickets, threadStatus,
                   reqVars, crashes, takers>>

\* The poller's process dies or is cancelled: PostgreSQL rolls back.
PollCrash(p) ==
    /\ ppc[p] # "idle"
    /\ crashes < MaxCrashes
    /\ crashes' = crashes + 1
    /\ PollDone(p)
    /\ UNCHANGED <<now, dbVars, reqVars, takers>>

AdminStep(a) ==
    \/ \E s \in Sessions : TakeCheck(a, s) \/ EndCheck(a, s) \/ MessageCheck(a, s)
    \/ TakeCommit(a)
    \/ EndCommit(a)
    \/ MessageInsert(a)

PollStep(p) ==
    \/ \E s \in Sessions : PollPick(p, s)
    \/ PollReadSession(p)
    \/ PollEscalate(p)
    \/ PollRollback(p)
    \/ PollDrop(p)

Next ==
    \/ Tick
    \/ \E s \in Sessions, t \in Threads : NotifyHitlRequest(s, t)
    \/ \E a \in Admins : AdminStep(a)
    \/ \E p \in Pollers : PollStep(p) \/ PollCrash(p)

Spec == Init /\ [][Next]_vars
-----------------------------------------------------------------------------
(***************************************************************************)
(* Properties                                                              *)
(***************************************************************************)
TypeOK ==
    /\ now \in Nat
    /\ status \in [Sessions -> Status]
    /\ sthread \in [Sessions -> Threads \cup {NoThread}]
    /\ tasks \subseteq Sessions
    /\ executeAt \in [Sessions -> Nat]
    /\ tickets \in [Sessions -> Nat]
    /\ threadStatus \in [ThreadRows -> {"active", "human_intervention"}]
    /\ op \in [Admins -> {"idle", "take", "end", "message"}]
    /\ target \in [Admins -> Sessions \cup {NoSession}]
    /\ ppc \in [Pollers -> {"idle", "locked", "checked"}]
    /\ ptask \in [Pollers -> Sessions \cup {NoSession}]
    /\ pseen \in [Pollers -> Status]
    /\ crashes \in Nat
    /\ takers \in [Sessions -> SUBSET Admins]

\* A session nobody has taken is never forgotten: as long as it is pending its
\* escalation task exists, whatever pollers crash, roll back or drop
\* (_poll_escalation_tasks deletes a task only with its session dealt with).
PendingHasTask == \A s \in Sessions : status[s] = "pending" => s \in tasks

\* However many pollers run and however often one dies between two steps, a
\* session is escalated to at most one ticket (FOR UPDATE SKIP LOCKED).
AtMostOneTicket == \A s \in Sessions : tickets[s] <= 1

\* Two pollers never work on one task row at the same time.
TaskLockExclusive ==
    \A p, q \in Pollers : p # q /\ ptask[p] # NoSession => ptask[p] # ptask[q]

\* What makes the three invariants above inductive.  A poller holds a row
\* exactly while it is inside its transaction, and the row is still there; a
\* status other than pending that a poller has read stays other than pending;
\* a task implies an existing session without a ticket; a session somebody
\* took, or whose end or message is under way, is past pending.
PollerShape ==
    \A p \in Pollers :
        /\ ppc[p] = "idle" <=> ptask[p] = NoSession
        /\ ptask[p] # NoSession => ptask[p] \in tasks
        /\ ppc[p] = "checked" /\ pseen[p] # "pending"
              => status[ptask[p]] \notin {"none", "pending"}

TaskShape ==
    \A s \in Sessions :
        /\ s \in tasks => status[s] # "none" /\ tickets[s] = 0
        /\ status[s] = "none" => tickets[s] = 0

RequestShape ==
    \A a \in Admins :
        op[a] # "idle" =>
            /\ target[a] \in Sessions
            /\ status[target[a]] # "none"
            /\ op[a] # "take" => status[target[a]] # "pending"

TakerShape ==
    \A s \in Sessions : takers[s] # {} => status[s] \notin {"none", "pending"}

HitlInv ==
    /\ TypeOK
    /\ PendingHasTask
    /\ AtMostOneTicket
    /\ TaskLockExclusive
    /\ PollerShape
    /\ TaskShape
    /\ RequestShape
    /\ TakerShape

\* A session that left "pending" never becomes pending again, so no second
\* admin is ever notified of it, and a ticket, once opened, stays.
NoReopening ==
    [][\A s \in Sessions :
        /\ status[s] \notin {"none", "pending"} => status'[s] \notin {"none", "pending"}
        /\ tickets'[s] >= tickets[s]]_vars

(***************************************************************************)
(* The tables, and the admin requests under way, as the calls for a human  *)
(* that SessionLife promises to handle.  Who has ended a session, and the  *)
(* pollers' transactions, are not visible there.                           *)
(***************************************************************************)
Life == INSTANCE SessionLife WITH
    Calls <- Sessions,
    Helpers <- Admins,
    stage <- [s \in Sessions |->
                 IF status[s] \in {"none", "pending"} THEN status[s] ELSE "handled"],
    asking <- {<<a, target[a]>> : a \in {b \in Admins : op[b] = "take"}},
    granted <- {g \in Admins \X Sessions : g[1] \in takers[g[2]]},
    ticketed <- {s \in Sessions : tickets[s] > 0}

\* The handlers and pollers together, with their stale reads, overlapping
\* checks and crashes, do what SessionLife promises: no call is raised again or
\* handed to somebody who asked too late, and none gets a second ticket.
SessionLifeKept == Life!LifeSpec

\* A request that comes after a committed take of the session is refused,
\* whatever has become of the session meanwhile (the 409 of hitl.py:163); only
\* requests whose checks overlap can take one session twice.
LateTakeRefused ==
    [][\A a \in Admins :
        op[a] = "idle" /\ op'[a] = "take" => takers[target'[a]] = {}]_vars

\* hitl.py:309: a session an admin has taken is not escalated to a ticket.
TakenNotTicketed == \A s \in Sessions : takers[s] = {} \/ tickets[s] = 0
=============================================================================

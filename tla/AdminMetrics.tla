---------------------------- MODULE AdminMetrics ----------------------------
(***************************************************************************)
(* The figures an admin sees of one tenant (admin_service/routes/          *)
(* metrics.py): conversations and transfers of a range of days, questions  *)
(* of threads that had a session, the most frequent ones only, and the     *)
(* gate on the scores of an evaluation.  Rows are the days they were       *)
(* created on; the overview joins threads with sessions before it counts.  *)
(***************************************************************************)
EXTENDS Naturals, FiniteSets

CONSTANTS
    ThreadIds,    \* rows of threads
    SessionRows,  \* rows of hitl_sessions, one thread each
    Questions,    \* rows of messages whose role is user
    question_of,  \* thread of each question
    prefix_of,    \* the first 50 characters of each question
    MissedLimit,  \* prefixes that missed-queries shows at most, 20
    Metrics,      \* metrics with a threshold
    Ranges,       \* lengths of the ranges, in days
    LastDay       \* bound on the days that pass

NoSession == "NULL"

ASSUME MetricsAssumption ==
    /\ IsFiniteSet(ThreadIds) /\ IsFiniteSet(SessionRows) /\ NoSession \notin SessionRows
    /\ IsFiniteSet(Questions) /\ question_of \in [Questions -> ThreadIds]
    /\ DOMAIN prefix_of = Questions
    /\ MissedLimit \in Nat \ {0}
    /\ Ranges \subseteq Nat
    /\ LastDay \in Nat \ {0}

VARIABLES
    day,          \* NOW()
    thread_day,   \* day of each thread, or 0
    session_day,  \* day of each session, or 0
    session_of,   \* thread of each session
    question_day  \* day of each question, or 0

metricsVars == <<day, thread_day, session_day, session_of, question_day>>

MetricsInit ==
    /\ day = 1
    /\ thread_day = [t \in ThreadIds |-> 0]
    /\ session_day = [h \in SessionRows |-> 0]
    /\ session_of \in [SessionRows -> ThreadIds]
    /\ question_day = [q \in Questions |-> 0]

OpenThread(t) ==
    /\ thread_day[t] = 0
    /\ thread_day' = [thread_day EXCEPT ![t] = day]
    /\ UNCHANGED <<day, session_day, session_of, question_day>>

StartSession(h) ==
    /\ session_day[h] = 0
    /\ thread_day[session_of[h]] # 0
    /\ session_day' = [session_day EXCEPT ![h] = day]
    /\ UNCHANGED <<day, thread_day, session_of, question_day>>

AskQuestion(q) ==
    /\ question_day[q] = 0
    /\ thread_day[question_of[q]] # 0
    /\ question_day' = [question_day EXCEPT ![q] = day]
    /\ UNCHANGED <<day, thread_day, session_day, session_of>>

NextDay ==
    /\ day < LastDay
    /\ day' = day + 1
    /\ UNCHANGED <<thread_day, session_day, session_of, question_day>>

MetricsNext ==
    \/ \E t \in ThreadIds : OpenThread(t)
    \/ \E h \in SessionRows : StartSession(h)
    \/ \E q \in Questions : AskQuestion(q)
    \/ NextDay

MetricsSpec == MetricsInit /\ [][MetricsNext]_metricsVars

-----------------------------------------------------------------------------
InRange(created, range) == created # 0 /\ created + range > day

RecentThreads(range) == {t \in ThreadIds : InRange(thread_day[t], range)}

RecentSessions(range) == {h \in SessionRows : InRange(session_day[h], range)}

\* threads LEFT JOIN hitl_sessions: on the tenant, not on the thread.
Joined(range) ==
    RecentThreads(range) \X
        (IF RecentSessions(range) = {} THEN {NoSession} ELSE RecentSessions(range))

\* Mutant: COUNT(t.id), without DISTINCT.
Conversations_Rows(range) == Cardinality(Joined(range))

Conversations(range) == Cardinality({row[1] : row \in Joined(range)})

Transfers(range) == Cardinality({row[2] : row \in Joined(range)} \ {NoSession})

\* The questions of a range, of threads that had a session at any time.
MissedQuestions(range) ==
    {q \in Questions : /\ InRange(question_day[q], range)
                       /\ \E h \in SessionRows : session_of[h] = question_of[q] /\ session_day[h] # 0}

MissedCount(prefix, range) == Cardinality({q \in MissedQuestions(range) : prefix_of[q] = prefix})

Missed(range) == {prefix_of[q] : q \in MissedQuestions(range)}

\* Mutant: ORDER BY count, without DESC.
Outranks_Ascending(p, q, range) == MissedCount(p, range) <= MissedCount(q, range)

Outranks(p, q, range) == MissedCount(p, range) >= MissedCount(q, range)

\* missed-queries, ORDER BY count DESC LIMIT 20: the prefixes it may show, ties being open.
MissedQueries(range) ==
    {shown \in SUBSET Missed(range) :
        /\ Cardinality(shown) <= MissedLimit
        /\ shown # Missed(range) => Cardinality(shown) = MissedLimit
        /\ \A p \in shown, q \in Missed(range) \ shown : Outranks(p, q, range)}

(***************************************************************************)
(* sandbox_run: without test cases it is an error, without ragas a stub;   *)
(* the metrics of its result that are below their threshold fail the gate, *)
(* one that the result lacks does not.                                     *)
(***************************************************************************)
Gate(cases, ragas, present, below) ==
    LET failed == IF cases > 0 /\ ragas = "runs" THEN present \cap below ELSE {}
        status == CASE cases = 0 \/ ragas = "raises" -> "error"
                    [] cases > 0 /\ ragas = "missing" -> "stub"
                    [] cases > 0 /\ ragas = "runs" -> IF failed = {} THEN "passed" ELSE "failed"
    IN  [status |-> status, failed |-> failed]

-----------------------------------------------------------------------------
(***************************************************************************)
(* Types; the join counts every conversation once, however many sessions   *)
(* there were, and every session once, but none while no thread is recent; *)
(* a longer range has as many of each, and of each missed question; but as *)
(* the list is cut, it may show a question of the shorter range no more,   *)
(* which is then displaced by a full list of more frequent ones; a failed  *)
(* gate names its metrics, and one is passed only by cases that were run.  *)
(***************************************************************************)
MetricsInv ==
    /\ day \in 1..LastDay
    /\ thread_day \in [ThreadIds -> 0..LastDay]
    /\ session_day \in [SessionRows -> 0..LastDay]
    /\ session_of \in [SessionRows -> ThreadIds]
    /\ question_day \in [Questions -> 0..LastDay]
    /\ \A range \in Ranges :
           /\ Conversations(range) = Cardinality(RecentThreads(range))
           /\ Transfers(range) = IF RecentThreads(range) = {} THEN 0
                                 ELSE Cardinality(RecentSessions(range))
           /\ \A longer \in Ranges : range < longer =>
                  /\ Conversations(range) <= Conversations(longer)
                  /\ Transfers(range) <= Transfers(longer)
                  /\ \A p \in Missed(range) : MissedCount(p, range) <= MissedCount(p, longer)
                  /\ \A shown \in MissedQueries(range), now \in MissedQueries(longer) :
                         \A p \in shown \ now :
                             /\ Cardinality(now) = MissedLimit
                             /\ \A q \in now : MissedCount(q, longer) >= MissedCount(p, longer)
    /\ \A cases \in 0..1, ragas \in {"runs", "missing", "raises"}, present, below \in SUBSET Metrics :
           LET gate == Gate(cases, ragas, present, below)
           IN  /\ gate.status = "failed" <=> gate.failed # {}
               /\ gate.status = "passed" => cases > 0 /\ ragas = "runs" /\ present \cap below = {}
=============================================================================

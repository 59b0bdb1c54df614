------------------------------ MODULE Feedback ------------------------------
(***************************************************************************)
(* Votes on the messages of one thread and their cached statistics         *)
(* (chat_service/routes/feedback.py, services/feedback.py, migration       *)
(* 005_feedback_table.sql).  store_feedback looks for the user's row and   *)
(* then writes, in one READ COMMITTED transaction; the statistics of a     *)
(* message, the thread or the tenant go through a Redis cache with a time  *)
(* to live.  Each await is a step, and each may fail.                      *)
(***************************************************************************)
EXTENDS Naturals, FiniteSets

CONSTANTS
    Votes,      \* POST /v1/feedback requests; also the ids of the rows they insert
    Voters,     \* users
    Known,      \* users whose user_id an auth middleware sets (no middleware here does)
    Messages,   \* messages of the thread
    Reads,      \* GET /v1/feedback/stats requests
    Nobody      \* no row, no reader

AllMessages == "all"

ASSUME FeedbackAssumption ==
    /\ Known \subseteq Voters
    /\ Nobody \notin Votes \cup Reads
    /\ {AllMessages, "thread", "tenant"} \cap Messages = {}

VARIABLES
    ballot,    \* user and message of each vote
    wanted,    \* feedback_type of each vote
    rows,      \* committed rows of feedback
    step,      \* where each vote is
    existing,  \* id of the row each vote found
    clash,     \* votes that overlapped another vote of their user on their message
    scope,     \* parameters of each read
    read,      \* where each read is
    count,     \* what each read counted
    cache,     \* Redis: entry of each key
    raced,     \* reads that overlapped the writing part of a vote on their message
    lost       \* messages of which an invalidation failed, or never came

voteVars     == <<ballot, wanted, rows, step, existing, clash>>
readVars     == <<scope, read, count>>
feedbackVars == <<voteVars, readVars, cache, raced, lost>>

Types == {"thumbs_up", "thumbs_down"}

Ballots == Voters \X Messages

\* The parameters: whether thread_id is given, and message_id if it is.
Scopes == [thread : BOOLEAN, message : Messages \cup {AllMessages}]

CacheKeys == Messages \cup {"thread", "tenant"}

(***************************************************************************)
(* _build_cache_key: without a thread_id the key is that of the tenant,    *)
(* also when a message_id is given.                                        *)
(***************************************************************************)
Key(s) ==
    CASE s.thread /\ s.message # AllMessages -> s.message
      [] s.thread /\ s.message = AllMessages -> "thread"
      [] OTHER                       -> "tenant"

NoEntry == [by |-> Nobody, up |-> 0, down |-> 0]

FeedbackInit ==
    /\ ballot \in [Votes -> Ballots]
    /\ wanted \in [Votes -> Types \cup {"other"}]
    /\ rows = {}
    /\ step = [v \in Votes |-> "new"]
    /\ existing = [v \in Votes |-> Nobody]
    /\ clash = {}
    /\ scope \in [Reads -> Scopes]
    /\ read = [r \in Reads |-> "new"]
    /\ count = [r \in Reads |-> NoEntry]
    /\ cache = [k \in CacheKeys |-> NoEntry]
    /\ raced = {}
    /\ lost = {}

Row(v) == [id |-> v, ballot |-> ballot[v], type |-> wanted[v]]

RowsOf(b) == {w \in rows : w.ballot = b}

(***************************************************************************)
(* The request is refused (400) for an unknown type, fails (500) without a *)
(* user id that is a UUID, and otherwise looks for the user's row: the     *)
(* same type is to be toggled off, another one updated, none inserted.     *)
(***************************************************************************)
Looked  == {"toggle", "update", "insert"}
Locking == {"toggling", "updating", "inserting", "invalidated"}
Writing == Locking \cup {"committed"}

Rivals(v) == {w \in Votes \ {v} : ballot[w] = ballot[v] /\ step[w] \in Looked \cup Writing}

Refused(v) ==
    /\ step[v] = "new"
    /\ wanted[v] \notin Types \/ ballot[v][1] \notin Known
    /\ step' = [step EXCEPT ![v] = "failed"]
    /\ UNCHANGED <<ballot, wanted, rows, existing, clash, readVars, cache, raced, lost>>

Look(v) ==
    /\ step[v] = "new"
    /\ wanted[v] \in Types /\ ballot[v][1] \in Known
    /\ clash' = IF Rivals(v) = {} THEN clash ELSE clash \cup Rivals(v) \cup {v}
    /\ \/ /\ RowsOf(ballot[v]) = {}
          /\ step' = [step EXCEPT ![v] = "insert"]
          /\ UNCHANGED existing
       \/ \E w \in RowsOf(ballot[v]) :
            /\ step' = [step EXCEPT ![v] = IF w.type = wanted[v] THEN "toggle" ELSE "update"]
            /\ existing' = [existing EXCEPT ![v] = w.id]
    /\ UNCHANGED <<ballot, wanted, rows, readVars, cache, raced, lost>>

(***************************************************************************)
(* DELETE, UPDATE or INSERT.  Each waits for an uncommitted write of       *)
(* another vote to the same row or key; an INSERT then fails if the key is *)
(* taken (idx_feedback_unique), the others affect no row if it is gone.    *)
(***************************************************************************)
\* Mutant: the table has no unique index.
KeyFree_Always(v) == TRUE

KeyFree(v) == RowsOf(ballot[v]) = {}

\* Reads of a message that have missed and not cached yet.
UnderWay(m) ==
    {r \in Reads : scope[r].message = m /\ read[r] \in {"miss", "counted"}}

Write(v) ==
    /\ step[v] \in Looked
    /\ \A w \in Rivals(v) : step[w] \notin Locking
    /\ step' = [step EXCEPT ![v] =
                  CASE @ = "toggle" -> "toggling"
                    [] @ = "update" -> "updating"
                    [] OTHER        -> IF KeyFree(v) THEN "inserting" ELSE "failed"]
    /\ raced' = raced \cup UnderWay(ballot[v][2])
    /\ UNCHANGED <<ballot, wanted, rows, existing, clash, readVars, cache, lost>>

\* A database error: the transaction is rolled back, and the answer is 500.
RollBack(v) ==
    /\ step[v] \in {"new"} \cup Looked \cup Locking
    /\ step' = [step EXCEPT ![v] = "failed"]
    /\ UNCHANGED <<ballot, wanted, rows, existing, clash, readVars, cache, raced, lost>>

(***************************************************************************)
(* _invalidate_feedback_cache deletes the entry of the message alone; a    *)
(* Redis error is logged.  Toggling off does it before the transaction     *)
(* commits, the other writes afterwards.                                   *)
(***************************************************************************)
\* Mutant: the key is built without the thread.
InvalidatedKey_Tenant(m) == Key([thread |-> FALSE, message |-> m])

InvalidatedKey(m) == Key([thread |-> TRUE, message |-> m])

Invalidate(v) ==
    /\ step[v] \in {"toggling", "committed"}
    /\ step' = [step EXCEPT ![v] = IF @ = "toggling" THEN "invalidated" ELSE "on"]
    /\ \/ cache' = [cache EXCEPT ![InvalidatedKey(ballot[v][2])] = NoEntry] /\ UNCHANGED lost
       \/ lost' = lost \cup {ballot[v][2]} /\ UNCHANGED cache
    /\ UNCHANGED <<ballot, wanted, rows, existing, clash, readVars, raced>>

\* Mutant: an update inserts a second row instead of changing the one found.
AfterUpdate_Insert(v) == rows \cup {Row(v)}

AfterUpdate(v) ==
    {IF w.id = existing[v] THEN [w EXCEPT !.type = wanted[v]] ELSE w : w \in rows}

\* The transaction commits; if its answer is lost the request fails (500) all the same,
\* and no invalidation follows it.
Commit(v) ==
    /\ \/ /\ step[v] = "invalidated"
          /\ rows' = {w \in rows : w.id # existing[v]}
       \/ step[v] = "updating" /\ rows' = AfterUpdate(v)
       \/ step[v] = "inserting" /\ rows' = rows \cup {Row(v)}
    /\ \/ /\ step' = [step EXCEPT ![v] = IF @ = "invalidated" THEN "off" ELSE "committed"]
          /\ UNCHANGED lost
       \/ /\ step' = [step EXCEPT ![v] = "failed"]
          /\ lost' = IF step[v] = "invalidated" THEN lost ELSE lost \cup {ballot[v][2]}
    /\ raced' = raced \cup UnderWay(ballot[v][2])
    /\ UNCHANGED <<ballot, wanted, existing, clash, readVars, cache>>

(***************************************************************************)
(* get_feedback_stats: a cached entry is returned; otherwise the committed *)
(* rows of the parameters are counted, and the counts are cached.  An      *)
(* error of Redis or of the database fails the request (500).              *)
(***************************************************************************)
Cast(m, type) == {w \in rows : w.type = type /\ m \in {w.ballot[2], AllMessages}}

Tally(m, type) == Cardinality(Cast(m, type))

Counted(r) ==
    [by |-> r, up   |-> Tally(scope[r].message, "thumbs_up"),
               down |-> Tally(scope[r].message, "thumbs_down")]

StartRead(r) ==
    /\ read[r] = "new"
    /\ \/ read' = [read EXCEPT ![r] = IF cache[Key(scope[r])] # NoEntry THEN "done" ELSE "miss"]
       \/ read' = [read EXCEPT ![r] = "failed"]
    /\ raced' = IF \E v \in Votes : step[v] \in Writing /\ ballot[v][2] = scope[r].message
                THEN raced \cup {r} ELSE raced
    /\ UNCHANGED <<voteVars, scope, count, cache, lost>>

CountRows(r) ==
    /\ read[r] = "miss"
    /\ \/ /\ read' = [read EXCEPT ![r] = "counted"]
          /\ count' = [count EXCEPT ![r] = Counted(r)]
       \/ read' = [read EXCEPT ![r] = "failed"] /\ UNCHANGED count
    /\ UNCHANGED <<voteVars, scope, cache, raced, lost>>

CacheStats(r) ==
    /\ read[r] = "counted"
    /\ \/ /\ read' = [read EXCEPT ![r] = "done"]
          /\ cache' = [cache EXCEPT ![Key(scope[r])] = count[r]]
       \/ read' = [read EXCEPT ![r] = "failed"] /\ UNCHANGED cache
    /\ UNCHANGED <<voteVars, scope, count, raced, lost>>

\* Mutant: SET without a time to live.
Expires_Never(k) == FALSE

Expires(k) == cache[k] # NoEntry

Expire(k) ==
    /\ Expires(k)
    /\ cache' = [cache EXCEPT ![k] = NoEntry]
    /\ UNCHANGED <<voteVars, readVars, raced, lost>>

\* get_feedback_state: the type of the user's row, if there is one.
TypeOf(b) == {w.type : w \in RowsOf(b)}

\* get_thread_history adds the state for a user the middleware has named.
Shown(b) == IF b[1] \in Known THEN TypeOf(b) ELSE {}

Vote(v) == Refused(v) \/ Look(v) \/ Write(v) \/ Invalidate(v) \/ Commit(v) \/ RollBack(v)

Stats(r) == StartRead(r) \/ CountRows(r) \/ CacheStats(r)

FeedbackNext ==
    \/ \E v \in Votes : Vote(v)
    \/ \E r \in Reads : Stats(r)
    \/ \E k \in CacheKeys : Expire(k)

\* Handlers run on, and Redis drops an entry when its 60 seconds are over.
FeedbackFairness ==
    /\ \A v \in Votes : WF_feedbackVars(Vote(v))
    /\ \A r \in Reads : WF_feedbackVars(Stats(r))
    /\ \A k \in CacheKeys : WF_feedbackVars(Expire(k))

FeedbackSpec == FeedbackInit /\ [][FeedbackNext]_feedbackVars /\ FeedbackFairness

-----------------------------------------------------------------------------
Rows == [id : Votes, ballot : Ballots, type : Types]

Entries == [by : Reads \cup {Nobody}, up : Nat, down : Nat]

(***************************************************************************)
(* Types; and a user has one row of a message at most, whatever requests   *)
(* overlap between looking for it and inserting it.                        *)
(***************************************************************************)
FeedbackInv ==
    /\ ballot \in [Votes -> Ballots]
    /\ wanted \in [Votes -> Types \cup {"other"}]
    /\ rows \subseteq Rows
    /\ step \in [Votes -> {"new", "failed", "on", "off"} \cup Looked \cup Writing]
    /\ existing \in [Votes -> Votes \cup {Nobody}]
    /\ clash \subseteq Votes
    /\ scope \in [Reads -> Scopes]
    /\ read \in [Reads -> {"new", "miss", "counted", "done", "failed"}]
    /\ count \in [Reads -> Entries]
    /\ cache \in [CacheKeys -> Entries]
    /\ raced \subseteq Reads
    /\ lost \subseteq Messages
    /\ \A w, x \in rows : w.ballot = x.ballot => w = x

Toggled(b, type) == IF Shown(b) = {type} THEN {} ELSE {type}

(***************************************************************************)
(* A vote that no other vote of its user on its message overlaps does what *)
(* the docstring of store_feedback says when it commits, and replies with  *)
(* the state it leaves, unless that commit's answer is lost: the same type *)
(* again removes the vote, the other one replaces it; the history of the   *)
(* thread shows that user the new state of that message, and the old one   *)
(* of every other, and any other user what they saw.                       *)
(***************************************************************************)
SoleVoteToggles ==
    [][\A v \in Votes : Commit(v) /\ v \notin clash =>
           /\ Shown(ballot[v])' = Toggled(ballot[v], wanted[v])
           /\ step'[v] # "failed" => (step'[v] = "off" <=> Shown(ballot[v])' = {})
           /\ \A b \in Ballots \ {ballot[v]} : Shown(b)' = Shown(b)]_feedbackVars

(***************************************************************************)
(* What is cached under the key of a message are its votes in the table,   *)
(* but between a commit and its invalidation, after an invalidation was    *)
(* lost, or if the read that cached it overlapped the writing part of one. *)
(* The keys of the thread and of the tenant are never invalidated; under   *)
(* the latter a request for a message without its thread also leaves, and  *)
(* finds, other counts.                                                    *)
(***************************************************************************)
StaleIsExcused ==
    \A m \in Messages :
        \/ cache[m] = NoEntry
        \/ cache[m].up = Tally(m, "thumbs_up") /\ cache[m].down = Tally(m, "thumbs_down")
        \/ m \in lost
        \/ cache[m].by \in raced
        \/ \E v \in Votes : step[v] = "committed" /\ ballot[v][2] = m

\* A user's one row of a message, and the cached statistics of each.
FeedbackIsTrue == FeedbackInv /\ StaleIsExcused

Fresh(k) == cache[k] = NoEntry \/ cache[k] = Counted(cache[k].by)

(***************************************************************************)
(* Once the votes stop, what is cached under each key settles on the table *)
(* as the request that cached it counts, although nothing ever invalidates *)
(* the keys of the thread and the tenant.                                  *)
(***************************************************************************)
StatsSettle == \A k \in CacheKeys : <>[]Fresh(k)
=============================================================================

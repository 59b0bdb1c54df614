---------------------------- MODULE ThreadTurns ----------------------------
(***************************************************************************)
(* What the chat endpoints promise of the turns of a conversation          *)
(* (abstract): a turn waits, works and is over; it begins to work only     *)
(* when every other turn at work on its conversation has lost its client   *)
(* or its time; and it is charged once at most, for what it spent at work, *)
(* when it is over or its client has left it.  Locks, queues, streams and  *)
(* processes are not visible here.                                         *)
(***************************************************************************)
EXTENDS Naturals

CONSTANTS Turns, Conversations

VARIABLES
    conversation,  \* of each turn
    phase,         \* of each turn: waiting, working or over
    left,          \* turns whose client has left
    late,          \* turns whose time has run out
    spent,         \* turns that reported what they used
    charges        \* of each turn

turnVars == <<conversation, phase, left, late, spent, charges>>

TurnsInit ==
    /\ conversation \in [Turns -> Conversations]
    /\ phase = [r \in Turns |-> "waiting"]
    /\ left = {}
    /\ late = {}
    /\ spent = {}
    /\ charges = [r \in Turns |-> 0]

Rivals(r) ==
    {q \in Turns \ {r} : phase[q] = "working" /\ conversation[q] = conversation[r]}

Begin(r) ==
    /\ phase[r] = "waiting"
    /\ r \notin left
    /\ Rivals(r) \subseteq left \cup late
    /\ phase' = [phase EXCEPT ![r] = "working"]
    /\ UNCHANGED <<conversation, left, late, spent, charges>>

\* A turn that reports its usage is at work.
Spend(r) ==
    /\ phase[r] = "working"
    /\ spent' = spent \cup {r}
    /\ UNCHANGED <<conversation, phase, left, late, charges>>

\* Turns end one by one, refused or finished, or several when a process dies.
End(S) ==
    /\ phase' = [r \in Turns |-> IF r \in S THEN "over" ELSE phase[r]]
    /\ UNCHANGED <<conversation, left, late, spent, charges>>

\* A turn that waits is over when its client leaves; one at work goes on.
Leave(r) ==
    /\ left' = left \cup {r}
    /\ phase' = [phase EXCEPT ![r] = IF @ = "waiting" THEN "over" ELSE @]
    /\ UNCHANGED <<conversation, late, spent, charges>>

\* Time runs out for turns that have begun, or that left on the way.
Overrun(r) ==
    /\ phase[r] # "waiting"
    /\ late' = late \cup {r}
    /\ UNCHANGED <<conversation, phase, left, spent, charges>>

Charge(r) ==
    /\ r \in spent
    /\ charges[r] = 0
    /\ phase[r] = "over" \/ r \in left
    /\ charges' = [charges EXCEPT ![r] = 1]
    /\ UNCHANGED <<conversation, phase, left, late, spent>>

TurnsNext ==
    \/ \E r \in Turns : Begin(r) \/ Spend(r) \/ Leave(r) \/ Overrun(r) \/ Charge(r)
    \/ \E S \in SUBSET Turns : End(S)

TurnsSpec == TurnsInit /\ [][TurnsNext]_turnVars
=============================================================================

---------------------------- MODULE SessionLife ----------------------------
(***************************************************************************)
(* What the desk promises of a call for a human (abstract): it waits until *)
(* it is handled, once; only an admin who asked for it while it waited is  *)
(* given it; and it ends in one ticket at most.  Which statement of which  *)
(* handler does what, and what a poller that dies leaves behind, is not    *)
(* visible here.                                                           *)
(***************************************************************************)
CONSTANTS Calls, Helpers

VARIABLES
    stage,     \* of each call: none, pending or handled
    asking,    \* who asked for which call and has no answer yet
    granted,   \* who was given which call
    ticketed   \* calls for which a ticket was opened

life == <<stage, asking, granted, ticketed>>

LifeInit ==
    /\ stage = [c \in Calls |-> "none"]
    /\ asking = {}
    /\ granted = {}
    /\ ticketed = {}

Raise(c) ==
    /\ stage[c] = "none"
    /\ stage' = [stage EXCEPT ![c] = "pending"]
    /\ UNCHANGED <<asking, granted, ticketed>>

\* A helper asks for one call at a time, and is refused once it is handled.
Ask(h, c) ==
    /\ stage[c] = "pending"
    /\ \A d \in Calls : <<h, d>> \notin asking
    /\ asking' = asking \cup {<<h, c>>}
    /\ UNCHANGED <<stage, granted, ticketed>>

\* Those who asked in time are all given the call, in any order.
Grant(h, c) ==
    /\ <<h, c>> \in asking
    /\ asking' = asking \ {<<h, c>>}
    /\ granted' = granted \cup {<<h, c>>}
    /\ stage' = [stage EXCEPT ![c] = "handled"]
    /\ UNCHANGED ticketed

\* The desk may not yet have noticed that somebody was given the call.
Ticket(c) ==
    /\ stage[c] # "none"
    /\ c \notin ticketed
    /\ ticketed' = ticketed \cup {c}
    /\ stage' = [stage EXCEPT ![c] = "handled"]
    /\ UNCHANGED <<asking, granted>>

LifeNext ==
    \E c \in Calls :
        \/ Raise(c)
        \/ Ticket(c)
        \/ \E h \in Helpers : Ask(h, c) \/ Grant(h, c)

LifeSpec == LifeInit /\ [][LifeNext]_life
=============================================================================

---------------------------- MODULE UsageLedger ----------------------------
(***************************************************************************)
(* What the billing of answers promises (abstract): every answer is        *)
(* charged at most once, to its own tenant, and what a tenant has been     *)
(* charged is never lost.                                                  *)
(***************************************************************************)
EXTENDS Naturals

CONSTANTS Answers, Accounts

VARIABLES
    owner,     \* tenant of each answer
    charged,   \* answers that have been charged
    total      \* messages charged to each tenant

ledger == <<owner, charged, total>>

LedgerInit ==
    /\ owner \in [Answers -> Accounts]
    /\ charged = {}
    /\ total = [t \in Accounts |-> 0]

Charge(a) ==
    /\ a \notin charged
    /\ charged' = charged \cup {a}
    /\ total' = [total EXCEPT ![owner[a]] = @ + 1]
    /\ UNCHANGED owner

LedgerNext == \E a \in Answers : Charge(a)

LedgerSpec == LedgerInit /\ [][LedgerNext]_ledger
=============================================================================

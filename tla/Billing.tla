------------------------------ MODULE Billing ------------------------------
(***************************************************************************)
(* Plans, accounts and metered usage of tenants (shared/billing.py,        *)
(* admin_service/routes/billing.py, alembic revision 007), as the chat     *)
(* endpoint uses them: check_limit before an answer, record_usage after    *)
(* it.  Each SQL statement is a step of its own: the statements of         *)
(* get_or_create_account are autocommitted, and the transaction of         *)
(* check_limit only reads, at READ COMMITTED.                              *)
(***************************************************************************)
EXTENDS Integers, Sequences, Ranks

CONSTANTS
    Chats,       \* chat requests
    Tenants,
    PlanIds,     \* ids of billing_plans rows, the migration's Free plan being 1
    FreeLimit,   \* message limit of the Free plan
    Limits,      \* message limits an admin may set
    MaxPeriod    \* bound on the months that pass

NoPlan == 0

PlanNames == {"Free", "Pro"}

ASSUME BillingAssumption ==
    /\ PlanIds \subseteq Nat \ {0}
    /\ 1 \in PlanIds
    /\ FreeLimit \in Nat
    /\ Limits \subseteq Int
    /\ MaxPeriod \in Nat \ {0}

VARIABLES
    tenant,      \* tenant of each chat
    plans,       \* billing_plans: id -> row, NoRow for a later one, or Deleted
    accounts,    \* billing_accounts: the rows of each tenant
    suspended,   \* tenants whose rows an operator has suspended
    usage,       \* usage_records.messages_used by tenant and period
    month,       \* datetime.now().strftime("%Y-%m")
    chat,        \* where each chat is in check_limit / record_usage
    plan,        \* account.plan_id as each chat read it
    seen,        \* current_usage as each chat read it
    slot,        \* period each chat computed
    late         \* chats that looked for their account after a suspension

chatVars    == <<tenant, chat, plan, seen, slot, late>>
billingVars == <<plans, accounts, suspended, usage, month, chatVars>>

NoRow == [name |-> "none", message_limit |-> 0]

Deleted == [name |-> "deleted", message_limit |-> 0]

PlanRow(name, limit) == [name |-> name, message_limit |-> limit]

Account(id, status) == [plan |-> id, status |-> status]

\* Revision 007 creates the plans and inserts the defaults.
BillingInit ==
    /\ tenant \in [Chats -> Tenants]
    /\ plans = [i \in PlanIds |-> IF i = 1 THEN PlanRow("Free", FreeLimit) ELSE NoRow]
    /\ accounts = [t \in Tenants |-> <<>>]
    /\ suspended = {}
    /\ usage = [t \in Tenants |-> [m \in 1..MaxPeriod |-> 0]]
    /\ month = 1
    /\ chat = [c \in Chats |-> "new"]
    /\ plan = [c \in Chats |-> NoPlan]
    /\ seen = [c \in Chats |-> 0]
    /\ slot = [c \in Chats |-> 1]
    /\ late = {}

(***************************************************************************)
(* get_or_create_account: any row of the tenant, for the table has no      *)
(* unique tenant_id; without one, the id of the Free plan is read and a    *)
(* row is inserted, each in a statement of its own.                        *)
(***************************************************************************)
\* Mutant: the status of the account is not looked at.
Admits_AnyStatus(row) == TRUE

Admits(row) == row.status = "active"

FindAccount(c) ==
    /\ chat[c] = "new"
    /\ late' = IF tenant[c] \in suspended THEN late \cup {c} ELSE late
    /\ \/ /\ accounts[tenant[c]] = <<>>
          /\ chat' = [chat EXCEPT ![c] = "missing"]
          /\ UNCHANGED <<plan, slot>>
       \/ \E n \in DOMAIN accounts[tenant[c]] :
            LET row == accounts[tenant[c]][n]
            IN  /\ chat' = [chat EXCEPT ![c] = IF Admits(row) THEN "usage" ELSE "refused"]
                /\ plan' = [plan EXCEPT ![c] = row.plan]
                /\ slot' = [slot EXCEPT ![c] = month]
    /\ UNCHANGED <<plans, accounts, suspended, usage, month, tenant, seen>>

FreePlan == {i \in PlanIds : plans[i].name = "Free"}

ReadFreePlan(c) ==
    /\ chat[c] = "missing"
    /\ chat' = [chat EXCEPT ![c] = "insert"]
    /\ plan' = [plan EXCEPT ![c] = IF FreePlan = {} THEN NoPlan ELSE CHOOSE i \in FreePlan : TRUE]
    /\ UNCHANGED <<plans, accounts, suspended, usage, month, tenant, seen, slot, late>>

PlanExists(id) == plans[id] \notin {NoRow, Deleted}

\* The foreign key plan_id REFERENCES billing_plans(id).
References(id) == id # NoPlan => PlanExists(id)

InsertAccount(c) ==
    /\ chat[c] = "insert"
    /\ \/ /\ References(plan[c])
          /\ accounts' = [accounts EXCEPT ![tenant[c]] = Append(@, Account(plan[c], "active"))]
          /\ chat' = [chat EXCEPT ![c] = "usage"]
          /\ slot' = [slot EXCEPT ![c] = month]
       \/ /\ ~References(plan[c])
          /\ chat' = [chat EXCEPT ![c] = "failed"]
          /\ UNCHANGED <<accounts, slot>>
    /\ UNCHANGED <<plans, suspended, usage, month, tenant, plan, seen, late>>

(***************************************************************************)
(* check_limit(tenant, "messages", 1): the limit is looked up under        *)
(* resource + "_limit", and the columns of a plan are message_limit and    *)
(* token_limit, so that plan.get answers its default, -1.                  *)
(***************************************************************************)
ReadUsage(c) ==
    /\ chat[c] = "usage"
    /\ chat' = [chat EXCEPT ![c] = "plan"]
    /\ seen' = [seen EXCEPT ![c] = usage[tenant[c]][slot[c]]]
    /\ UNCHANGED <<plans, accounts, suspended, usage, month, tenant, plan, slot, late>>

LimitKey(resource) == [messages |-> "messages_limit", tokens |-> "tokens_limit"][resource]

Limit(row, resource) ==
    IF LimitKey(resource) \in DOMAIN row THEN row[LimitKey(resource)] ELSE -1

Within(used, amount, limit) == limit = -1 \/ used + amount <= limit

Decide(c) ==
    /\ chat[c] = "plan"
    /\ LET allowed == plan[c] # NoPlan /\ PlanExists(plan[c]) =>
                          Within(seen[c], 1, Limit(plans[plan[c]], "messages"))
       IN  chat' = [chat EXCEPT ![c] = IF allowed THEN "admitted" ELSE "refused"]
    /\ UNCHANGED <<plans, accounts, suspended, usage, month, tenant, plan, seen, slot, late>>

(***************************************************************************)
(* The answer ends: one without tokens is not recorded; otherwise the      *)
(* period is computed and the row of that period is upserted, unless the   *)
(* database fails, which is only logged.                                   *)
(***************************************************************************)
EndAnswer(c) ==
    /\ chat[c] = "admitted"
    /\ \/ /\ chat' = [chat EXCEPT ![c] = "record"]
          /\ slot' = [slot EXCEPT ![c] = month]
       \/ /\ chat' = [chat EXCEPT ![c] = "unbilled"]
          /\ UNCHANGED slot
    /\ UNCHANGED <<plans, accounts, suspended, usage, month, tenant, plan, seen, late>>

\* Mutant: the new value is computed from what check_limit read.
Upserted_Stale(c) == seen[c] + 1

Upserted(c) == usage[tenant[c]][slot[c]] + 1

RecordUsage(c) ==
    /\ chat[c] = "record"
    /\ \/ /\ usage' = [usage EXCEPT ![tenant[c]][slot[c]] = Upserted(c)]
          /\ chat' = [chat EXCEPT ![c] = "recorded"]
       \/ /\ chat' = [chat EXCEPT ![c] = "unbilled"]
          /\ UNCHANGED usage
    /\ UNCHANGED <<plans, accounts, suspended, month, tenant, plan, seen, slot, late>>

-----------------------------------------------------------------------------
(***************************************************************************)
(* The admin API on plans.  A plan needs features: None is refused by the  *)
(* NOT NULL of the column, which is also why /plans/seed can only fail or  *)
(* find every default present.                                             *)
(***************************************************************************)
NameFree(name, id) == \A i \in PlanIds \ {id} : plans[i].name # name

Others == <<accounts, suspended, usage, month, chatVars>>

CreatePlan(id, name, limit) ==
    /\ plans[id] = NoRow
    /\ NameFree(name, id)
    /\ plans' = [plans EXCEPT ![id] = PlanRow(name, limit)]
    /\ UNCHANGED Others

UpdatePlan(id, name, limit) ==
    /\ PlanExists(id)
    /\ NameFree(name, id)
    /\ plans' = [plans EXCEPT ![id] = PlanRow(name, limit)]
    /\ UNCHANGED Others

\* Mutant: accounts do not keep a plan from being deleted.
Deletable_Any(id) == TRUE

Deletable(id) == \A t \in Tenants : \A n \in DOMAIN accounts[t] : accounts[t][n].plan # id

DeletePlan(id) ==
    /\ PlanExists(id)
    /\ Deletable(id)
    /\ plans' = [plans EXCEPT ![id] = Deleted]
    /\ UNCHANGED Others

\* An operator suspends a tenant: UPDATE ... WHERE tenant_id (no code does).
Suspend(t) ==
    /\ accounts[t] # <<>>
    /\ t \notin suspended
    /\ suspended' = suspended \cup {t}
    /\ accounts' = [accounts EXCEPT ![t] =
                        [n \in DOMAIN @ |-> [@[n] EXCEPT !.status = "suspended"]]]
    /\ UNCHANGED <<plans, usage, month, chatVars>>

NextMonth ==
    /\ month < MaxPeriod
    /\ month' = month + 1
    /\ UNCHANGED <<plans, accounts, suspended, usage, chatVars>>

ChatStep(c) ==
    \/ FindAccount(c) \/ ReadFreePlan(c) \/ InsertAccount(c)
    \/ ReadUsage(c) \/ Decide(c) \/ EndAnswer(c) \/ RecordUsage(c)

BillingNext ==
    \/ \E c \in Chats : ChatStep(c)
    \/ \E id \in PlanIds, name \in PlanNames, limit \in Limits :
         CreatePlan(id, name, limit) \/ UpdatePlan(id, name, limit)
    \/ \E id \in PlanIds : DeletePlan(id)
    \/ \E t \in Tenants : Suspend(t)
    \/ NextMonth

BillingSpec == BillingInit /\ [][BillingNext]_billingVars

-----------------------------------------------------------------------------
AccountRows == [plan : PlanIds \cup {NoPlan}, status : {"active", "suspended"}]

\* Every variable holds what the code and the schema allow.
BillingTypeOK ==
    /\ tenant \in [Chats -> Tenants]
    /\ plans \in [PlanIds -> [name : PlanNames \cup {"none", "deleted"}, message_limit : Int]]
    /\ accounts \in [Tenants -> Seq(AccountRows)]
    /\ suspended \subseteq Tenants
    /\ usage \in [Tenants -> [1..MaxPeriod -> Nat]]
    /\ month \in 1..MaxPeriod
    /\ chat \in [Chats -> {"new", "missing", "insert", "usage", "plan", "refused", "failed",
                           "admitted", "record", "unbilled", "recorded"}]
    /\ plan \in [Chats -> PlanIds \cup {NoPlan}]
    /\ seen \in [Chats -> Nat]
    /\ slot \in [Chats -> 1..MaxPeriod]
    /\ late \subseteq Chats

(***************************************************************************)
(* The plan of every account row exists, although get_or_create_account    *)
(* reads the Free plan, and an admin may delete it, before the insert.     *)
(***************************************************************************)
AccountPlanExists ==
    \A t \in Tenants : \A n \in DOMAIN accounts[t] : References(accounts[t][n].plan)

Answering == {"admitted", "record", "unbilled", "recorded"}

(***************************************************************************)
(* A tenant that was suspended when a chat looked for its account gets no  *)
(* answer, unless racing first requests had left it with a second row.     *)
(***************************************************************************)
SuspendedIsRefused ==
    \A c \in late : chat[c] \in Answering => Len(accounts[tenant[c]]) > 1

\* Types, and the two of them.
BillingInv == BillingTypeOK /\ AccountPlanExists /\ SuspendedIsRefused

(***************************************************************************)
(* The promise of check_limit's docstring: a chat is admitted only within  *)
(* the message limit of its plan, by the usage it read.                    *)
(***************************************************************************)
LimitIsEnforced ==
    \A c \in Chats :
        chat[c] = "admitted" /\ plan[c] # NoPlan =>
            Within(seen[c], 1, plans[plan[c]].message_limit)

Charged == {c \in Chats : chat[c] = "recorded"}

TotalUsage == [t \in Tenants |-> RunningSum(usage[t])[MaxPeriod]]

Ledger == INSTANCE UsageLedger WITH
    Answers <- Chats, Accounts <- Tenants,
    owner <- tenant, charged <- Charged, total <- TotalUsage

(***************************************************************************)
(* The usage of the periods together is the abstract ledger: concurrent    *)
(* answers, a month that ends in between and failed writes included.       *)
(***************************************************************************)
LedgerIsKept == Ledger!LedgerSpec
=============================================================================

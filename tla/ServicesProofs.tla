---------------------------- MODULE ServicesProofs ----------------------------
(***************************************************************************)
(* Proofs about the services of MCServices, component after component; the *)
(* last section puts them together.                                        *)
(***************************************************************************)
EXTENDS MCServices, ChunkingProofs, FiniteSetTheorems, SequenceTheorems, TLAPS

-----------------------------------------------------------------------------
(***************************************************************************)
(* Billing, for any number of chats, tenants and plans, any limits and any *)
(* number of months.                                                       *)
(***************************************************************************)
\* A suspended tenant keeps a suspended row: rows are only ever added.
SuspendedShape ==
    \A t \in suspended : \E n \in DOMAIN accounts[t] : accounts[t][n].status = "suspended"

\* A late chat found the account ended, and went on only by an active one, a second row.
LateShape ==
    \A c \in late :
        /\ tenant[c] \in suspended
        /\ chat[c] \notin {"missing", "insert"}
        /\ chat[c] \in {"usage", "plan"} \cup Answering => Len(accounts[tenant[c]]) > 1

\* The inductive invariant.
BillingIInv == BillingTypeOK /\ AccountPlanExists /\ SuspendedShape /\ LateShape

\* It is stronger than what the runs check.
LEMMA LateIsEnough == BillingIInv => BillingInv
BY DEF BillingIInv, BillingInv, LateShape, SuspendedIsRefused

\* The first state has no suspended tenant and no late chat.
LEMMA BillingStarts == BillingInit => BillingIInv
BY BillingAssumption
   DEF BillingAssumption, BillingInit, BillingIInv, BillingTypeOK, AccountPlanExists,
       SuspendedShape, LateShape, NoRow, PlanRow, PlanNames, NoPlan

\* get_or_create_account finds a row: a late chat sees the suspended ones, too.
LEMMA FindKeepsInv ==
    ASSUME BillingIInv, NEW c \in Chats, FindAccount(c)
    PROVE  BillingIInv'
<1> USE DEF BillingIInv, FindAccount
<1>1. BillingTypeOK'
  <2>1. tenant[c] \in Tenants /\ accounts[tenant[c]] \in Seq(AccountRows)
    BY DEF BillingTypeOK
  <2>2. CASE chat' = [chat EXCEPT ![c] = "missing"] /\ UNCHANGED <<plan, slot>>
    BY <2>2 DEF BillingTypeOK
  <2>3. ASSUME NEW n \in DOMAIN accounts[tenant[c]],
               chat' = [chat EXCEPT ![c] =
                          IF Admits(accounts[tenant[c]][n]) THEN "usage" ELSE "refused"],
               plan' = [plan EXCEPT ![c] = accounts[tenant[c]][n].plan],
               slot' = [slot EXCEPT ![c] = month]
        PROVE  BillingTypeOK'
    <3>1. accounts[tenant[c]][n] \in AccountRows
      BY <2>1
    <3>2. accounts[tenant[c]][n].plan \in PlanIds \cup {NoPlan}
      BY <3>1 DEF AccountRows
    <3>3. QED
      BY <2>3, <3>2 DEF BillingTypeOK
  <2>4. QED
    BY <2>2, <2>3 DEF BillingTypeOK
<1>2. AccountPlanExists' /\ SuspendedShape'
  BY DEF AccountPlanExists, SuspendedShape, References, PlanExists
<1>3. LateShape'
  <2> SUFFICES ASSUME NEW d \in late'
               PROVE  /\ tenant[d] \in suspended
                      /\ chat'[d] \notin {"missing", "insert"}
                      /\ chat'[d] \in {"usage", "plan"} \cup Answering => Len(accounts[tenant[d]]) > 1
    BY DEF LateShape
  <2>1. CASE d # c
    BY <2>1 DEF LateShape, BillingTypeOK
  <2>2. CASE d = c
    <3>1. tenant[c] \in suspended
      BY <2>2 DEF LateShape
    <3>2. PICK n \in DOMAIN accounts[tenant[c]] : accounts[tenant[c]][n].status = "suspended"
      BY <3>1 DEF SuspendedShape
    <3>3. accounts[tenant[c]] \in Seq(AccountRows) /\ accounts[tenant[c]] # <<>>
      BY <3>2 DEF BillingTypeOK
    <3>4. PICK k \in DOMAIN accounts[tenant[c]] :
            chat' = [chat EXCEPT ![c] = IF Admits(accounts[tenant[c]][k]) THEN "usage" ELSE "refused"]
      BY <3>3
    <3>5. k # n => Len(accounts[tenant[c]]) > 1
      BY <3>3
    <3>6. Admits(accounts[tenant[c]][k]) => k # n
      BY <3>2 DEF Admits
    <3>7. QED
      BY <2>2, <3>1, <3>4, <3>5, <3>6 DEF BillingTypeOK, Answering
  <2>3. QED
    BY <2>1, <2>2
<1>4. QED
  BY <1>1, <1>2, <1>3

\* It inserts one, whose plan the foreign key has seen.
LEMMA InsertKeepsInv ==
    ASSUME BillingIInv, NEW c \in Chats, InsertAccount(c)
    PROVE  BillingIInv'
<1> USE DEF BillingIInv, InsertAccount
<1> DEFINE t == tenant[c]
           row == Account(plan[c], "active")
<1>1. t \in Tenants /\ accounts[t] \in Seq(AccountRows) /\ row \in AccountRows
  BY DEF BillingTypeOK, AccountRows, Account
<1>2. /\ Append(accounts[t], row) \in Seq(AccountRows)
      /\ Len(Append(accounts[t], row)) = Len(accounts[t]) + 1
      /\ \A n \in 1..Len(accounts[t]) : Append(accounts[t], row)[n] = accounts[t][n]
      /\ Append(accounts[t], row)[Len(accounts[t]) + 1] = row
  BY <1>1
<1>3. CASE /\ References(plan[c])
           /\ accounts' = [accounts EXCEPT ![t] = Append(@, row)]
           /\ chat' = [chat EXCEPT ![c] = "usage"]
           /\ slot' = [slot EXCEPT ![c] = month]
  <2> HIDE DEF row
  <2>1. BillingTypeOK'
    <3>1. accounts' \in [Tenants -> Seq(AccountRows)]
      BY <1>1, <1>2, <1>3 DEF BillingTypeOK
    <3>2. QED
      BY <1>3, <3>1 DEF BillingTypeOK
  <2>2. \A u \in Tenants : Len(accounts'[u]) >= Len(accounts[u])
                           /\ \A n \in DOMAIN accounts[u] : accounts'[u][n] = accounts[u][n]
    BY <1>1, <1>2, <1>3 DEF BillingTypeOK
  <2>3. AccountPlanExists'
    <3> SUFFICES ASSUME NEW u \in Tenants, NEW n \in DOMAIN accounts'[u]
                 PROVE  References(accounts'[u][n].plan)
      BY DEF AccountPlanExists, References, PlanExists
    <3>1. CASE u # t
      BY <1>3, <3>1 DEF AccountPlanExists, BillingTypeOK
    <3>2. CASE u = t /\ n = Len(accounts[t]) + 1
      BY <1>1, <1>2, <1>3, <3>2 DEF BillingTypeOK, row, Account
    <3>3. CASE u = t /\ n # Len(accounts[t]) + 1
      <4>1. accounts'[t] = Append(accounts[t], row) /\ accounts'[t] \in Seq(AccountRows)
        BY <1>1, <1>2, <1>3 DEF BillingTypeOK
      <4>2. n \in 1..(Len(accounts[t]) + 1)
        BY <1>2, <3>3, <4>1
      <4>3. n \in DOMAIN accounts[t] /\ accounts'[t][n] = accounts[t][n]
        BY <1>1, <1>2, <3>3, <4>1, <4>2
      <4>4. QED
        BY <1>1, <3>3, <4>3 DEF AccountPlanExists
    <3>4. QED
      BY <3>1, <3>2, <3>3
  <2>4. SuspendedShape'
    <3> SUFFICES ASSUME NEW u \in suspended
                 PROVE  \E n \in DOMAIN accounts'[u] : accounts'[u][n].status = "suspended"
      BY DEF SuspendedShape
    <3>1. u \in Tenants
      BY DEF BillingTypeOK
    <3>2. PICK n \in DOMAIN accounts[u] : accounts[u][n].status = "suspended"
      BY DEF SuspendedShape
    <3>3. n \in DOMAIN accounts'[u]
      BY <2>1, <2>2, <3>1, <3>2 DEF BillingTypeOK
    <3>4. QED
      BY <2>2, <3>1, <3>2, <3>3
  <2>5. LateShape'
    <3> SUFFICES ASSUME NEW d \in late
                 PROVE  /\ tenant[d] \in suspended
                        /\ chat'[d] \notin {"missing", "insert"}
                        /\ chat'[d] \in {"usage", "plan"} \cup Answering => Len(accounts'[tenant[d]]) > 1
      BY DEF LateShape
    <3>1. d # c /\ d \in Chats /\ tenant[d] \in Tenants
      BY DEF LateShape, BillingTypeOK
    <3>2. chat'[d] = chat[d]
      BY <1>3, <3>1 DEF BillingTypeOK
    <3>3. accounts[tenant[d]] \in Seq(AccountRows) /\ accounts'[tenant[d]] \in Seq(AccountRows)
      BY <2>1, <3>1 DEF BillingTypeOK
    <3>4. QED
      BY <2>2, <3>1, <3>2, <3>3 DEF LateShape
  <2>6. QED
    BY <2>1, <2>3, <2>4, <2>5
<1>4. CASE UNCHANGED <<accounts, slot>> /\ chat' = [chat EXCEPT ![c] = "failed"]
  BY <1>4 DEF BillingTypeOK, AccountPlanExists, SuspendedShape, LateShape, References, PlanExists, Answering
<1>5. QED
  BY <1>3, <1>4

\* The steps of a chat that leave plans and accounts alone.
LEMMA ChatKeepsInv ==
    ASSUME BillingIInv, NEW c \in Chats,
           ReadFreePlan(c) \/ ReadUsage(c) \/ Decide(c) \/ EndAnswer(c) \/ RecordUsage(c)
    PROVE  BillingIInv'
<1> USE DEF BillingIInv
<1>1. UNCHANGED <<plans, accounts, suspended, tenant, late>>
  BY DEF ReadFreePlan, ReadUsage, Decide, EndAnswer, RecordUsage
<1>2. AccountPlanExists' /\ SuspendedShape'
  BY <1>1 DEF AccountPlanExists, SuspendedShape, References, PlanExists
<1>3. LateShape'
  BY <1>1 DEF LateShape, BillingTypeOK, Answering,
              ReadFreePlan, ReadUsage, Decide, EndAnswer, RecordUsage
<1>4. CASE ReadFreePlan(c)
  <2>1. FreePlan # {} => (CHOOSE i \in FreePlan : TRUE) \in PlanIds
    BY DEF FreePlan
  <2>2. BillingTypeOK'
    BY <1>4, <2>1 DEF ReadFreePlan, BillingTypeOK
  <2>3. QED
    BY <1>2, <1>3, <2>2
<1>5. CASE RecordUsage(c)
  <2>1. usage \in [Tenants -> [1..MaxPeriod -> Nat]] /\ tenant[c] \in Tenants /\ slot[c] \in 1..MaxPeriod
    BY DEF BillingTypeOK
  <2>2. usage[tenant[c]] \in [1..MaxPeriod -> Nat]
    BY <2>1
  <2>3. usage[tenant[c]][slot[c]] \in Nat
    BY <2>1, <2>2
  <2>4. Upserted(c) \in Nat
    BY <2>3 DEF Upserted
  <2>5. [usage[tenant[c]] EXCEPT ![slot[c]] = Upserted(c)] \in [1..MaxPeriod -> Nat]
    BY <2>2, <2>4
  <2>6. usage' \in [Tenants -> [1..MaxPeriod -> Nat]]
    BY <1>5, <2>1, <2>5 DEF RecordUsage
  <2>7. BillingTypeOK'
    BY <1>5, <2>6 DEF RecordUsage, BillingTypeOK
  <2>8. QED
    BY <1>2, <1>3, <2>7
<1>6. CASE ReadUsage(c)
  BY <1>2, <1>3, <1>6 DEF ReadUsage, BillingTypeOK
<1>7. CASE Decide(c)
  BY <1>2, <1>3, <1>7 DEF Decide, BillingTypeOK
<1>8. CASE EndAnswer(c)
  BY <1>2, <1>3, <1>8 DEF EndAnswer, BillingTypeOK
<1>9. QED
  BY <1>4, <1>5, <1>6, <1>7, <1>8

\* Writing a plan keeps the ones that exist; the foreign key guards a deletion.
LEMMA PlansKeepInv ==
    ASSUME BillingIInv, NEW id \in PlanIds,
           \/ DeletePlan(id)
           \/ \E name \in PlanNames, limit \in Limits :
                CreatePlan(id, name, limit) \/ UpdatePlan(id, name, limit)
    PROVE  BillingIInv'
<1> USE BillingAssumption DEF BillingIInv, BillingAssumption
<1>1. UNCHANGED Others
  BY DEF DeletePlan, CreatePlan, UpdatePlan
<1>2. SuspendedShape' /\ LateShape'
  BY <1>1 DEF Others, chatVars, SuspendedShape, LateShape
<1>3. CASE DeletePlan(id)
  <2>1. BillingTypeOK'
    BY <1>1, <1>3 DEF DeletePlan, Deleted, Others, chatVars, BillingTypeOK
  <2>2. AccountPlanExists'
    BY <1>1, <1>3 DEF DeletePlan, Deletable, Others, AccountPlanExists,
                      References, PlanExists, BillingTypeOK
  <2>3. QED
    BY <1>2, <2>1, <2>2
<1>4. ASSUME NEW name \in PlanNames, NEW limit \in Limits,
             CreatePlan(id, name, limit) \/ UpdatePlan(id, name, limit)
      PROVE  BillingIInv'
  <2>1. plans' = [plans EXCEPT ![id] = PlanRow(name, limit)]
    BY <1>4 DEF CreatePlan, UpdatePlan
  <2>2. PlanRow(name, limit) \notin {NoRow, Deleted}
    BY DEF PlanRow, PlanNames, NoRow, Deleted
  <2>3. BillingTypeOK'
    BY <1>1, <2>1 DEF PlanRow, Others, chatVars, BillingTypeOK
  <2>4. AccountPlanExists'
    BY <1>1, <2>1, <2>2 DEF Others, AccountPlanExists, References, PlanExists, BillingTypeOK
  <2>5. QED
    BY <1>2, <2>3, <2>4
<1>5. QED
  BY <1>3, <1>4

\* A suspension changes the status of every row, and neither plans nor lengths.
LEMMA SuspendKeepsInv ==
    ASSUME BillingIInv, NEW t \in Tenants, Suspend(t)
    PROVE  BillingIInv'
<1> USE DEF BillingIInv
<1> DEFINE ended == [n \in DOMAIN accounts[t] |-> [accounts[t][n] EXCEPT !.status = "suspended"]]
<1>1. accounts[t] \in Seq(AccountRows) /\ accounts[t] # <<>>
  BY DEF BillingTypeOK, Suspend
<1>2. \A n \in DOMAIN accounts[t] : /\ ended[n] \in AccountRows
                                    /\ ended[n].plan = accounts[t][n].plan
                                    /\ ended[n].status = "suspended"
  <2> SUFFICES ASSUME NEW n \in DOMAIN accounts[t]
               PROVE  /\ ended[n] \in AccountRows
                      /\ ended[n].plan = accounts[t][n].plan
                      /\ ended[n].status = "suspended"
    OBVIOUS
  <2>1. accounts[t][n] \in AccountRows
    BY <1>1
  <2>2. ended[n] = [accounts[t][n] EXCEPT !.status = "suspended"]
    OBVIOUS
  <2>3. QED
    BY <2>1, <2>2 DEF AccountRows
<1>3. ended \in Seq(AccountRows) /\ Len(ended) = Len(accounts[t]) /\ DOMAIN ended = DOMAIN accounts[t]
  <2>1. DOMAIN ended = 1..Len(accounts[t]) /\ Len(accounts[t]) \in Nat
    BY <1>1
  <2>2. ended \in [1..Len(accounts[t]) -> AccountRows]
    BY <1>1, <1>2, <2>1
  <2>3. ended \in Seq(AccountRows)
    <3> HIDE DEF ended
    <3>1. ended \in UNION {[1..n -> AccountRows] : n \in Nat}
      BY <2>1, <2>2, Zenon
    <3>2. QED
      BY <3>1, SeqDef, Zenon
  <2>4. QED
    BY <1>1, <2>1, <2>2, <2>3, LenProperties
<1>4. accounts' = [accounts EXCEPT ![t] = ended] /\ suspended' = suspended \cup {t}
  BY DEF Suspend
<1>5. UNCHANGED <<plans, usage, month, chatVars>>
  BY DEF Suspend
<1> HIDE DEF ended
<1>6. BillingTypeOK'
  BY <1>3, <1>4, <1>5 DEF chatVars, BillingTypeOK
<1>7. AccountPlanExists'
  BY <1>2, <1>3, <1>4, <1>5 DEF AccountPlanExists, References, PlanExists, BillingTypeOK
<1>8. SuspendedShape'
  <2>1. 1 \in DOMAIN ended
    BY <1>1, <1>3
  <2>2. QED
    BY <1>2, <1>3, <1>4, <2>1 DEF SuspendedShape, BillingTypeOK
<1>9. LateShape'
  BY <1>3, <1>4, <1>5 DEF chatVars, LateShape, BillingTypeOK
<1>10. QED
  BY <1>6, <1>7, <1>8, <1>9

\* The month only names the period of the answers to come.
LEMMA MonthKeepsInv == BillingIInv /\ NextMonth => BillingIInv'
BY BillingAssumption
   DEF BillingAssumption, BillingIInv, NextMonth, chatVars, BillingTypeOK, AccountPlanExists,
       SuspendedShape, LateShape, References, PlanExists

\* Every step keeps the inductive invariant.
LEMMA NextKeepsInv == BillingIInv /\ [BillingNext]_billingVars => BillingIInv'
<1> SUFFICES ASSUME BillingIInv, [BillingNext]_billingVars
             PROVE  BillingIInv'
  OBVIOUS
<1>1. CASE \E c \in Chats : ChatStep(c)
  BY <1>1, FindKeepsInv, InsertKeepsInv, ChatKeepsInv DEF ChatStep
<1>2. CASE \/ \E id \in PlanIds, name \in PlanNames, limit \in Limits :
                CreatePlan(id, name, limit) \/ UpdatePlan(id, name, limit)
           \/ \E id \in PlanIds : DeletePlan(id)
  BY <1>2, PlansKeepInv
<1>3. CASE \E t \in Tenants : Suspend(t)
  BY <1>3, SuspendKeepsInv
<1>4. CASE NextMonth
  BY <1>4, MonthKeepsInv
<1>5. CASE UNCHANGED billingVars
  BY <1>5 DEF billingVars, chatVars, BillingIInv, BillingTypeOK, AccountPlanExists,
              SuspendedShape, LateShape, References, PlanExists
<1>6. QED
  BY <1>1, <1>2, <1>3, <1>4, <1>5 DEF BillingNext

(***************************************************************************)
(* The plan of every account row exists, and no chat that came after a     *)
(* suspension is answered unless a race had left a second row: for any     *)
(* number of concurrent chats, tenants, plans and months.                  *)
(***************************************************************************)
THEOREM BillingInvariant == BillingSpec => []BillingInv
<1>1. BillingInit => BillingIInv
  BY BillingStarts
<1>2. BillingIInv /\ [BillingNext]_billingVars => BillingIInv'
  BY NextKeepsInv
<1>3. BillingIInv => BillingInv
  BY LateIsEnough
<1>4. QED
  BY <1>1, <1>2, <1>3, PTL DEF BillingSpec

\* The ledger begins with nothing charged.
LEMMA LedgerStarts == BillingInit => Ledger!LedgerInit
<1> SUFFICES ASSUME BillingInit
             PROVE  Ledger!LedgerInit
  OBVIOUS
<1>1. Charged = {}
  BY DEF BillingInit, Charged
<1>2. TotalUsage = [t \in Tenants |-> 0]
  <2>1. MaxPeriod \in Nat
    BY BillingAssumption
  <2>2. \A t \in Tenants : usage[t] = [m \in 1..MaxPeriod |-> 0]
    BY DEF BillingInit
  <2>3. RunningSum([m \in 1..MaxPeriod |-> 0])[MaxPeriod] = 0
    BY <2>1, NoSum
  <2>4. \A t \in Tenants : RunningSum(usage[t])[MaxPeriod] = 0
    BY <2>2, <2>3
  <2>5. QED
    BY <2>4 DEF TotalUsage
<1>3. QED
  BY <1>1, <1>2 DEF BillingInit, Ledger!LedgerInit

\* An answer that is recorded is charged once, and to its own tenant, whatever the month.
LEMMA RecordCharges ==
    ASSUME BillingTypeOK, NEW c \in Chats, RecordUsage(c), chat'[c] = "recorded"
    PROVE  Ledger!Charge(c)
<1> DEFINE t == tenant[c]
           m == slot[c]
           s == usage[t]
           u == [s EXCEPT ![m] = @ + 1]
<1>1. /\ c \notin Charged
      /\ Charged' = Charged \cup {c}
      /\ usage' = [usage EXCEPT ![t][m] = Upserted(c)]
      /\ UNCHANGED tenant
  <2>1. chat[c] = "record" /\ chat' = [chat EXCEPT ![c] = "recorded"] /\ UNCHANGED tenant
    BY DEF RecordUsage, BillingTypeOK
  <2>2. usage' = [usage EXCEPT ![t][m] = Upserted(c)]
    BY <2>1 DEF RecordUsage, BillingTypeOK
  <2>3. QED
    BY <2>1, <2>2 DEF Charged, BillingTypeOK
<1>2. t \in Tenants /\ m \in 1..MaxPeriod /\ s \in [1..MaxPeriod -> Nat] /\ MaxPeriod \in Nat
  BY BillingAssumption DEF BillingTypeOK
<1>3. usage' = [usage EXCEPT ![t] = u]
  BY <1>1 DEF Upserted
<1> HIDE DEF t, m, s
<1>4. s \in Seq(Nat) /\ Len(s) = MaxPeriod
  BY <1>2, SeqDef
<1>5. RunningSum(u)[MaxPeriod] = RunningSum(s)[MaxPeriod] + 1
  BY <1>2, <1>4, RaisedSum
<1>6. \A r \in Tenants : usage'[r] = IF r = t THEN u ELSE usage[r]
  <2> HIDE DEF u
  <2>1. QED
    BY <1>3 DEF BillingTypeOK
<1> HIDE DEF u
<1>7. usage[t] = s
  BY DEF s
<1>8. \A r \in Tenants : RunningSum(usage'[r])[MaxPeriod] =
         IF r = t THEN RunningSum(usage[t])[MaxPeriod] + 1 ELSE RunningSum(usage[r])[MaxPeriod]
  BY <1>5, <1>6, <1>7
<1>9. TotalUsage' = [TotalUsage EXCEPT ![t] = @ + 1]
  BY <1>2, <1>8 DEF TotalUsage
<1>10. QED
  BY <1>1, <1>9 DEF Ledger!Charge, t

\* Every other step leaves the ledger as it is.
LEMMA LedgerStep ==
    ASSUME BillingTypeOK, [BillingNext]_billingVars
    PROVE  [Ledger!LedgerNext]_(Ledger!ledger)
<1>1. ASSUME UNCHANGED <<tenant, usage>>, Charged' = Charged
      PROVE  [Ledger!LedgerNext]_(Ledger!ledger)
  <2>1. TotalUsage' = TotalUsage
    BY <1>1 DEF TotalUsage
  <2>2. QED
    BY <1>1, <2>1 DEF Ledger!ledger
<1>2. ASSUME UNCHANGED <<tenant, usage, chat>>
      PROVE  [Ledger!LedgerNext]_(Ledger!ledger)
  <2>1. Charged' = Charged
    BY <1>2 DEF Charged
  <2>2. QED
    BY <1>1, <1>2, <2>1
<1>3. ASSUME NEW c \in Chats, NEW next, chat[c] # "recorded", next # "recorded",
             chat' = [chat EXCEPT ![c] = next], UNCHANGED <<tenant, usage>>
      PROVE  [Ledger!LedgerNext]_(Ledger!ledger)
  <2>1. Charged' = Charged
    BY <1>3 DEF Charged, BillingTypeOK
  <2>2. QED
    BY <1>1, <1>3, <2>1
<1>4. ASSUME NEW c \in Chats, FindAccount(c) \/ ReadFreePlan(c) \/ InsertAccount(c)
      PROVE  [Ledger!LedgerNext]_(Ledger!ledger)
  <2>1. /\ chat[c] # "recorded" /\ UNCHANGED <<tenant, usage>>
        /\ \E next : next # "recorded" /\ chat' = [chat EXCEPT ![c] = next]
    BY <1>4 DEF FindAccount, ReadFreePlan, InsertAccount
  <2>2. QED
    BY <1>3, <2>1
<1>5. ASSUME NEW c \in Chats, ReadUsage(c) \/ Decide(c) \/ EndAnswer(c)
      PROVE  [Ledger!LedgerNext]_(Ledger!ledger)
  <2>1. /\ chat[c] # "recorded" /\ UNCHANGED <<tenant, usage>>
        /\ \E next : next # "recorded" /\ chat' = [chat EXCEPT ![c] = next]
    BY <1>5 DEF ReadUsage, Decide, EndAnswer
  <2>2. QED
    BY <1>3, <2>1
<1>6. ASSUME NEW c \in Chats, RecordUsage(c)
      PROVE  [Ledger!LedgerNext]_(Ledger!ledger)
  <2>1. CASE chat'[c] = "recorded"
    BY <1>6, <2>1, RecordCharges DEF Ledger!LedgerNext
  <2>2. CASE chat'[c] # "recorded"
    <3>1. /\ chat[c] # "recorded" /\ UNCHANGED <<tenant, usage>>
          /\ chat' = [chat EXCEPT ![c] = "unbilled"]
      BY <1>6, <2>2 DEF RecordUsage, BillingTypeOK
    <3>2. QED
      BY <1>3, <3>1
  <2>3. QED
    BY <2>1, <2>2
<1>7. ASSUME NEW id \in PlanIds, NEW name \in PlanNames, NEW limit \in Limits,
             CreatePlan(id, name, limit) \/ UpdatePlan(id, name, limit)
      PROVE  [Ledger!LedgerNext]_(Ledger!ledger)
  BY <1>2, <1>7 DEF CreatePlan, UpdatePlan, Others, chatVars
<1>8. ASSUME NEW id \in PlanIds, DeletePlan(id)
      PROVE  [Ledger!LedgerNext]_(Ledger!ledger)
  BY <1>2, <1>8 DEF DeletePlan, Others, chatVars
<1>9. ASSUME NEW t \in Tenants, Suspend(t)
      PROVE  [Ledger!LedgerNext]_(Ledger!ledger)
  BY <1>2, <1>9 DEF Suspend, chatVars
<1>10. CASE NextMonth
  BY <1>2, <1>10 DEF NextMonth, chatVars
<1>11. CASE UNCHANGED billingVars
  BY <1>2, <1>11 DEF billingVars, chatVars
<1>12. QED
  BY <1>4, <1>5, <1>6, <1>7, <1>8, <1>9, <1>10, <1>11 DEF BillingNext, ChatStep

\* The usage records of the months are a ledger that charges every answer once at most and
\* loses nothing, for any number of chats, tenants and months.
THEOREM UsageIsALedger == BillingSpec => LedgerIsKept
<1>1. BillingInv /\ [BillingNext]_billingVars => [Ledger!LedgerNext]_(Ledger!ledger)
  BY LedgerStep DEF BillingInv
<1>2. QED
  BY <1>1, LedgerStarts, BillingInvariant, PTL DEF BillingSpec, LedgerIsKept, Ledger!LedgerSpec

-----------------------------------------------------------------------------
(***************************************************************************)
(* Feedback, for any number of users and messages, overlapping votes and   *)
(* reads of the statistics.                                                *)
(***************************************************************************)
Steps == {"new", "failed", "on", "off"} \cup Looked \cup Writing

\* Types of the votes.
VotesOK ==
    /\ ballot \in [Votes -> Ballots]
    /\ wanted \in [Votes -> Types \cup {"other"}]
    /\ step \in [Votes -> Steps]
    /\ existing \in [Votes -> Votes \cup {Nobody}]
    /\ clash \subseteq Votes
    /\ \A v \in Votes : step[v] \in Looked \cup Writing => wanted[v] \in Types
    /\ \A v \in Votes : existing[v] \in Votes => ballot[existing[v]] = ballot[v]

\* Types of the reads.
ReadsOK ==
    /\ scope \in [Reads -> Scopes]
    /\ read \in [Reads -> {"new", "miss", "counted", "done", "failed"}]
    /\ count \in [Reads -> Entries]
    /\ cache \in [CacheKeys -> Entries]
    /\ raced \subseteq Reads

\* Types of the rows, whose they are, and one row of a user and message at most.
RowsOK ==
    /\ rows \subseteq Rows
    /\ IsFiniteSet(rows)
    /\ \A w \in rows : w.ballot = ballot[w.id]
    /\ \A w, x \in rows : w.ballot = x.ballot => w = x

\* The writes of a user's votes on a message exclude each other until they are committed.
LockOK ==
    /\ \A v, w \in Votes :
          ballot[v] = ballot[w] /\ step[v] \in Locking /\ step[w] \in Locking => v = w
    /\ \A v \in Votes : step[v] = "inserting" => RowsOf(ballot[v]) = {}

\* The message of a vote.
MessageOf(v) == ballot[v][2]

\* A count made before a commit, and an entry left by an invalidation, is known to be.
CountsOK ==
    /\ \A v \in Votes : step[v] \in Writing => UnderWay(MessageOf(v)) \subseteq raced
    /\ \A r \in Reads : read[r] = "counted" =>
          /\ count[r].by = r
          /\ scope[r].message \in Messages => count[r] = Counted(r) \/ r \in raced
    /\ \A v \in Votes : step[v] = "invalidated" =>
          cache[MessageOf(v)] = NoEntry \/ MessageOf(v) \in lost \/ cache[MessageOf(v)].by \in raced

\* The inductive invariant.
FeedbackIInv ==
    VotesOK /\ ReadsOK /\ RowsOK /\ LockOK /\ CountsOK /\ StaleIsExcused /\ lost \subseteq Messages

\* It is stronger than what the runs check.
LEMMA FeedbackIsEnough == FeedbackIInv => FeedbackIsTrue
<1> SUFFICES ASSUME FeedbackIInv
             PROVE  FeedbackIsTrue
  OBVIOUS
<1>1. lost \subseteq Messages /\ StaleIsExcused
  BY DEF FeedbackIInv
<1>2. VotesOK /\ ReadsOK /\ RowsOK
  BY DEF FeedbackIInv
<1>3. QED
  BY <1>1, <1>2, Zenon DEF FeedbackIsTrue, FeedbackInv, VotesOK, ReadsOK, RowsOK, Steps

\* The first state has no rows, and its cache is empty.
LEMMA FeedbackStarts == FeedbackInit => FeedbackIInv
<1> SUFFICES ASSUME FeedbackInit
             PROVE  FeedbackIInv
  OBVIOUS
<1> USE DEF FeedbackInit
<1>1. VotesOK
  BY FeedbackAssumption DEF FeedbackAssumption, VotesOK, Steps, Looked, Writing, Locking
<1>2. ReadsOK
  BY DEF ReadsOK, Entries, NoEntry
<1>3. RowsOK
  BY FS_EmptySet DEF RowsOK
<1>4. LockOK
  BY DEF LockOK, Locking
<1>5. CountsOK
  BY DEF CountsOK, Writing, Locking
<1>6. StaleIsExcused
  BY DEF StaleIsExcused, CacheKeys
<1>7. lost \subseteq Messages
  BY Zenon
<1>8. QED
  BY <1>1, <1>2, <1>3, <1>4, <1>5, <1>6, <1>7 DEF FeedbackIInv

\* While the table stays as it is, a request counts the same.
LEMMA TableStays ==
    ASSUME UNCHANGED <<rows, scope>>
    PROVE  /\ \A m, type : Tally(m, type)' = Tally(m, type)
           /\ \A r : Counted(r)' = Counted(r)
<1>1. rows' = rows /\ scope' = scope
  OBVIOUS
<1>2. \A m, type : Tally(m, type)' = Tally(m, type)
  BY <1>1, Zenon DEF Tally, Cast
<1>3. QED
  BY <1>1, <1>2, Zenon DEF Counted

\* What concerns the votes and their rows alone stays with them.
LEMMA VotesStay ==
    ASSUME VotesOK, RowsOK, LockOK, lost \subseteq Messages,
           UNCHANGED <<ballot, wanted, rows, step, existing, clash, lost>>
    PROVE  VotesOK' /\ RowsOK' /\ LockOK' /\ (lost \subseteq Messages)'
<1>1. /\ ballot' = ballot /\ wanted' = wanted /\ rows' = rows /\ step' = step
      /\ existing' = existing /\ clash' = clash /\ lost' = lost
  OBVIOUS
<1>2. VotesOK'
  BY <1>1 DEF VotesOK
<1>3. RowsOK'
  BY <1>1 DEF RowsOK
<1>4. LockOK'
  BY <1>1, Zenon DEF LockOK, RowsOf
<1>5. QED
  BY <1>1, <1>2, <1>3, <1>4

\* Looking for a row, or failing to, is seen by nobody; neither is a rollback.
LEMMA LookKeepsInv ==
    ASSUME FeedbackIInv, NEW v \in Votes, Refused(v) \/ Look(v) \/ RollBack(v)
    PROVE  FeedbackIInv'
<1> USE DEF FeedbackIInv
<1>1. /\ UNCHANGED <<ballot, wanted, rows, readVars, cache, raced, lost>>
      /\ step[v] \in {"new"} \cup Looked \cup Locking
      /\ \E to \in {"failed"} \cup Looked :
            /\ step' = [step EXCEPT ![v] = to]
            /\ to \in Looked => wanted[v] \in Types
  BY DEF Refused, Look, RollBack, Looked
<1>2. VotesOK'
  <2>1. existing' \in [Votes -> Votes \cup {Nobody}]
    BY DEF Refused, Look, RollBack, VotesOK, RowsOK, RowsOf, Rows
  <2>2. clash' \subseteq Votes
    BY DEF Refused, Look, RollBack, VotesOK, Rivals
  <2>3. \A w \in Votes : existing'[w] \in Votes => ballot[existing'[w]] = ballot[w]
    BY DEF Refused, Look, RollBack, VotesOK, RowsOK, RowsOf, Rows
  <2>4. QED
    BY <1>1, <2>1, <2>2, <2>3 DEF VotesOK, Steps, Looked, Writing, Locking
<1>3. ReadsOK' /\ RowsOK' /\ (lost \subseteq Messages)'
  BY <1>1, Zenon DEF readVars, ReadsOK, RowsOK
<1>4. \A w \in Votes : step'[w] \in Writing => step'[w] = step[w]
  BY <1>1 DEF VotesOK, Looked, Writing, Locking
<1>5. LockOK'
  BY <1>1, <1>4 DEF LockOK, RowsOf, Writing, Locking
<1>6. \A x \in Reads : Counted(x)' = Counted(x)
  BY <1>1, TableStays DEF readVars
<1>7. CountsOK'
  <2>1. \A m \in Messages : UnderWay(m)' = UnderWay(m)
    BY <1>1 DEF readVars, UnderWay
  <2>2. \A w \in Votes : MessageOf(w)' = MessageOf(w) /\ MessageOf(w) \in Messages
    BY <1>1 DEF MessageOf, VotesOK, Ballots
  <2>3. QED
    BY <1>1, <1>4, <1>6, <2>1, <2>2 DEF readVars, CountsOK, Writing, Locking
<1>8. StaleIsExcused'
  <2>1. \A w \in Votes : step'[w] = "committed" <=> step[w] = "committed"
    BY <1>1 DEF VotesOK, Looked, Locking
  <2>2. \A m, type : Tally(m, type)' = Tally(m, type)
    BY <1>1, TableStays DEF readVars
  <2>3. QED
    BY <1>1, <2>1, <2>2 DEF StaleIsExcused
<1>9. QED
  BY <1>2, <1>3, <1>5, <1>7, <1>8

\* A write waits for its user's other writes on the message, and overtakes the reads of it.
LEMMA WriteKeepsInv ==
    ASSUME FeedbackIInv, NEW v \in Votes, Write(v)
    PROVE  FeedbackIInv'
<1> USE DEF FeedbackIInv
<1>1. /\ UNCHANGED <<ballot, wanted, rows, existing, clash, readVars, cache, lost>>
      /\ step[v] \in Looked /\ raced' = raced \cup UnderWay(MessageOf(v))
      /\ \A w \in Rivals(v) : step[w] \notin Locking
      /\ \E to \in {"toggling", "updating", "inserting", "failed"} :
            /\ step' = [step EXCEPT ![v] = to]
            /\ to = "inserting" => RowsOf(ballot[v]) = {}
  BY DEF Write, Looked, KeyFree, MessageOf
<1>2. VotesOK'
  BY <1>1 DEF VotesOK, Steps, Looked, Writing, Locking
<1>3. ReadsOK'
  BY <1>1 DEF readVars, ReadsOK, UnderWay
<1>4. RowsOK' /\ (lost \subseteq Messages)'
  BY <1>1, Zenon DEF RowsOK
<1>5. LockOK'
  <2>1. \A w \in Votes \ {v} :
           step'[w] = step[w] /\ (ballot[w] = ballot[v] => step[w] \notin Locking)
    BY <1>1 DEF VotesOK, Rivals, Writing
  <2>2. step'[v] = "inserting" => RowsOf(ballot[v]) = {}
    BY <1>1 DEF VotesOK
  <2>3. QED
    BY <1>1, <2>1, <2>2 DEF LockOK, RowsOf
<1>6. raced \subseteq raced' /\ \A m : UnderWay(m)' = UnderWay(m)
  BY <1>1 DEF readVars, UnderWay
<1>7. \A w \in Votes : MessageOf(w)' = MessageOf(w)
  BY <1>1 DEF MessageOf
<1>8. \A x \in Reads : Counted(x)' = Counted(x)
  BY <1>1, TableStays DEF readVars
<1>9. CountsOK'
  <2>1. \A w \in Votes \ {v} : step'[w] = step[w]
    BY <1>1 DEF VotesOK
  <2>2. step'[v] # "invalidated"
    BY <1>1 DEF VotesOK
  <2>3. QED
    BY <1>1, <1>6, <1>7, <1>8, <2>1, <2>2 DEF readVars, CountsOK
<1>10. StaleIsExcused'
  <2>1. \A w \in Votes : step[w] = "committed" => step'[w] = "committed"
    BY <1>1 DEF VotesOK, Looked
  <2>2. \A m, type : Tally(m, type)' = Tally(m, type)
    BY <1>1, TableStays DEF readVars
  <2>3. QED
    BY <1>1, <1>6, <2>1, <2>2 DEF StaleIsExcused
<1>11. QED
  BY <1>2, <1>3, <1>4, <1>5, <1>9, <1>10

\* The entry of the message goes, or the loss is known.
LEMMA InvalidateKeepsInv ==
    ASSUME FeedbackIInv, NEW v \in Votes, Invalidate(v)
    PROVE  FeedbackIInv'
<1> USE DEF FeedbackIInv
<1> DEFINE m == MessageOf(v)
<1>1. /\ UNCHANGED <<ballot, wanted, rows, existing, clash, readVars, raced>>
      /\ \/ step[v] = "toggling" /\ step' = [step EXCEPT ![v] = "invalidated"]
         \/ step[v] = "committed" /\ step' = [step EXCEPT ![v] = "on"]
  BY DEF Invalidate
<1>2. m \in Messages /\ InvalidatedKey(m) = m /\ m \in CacheKeys
  BY FeedbackAssumption DEF FeedbackAssumption, VotesOK, Ballots, MessageOf, InvalidatedKey, Key, CacheKeys
<1>3. \/ /\ cache' = [cache EXCEPT ![m] = NoEntry]
         /\ lost' = lost
      \/ /\ cache' = cache
         /\ lost' = lost \cup {m}
  <2>1. \/ cache' = [cache EXCEPT ![InvalidatedKey(m)] = NoEntry] /\ UNCHANGED lost
        \/ lost' = lost \cup {m} /\ UNCHANGED cache
    BY Zenon DEF Invalidate, MessageOf
  <2>2. QED
    BY <1>2, <2>1, Zenon
<1>4. /\ cache' \in [CacheKeys -> Entries] /\ lost' \subseteq Messages
      /\ cache'[m] = NoEntry \/ m \in lost'
      /\ \A k \in Messages \ {m} : cache'[k] = cache[k] /\ (k \in lost => k \in lost')
  BY <1>2, <1>3 DEF ReadsOK, NoEntry, Entries, CacheKeys
<1> HIDE DEF m
<1>5. VotesOK' /\ RowsOK'
  BY <1>1 DEF VotesOK, RowsOK, Steps, Looked, Writing, Locking
<1>6. ReadsOK'
  BY <1>1, <1>4 DEF readVars, ReadsOK
<1>7. LockOK'
  BY <1>1 DEF LockOK, VotesOK, Locking, RowsOf
<1>8. \A w \in Votes : MessageOf(w)' = MessageOf(w) /\ MessageOf(w) \in Messages
  BY <1>1 DEF VotesOK, Ballots, MessageOf
<1>9. CountsOK'
  <2>1. \A k : UnderWay(k)' = UnderWay(k)
    BY <1>1 DEF readVars, UnderWay
  <2>2. \A r \in Reads : Counted(r)' = Counted(r)
    BY <1>1, TableStays DEF readVars
  <2>3. \A w \in Votes : step'[w] \in Writing => step[w] \in Writing
    BY <1>1 DEF VotesOK, Writing, Locking
  <2>4. \A w \in Votes : step'[w] = "invalidated" =>
           \/ MessageOf(w) = m
           \/ MessageOf(w) # m /\ step[w] = "invalidated"
    BY <1>1 DEF VotesOK, m
  <2>5. \A w \in Votes : step'[w] = "invalidated" =>
           cache'[MessageOf(w)] = NoEntry \/ MessageOf(w) \in lost' \/ cache'[MessageOf(w)].by \in raced
    BY <1>4, <1>8, <2>4 DEF CountsOK
  <2>6. QED
    BY <1>1, <1>8, <2>1, <2>2, <2>3, <2>5 DEF readVars, CountsOK
<1>10. StaleIsExcused'
  <2> SUFFICES ASSUME NEW k \in Messages
               PROVE  \/ cache'[k] = NoEntry
                      \/ /\ cache'[k].up = Tally(k, "thumbs_up")'
                         /\ cache'[k].down = Tally(k, "thumbs_down")'
                      \/ k \in lost'
                      \/ cache'[k].by \in raced'
                      \/ \E w \in Votes : step'[w] = "committed" /\ ballot'[w][2] = k
    BY DEF StaleIsExcused
  <2>1. CASE k = m
    BY <1>4, <2>1
  <2>2. CASE k # m
    <3>1. \A type : Tally(k, type)' = Tally(k, type)
      BY <1>1, TableStays DEF readVars
    <3>2. \A w \in Votes : step[w] = "committed" /\ ballot[w][2] = k => step'[w] = "committed"
      BY <1>1, <2>2 DEF VotesOK, m, MessageOf
    <3>3. QED
      BY <1>1, <1>4, <2>2, <3>1, <3>2 DEF StaleIsExcused
  <2>3. QED
    BY <2>1, <2>2
<1>11. QED
  BY <1>4, <1>5, <1>6, <1>7, <1>9, <1>10

\* What an update makes of a row.
Updated(v, w) == IF w.id = existing[v] THEN [w EXCEPT !.type = wanted[v]] ELSE w

\* An update changes nothing of a row but its type, and that of its own ballot only.
LEMMA UpdatedRow ==
    ASSUME FeedbackIInv, NEW v \in Votes, wanted[v] \in Types, NEW w \in rows
    PROVE  /\ Updated(v, w) \in Rows /\ Updated(v, w).ballot = w.ballot
           /\ Updated(v, w).id = w.id /\ (w.ballot # ballot[v] => Updated(v, w) = w)
BY DEF FeedbackIInv, VotesOK, RowsOK, Rows, Updated

\* What a commit makes of the rows: nothing of those of other ballots, and one row at most.
LEMMA CommitKeepsRows ==
    ASSUME FeedbackIInv, NEW v \in Votes, Commit(v)
    PROVE  /\ RowsOK'
           /\ \A w : w.ballot # ballot[v] => (w \in rows' <=> w \in rows)
<1> USE DEF FeedbackIInv
<1>1. ballot' = ballot
  BY DEF Commit
<1>2. \A w \in rows : w.id = existing[v] => w.ballot = ballot[v]
  BY DEF VotesOK, RowsOK, Rows
<1>3. CASE step[v] = "invalidated" /\ rows' = {w \in rows : w.id # existing[v]}
  <2>1. rows' \in SUBSET rows
    BY <1>3
  <2>2. IsFiniteSet(rows')
    BY <2>1, FS_Subset DEF RowsOK
  <2>3. RowsOK'
    BY <1>1, <2>1, <2>2 DEF RowsOK
  <2>4. QED
    BY <1>2, <1>3, <2>3
<1>4. CASE step[v] = "updating" /\ rows' = AfterUpdate(v)
  <2> DEFINE f == [w \in rows |-> Updated(v, w)]
  <2>1. wanted[v] \in Types
    BY <1>4 DEF VotesOK, Writing, Locking
  <2>2. \A w \in rows : /\ Updated(v, w) \in Rows /\ Updated(v, w).ballot = w.ballot
                        /\ Updated(v, w).id = w.id
                        /\ w.ballot # ballot[v] => Updated(v, w) = w
    BY <2>1, UpdatedRow
  <2>3. rows' = {Updated(v, w) : w \in rows}
    BY <1>4 DEF AfterUpdate, Updated
  <2>4. f \in Surjection(rows, rows')
    BY <2>3 DEF Surjection
  <2>5. IsFiniteSet(rows')
    BY <2>4, FS_Surjection DEF RowsOK
  <2>6. RowsOK'
    <3>1. \A y \in rows' : \E w \in rows : y = Updated(v, w)
      BY <2>3
    <3>2. rows' \subseteq Rows /\ \A y \in rows' : y.ballot = ballot[y.id]
      BY <2>2, <3>1 DEF RowsOK
    <3>3. \A x, y \in rows' : x.ballot = y.ballot => x = y
      BY <2>2, <3>1 DEF RowsOK
    <3>4. QED
      BY <1>1, <2>5, <3>2, <3>3 DEF RowsOK
  <2>7. QED
    BY <2>2, <2>3, <2>6
<1>5. CASE step[v] = "inserting" /\ rows' = rows \cup {Row(v)}
  <2>1. Row(v) \in Rows /\ Row(v).ballot = ballot[v] /\ Row(v).id = v
    BY <1>5 DEF VotesOK, Writing, Locking, Row, Rows
  <2>2. \A w \in rows : w.ballot # ballot[v]
    BY <1>5 DEF LockOK, RowsOf
  <2>3. IsFiniteSet(rows')
    BY <1>5, FS_AddElement DEF RowsOK
  <2>4. RowsOK'
    BY <1>1, <1>5, <2>1, <2>2, <2>3 DEF RowsOK
  <2>5. QED
    BY <1>5, <2>1, <2>4
<1>6. QED
  BY <1>3, <1>4, <1>5 DEF Commit

\* The votes on other messages are counted as before.
LEMMA CommitKeepsTally ==
    ASSUME FeedbackIInv, NEW v \in Votes, Commit(v), NEW m \in Messages \ {MessageOf(v)}, NEW type
    PROVE  Tally(m, type)' = Tally(m, type)
<1>1. m # AllMessages /\ m # ballot[v][2]
  <2>1. AllMessages \notin Messages
    BY FeedbackAssumption
  <2>2. QED
    BY <2>1 DEF MessageOf
<1>2. ASSUME NEW w, w.ballot[2] = m
      PROVE  w \in rows' <=> w \in rows
  <2>1. w.ballot # ballot[v]
    BY <1>1, <1>2
  <2>2. QED
    BY <2>1, CommitKeepsRows
<1>3. \A w : w \in Cast(m, type)' <=> w \in Cast(m, type)
  <2>1. \A w : w \in Cast(m, type) <=> w \in rows /\ w.type = type /\ w.ballot[2] = m
    BY <1>1 DEF Cast
  <2>2. \A w : w \in Cast(m, type)' <=> w \in rows' /\ w.type = type /\ w.ballot[2] = m
    BY <1>1 DEF Cast
  <2>3. QED
    BY <1>2, <2>1, <2>2
<1>4. Cast(m, type)' = Cast(m, type)
  BY <1>3
<1>5. QED
  BY <1>4 DEF Tally

\* A commit overtakes the reads of its message that are under way.
LEMMA CommitKeepsInv ==
    ASSUME FeedbackIInv, NEW v \in Votes, Commit(v)
    PROVE  FeedbackIInv'
<1> USE DEF FeedbackIInv
<1> DEFINE m == MessageOf(v)
<1>1. /\ UNCHANGED <<ballot, wanted, existing, clash, readVars, cache>>
      /\ step[v] \in {"invalidated", "updating", "inserting"}
      /\ raced' = raced \cup UnderWay(m)
  BY DEF Commit, MessageOf
<1>2. \E to \in {"off", "committed", "failed"} :
         /\ step' = [step EXCEPT ![v] = to]
         /\ to = "off" => step[v] = "invalidated"
         /\ \/ lost' = lost \/ lost' = lost \cup {m}
         /\ to = "failed" /\ step[v] # "invalidated" => m \in lost'
  BY DEF Commit, MessageOf
<1>3. m \in Messages /\ lost \subseteq lost' /\ lost' \subseteq Messages
  BY <1>2 DEF VotesOK, Ballots, MessageOf
<1> HIDE DEF m
<1>4. VotesOK'
  BY <1>1, <1>2 DEF VotesOK, Steps, Looked, Writing, Locking
<1>5. ReadsOK'
  BY <1>1 DEF readVars, ReadsOK, UnderWay
<1>6. RowsOK'
  BY CommitKeepsRows
<1>7. \A w \in Votes \ {v} : step'[w] = step[w]
  BY <1>2 DEF VotesOK
<1>8. step'[v] \in {"off", "committed", "failed"}
  BY <1>2 DEF VotesOK
<1>9. LockOK'
  <2>1. \A w \in Votes : step'[w] \in Locking =>
           w # v /\ step[w] = step'[w] /\ ballot[w] # ballot[v]
    BY <1>1, <1>7, <1>8 DEF LockOK, Locking
  <2>2. \A w \in Votes : step'[w] = "inserting" => RowsOf(ballot[w])' = {}
    BY <1>1, <2>1, CommitKeepsRows DEF LockOK, Locking, RowsOf
  <2>3. QED
    BY <1>1, <2>1, <2>2 DEF LockOK
<1>10. raced \subseteq raced' /\ \A k : UnderWay(k)' = UnderWay(k)
  BY <1>1 DEF readVars, UnderWay
<1>11. \A w \in Votes : MessageOf(w)' = MessageOf(w)
  BY <1>1 DEF MessageOf
<1>12. CountsOK'
  <2>1. \A w \in Votes : step'[w] \in Writing => UnderWay(MessageOf(w)) \subseteq raced'
    <3>1. UnderWay(m) \subseteq raced'
      BY <1>1
    <3>2. QED
      BY <1>7, <1>10, <3>1 DEF CountsOK, m
  <2>2. ASSUME NEW r \in Reads, read[r] = "counted", scope[r].message \in Messages, r \notin raced'
        PROVE  count[r] = Counted(r)'
    <3>1. count[r] = Counted(r)
      BY <1>10, <2>2 DEF CountsOK
    <3>2. scope[r].message # m
      BY <1>1, <2>2 DEF UnderWay
    <3> DEFINE k == scope[r].message
    <3>3. /\ Tally(k, "thumbs_up")' = Tally(k, "thumbs_up")
          /\ Tally(k, "thumbs_down")' = Tally(k, "thumbs_down")
      <4>1. scope' = scope /\ k \in Messages \ {MessageOf(v)}
        BY <1>1, <2>2, <3>2 DEF m, readVars
      <4>2. k' = k
        BY <4>1
      <4> HIDE DEF k
      <4>3. QED
        BY <4>1, <4>2, CommitKeepsTally
    <3>4. scope' = scope
      BY <1>1 DEF readVars
    <3>5. Counted(r)' = Counted(r)
      BY <3>3, <3>4 DEF Counted
    <3>6. QED
      BY <3>1, <3>5
  <2>3. \A w \in Votes : step'[w] = "invalidated" => step[w] = "invalidated"
    BY <1>7, <1>8
  <2>4. QED
    BY <1>1, <1>3, <1>10, <1>11, <2>1, <2>2, <2>3 DEF readVars, CountsOK
<1>13. StaleIsExcused'
  <2> SUFFICES ASSUME NEW k \in Messages
               PROVE  \/ cache'[k] = NoEntry
                      \/ /\ cache'[k].up = Tally(k, "thumbs_up")'
                         /\ cache'[k].down = Tally(k, "thumbs_down")'
                      \/ k \in lost'
                      \/ cache'[k].by \in raced'
                      \/ \E w \in Votes : step'[w] = "committed" /\ ballot'[w][2] = k
    BY DEF StaleIsExcused
  <2>1. CASE k = m
    <3>1. CASE step[v] = "invalidated"
      <4>1. cache[m] = NoEntry \/ m \in lost \/ cache[m].by \in raced
        BY <3>1 DEF CountsOK, m
      <4>2. QED
        BY <1>1, <1>3, <1>10, <2>1, <4>1
    <3>2. CASE step[v] # "invalidated"
      <4>1. step'[v] = "committed" \/ m \in lost'
        BY <1>2, <3>2 DEF VotesOK
      <4>2. QED
        BY <1>1, <2>1, <4>1 DEF m, MessageOf
    <3>3. QED
      BY <3>1, <3>2
  <2>2. CASE k # m
    <3>2. \A w \in Votes : step[w] = "committed" => step'[w] = "committed"
      BY <1>1, <1>7
    <3>3. /\ Tally(k, "thumbs_up")' = Tally(k, "thumbs_up")
          /\ Tally(k, "thumbs_down")' = Tally(k, "thumbs_down")
      BY <2>2, CommitKeepsTally DEF m
    <3>4. QED
      BY <1>1, <1>3, <1>10, <3>2, <3>3 DEF StaleIsExcused
  <2>3. QED
    BY <2>1, <2>2
<1>14. QED
  BY <1>3, <1>4, <1>5, <1>6, <1>9, <1>12, <1>13

\* A key is of the message of the request, or no message's.
LEMMA KeyIsOfMessage ==
    ASSUME NEW s \in Scopes
    PROVE  Key(s) \in CacheKeys /\ (Key(s) \in Messages => s.message = Key(s))
BY FeedbackAssumption DEF FeedbackAssumption, Scopes, Key, CacheKeys

\* A read that overlaps a vote is known to; the others cache what the table holds.
LEMMA StatsKeepInv ==
    ASSUME FeedbackIInv, NEW r \in Reads, Stats(r)
    PROVE  FeedbackIInv'
<1> USE DEF FeedbackIInv
<1>1. UNCHANGED <<ballot, wanted, rows, step, existing, clash, scope, lost>> /\ raced \subseteq raced'
  BY DEF Stats, StartRead, CountRows, CacheStats, voteVars
<1>2. VotesOK' /\ RowsOK' /\ LockOK' /\ (lost \subseteq Messages)'
  BY <1>1, VotesStay
<1>3. (\A k, type : Tally(k, type)' = Tally(k, type)) /\ \A x : Counted(x)' = Counted(x)
  BY <1>1, TableStays
<1>4. \A w \in Votes : MessageOf(w)' = MessageOf(w)
  BY <1>1 DEF MessageOf
<1>5. UNCHANGED cache => StaleIsExcused'
  BY <1>1, <1>3 DEF StaleIsExcused
<1>6. CASE StartRead(r)
  <2>1. ReadsOK'
    BY <1>6 DEF StartRead, ReadsOK
  <2>2. ASSUME NEW w \in Votes, step[w] \in Writing, NEW x \in UnderWay(MessageOf(w))'
        PROVE  x \in raced'
    <3>1. x \in Reads /\ scope[x].message = ballot[w][2]
      BY <1>1, <2>2 DEF UnderWay, MessageOf
    <3>2. CASE x = r
      BY <1>6, <2>2, <3>1, <3>2 DEF StartRead
    <3>3. CASE x # r
      <4>1. read'[x] = read[x]
        BY <1>6, <3>1, <3>3 DEF StartRead, ReadsOK
      <4>2. x \in UnderWay(MessageOf(w))
        BY <1>1, <2>2, <3>1, <4>1 DEF UnderWay, MessageOf
      <4>3. QED
        BY <1>1, <2>2, <4>2 DEF CountsOK
    <3>4. QED
      BY <3>2, <3>3
  <2>3. \A x \in Reads : read'[x] = "counted" => read[x] = "counted" /\ count'[x] = count[x]
    BY <1>6 DEF StartRead, ReadsOK
  <2>4. cache' = cache
    BY <1>6 DEF StartRead
  <2>5. CountsOK'
    BY <1>1, <1>3, <1>4, <2>2, <2>3, <2>4 DEF CountsOK
  <2>6. QED
    BY <1>2, <1>5, <2>1, <2>4, <2>5
<1>7. CASE CountRows(r)
  <2>1. Counted(r) \in Entries /\ Counted(r).by = r
    <3>1. ASSUME NEW m, NEW type
          PROVE  Tally(m, type) \in Nat
      <4>1. Cast(m, type) \subseteq rows
        BY DEF Cast
      <4>2. QED
        BY <4>1, FS_Subset, FS_CardinalityType DEF RowsOK, Tally
    <3>2. QED
      BY <3>1 DEF Counted, Entries
  <2>2. ReadsOK'
    BY <1>7, <2>1 DEF CountRows, ReadsOK
  <2>3. \A k : UnderWay(k)' \subseteq UnderWay(k)
    BY <1>7 DEF CountRows, ReadsOK, UnderWay
  <2>4. \A x \in Reads : read'[x] = "counted" =>
           \/ read[x] = "counted" /\ count'[x] = count[x]
           \/ x = r /\ count'[x] = Counted(x)
    BY <1>7 DEF CountRows, ReadsOK
  <2>5. cache' = cache
    BY <1>7 DEF CountRows
  <2>6. CountsOK'
    BY <1>1, <1>3, <1>4, <2>1, <2>3, <2>4, <2>5 DEF CountsOK
  <2>7. QED
    BY <1>2, <1>5, <2>2, <2>5, <2>6
<1>8. CASE CacheStats(r)
  <2> DEFINE k == Key(scope[r])
  <2>1. k \in CacheKeys /\ (k \in Messages => scope[r].message = k)
    BY KeyIsOfMessage DEF ReadsOK
  <2>2. /\ read[r] = "counted" /\ count' = count /\ raced' = raced
        /\ cache' = cache \/ cache' = [cache EXCEPT ![k] = count[r]]
        /\ \A x \in Reads : read'[x] = "counted" => read[x] = "counted"
    BY <1>8 DEF CacheStats, ReadsOK
  <2> HIDE DEF k
  <2>3. ReadsOK'
    <3>1. read' \in [Reads -> {"new", "miss", "counted", "done", "failed"}]
      BY <1>8 DEF CacheStats, ReadsOK
    <3>2. cache' \in [CacheKeys -> Entries]
      BY <2>2 DEF ReadsOK
    <3>3. QED
      BY <1>1, <2>2, <3>1, <3>2 DEF ReadsOK
  <2>4. \A m : UnderWay(m)' \subseteq UnderWay(m)
    BY <1>8 DEF CacheStats, ReadsOK, UnderWay
  <2>5. /\ count[r].by = r
        /\ scope[r].message \in Messages => count[r] = Counted(r) \/ r \in raced
        /\ r \in UnderWay(scope[r].message)
    BY <2>2 DEF CountsOK, UnderWay
  <2>6. \A m \in Messages : cache'[m] = cache[m] \/ (m = k /\ cache'[m] = count[r])
    BY <2>1, <2>2 DEF ReadsOK, CacheKeys
  <2>7. CountsOK'
    <3>1. \A w \in Votes : step[w] = "invalidated" =>
             cache'[MessageOf(w)] = NoEntry \/ MessageOf(w) \in lost \/ cache'[MessageOf(w)].by \in raced
      <4>1. \A w \in Votes : MessageOf(w) \in Messages
        BY DEF MessageOf, VotesOK, Ballots
      <4>2. \A w \in Votes : step[w] = "invalidated" /\ MessageOf(w) = k => r \in raced
        BY <2>1, <2>5, <4>1 DEF CountsOK, Writing, Locking
      <4>3. QED
        BY <2>5, <2>6, <4>1, <4>2 DEF CountsOK
    <3>2. QED
      BY <1>1, <1>3, <1>4, <2>2, <2>4, <3>1 DEF CountsOK
  <2>8. StaleIsExcused'
    <3> SUFFICES ASSUME NEW m \in Messages
                 PROVE  \/ cache'[m] = NoEntry
                        \/ /\ cache'[m].up = Tally(m, "thumbs_up")'
                           /\ cache'[m].down = Tally(m, "thumbs_down")'
                        \/ m \in lost'
                        \/ cache'[m].by \in raced'
                        \/ \E w \in Votes : step'[w] = "committed" /\ ballot'[w][2] = m
      BY DEF StaleIsExcused
    <3>1. CASE cache'[m] = cache[m]
      BY <1>1, <1>3, <3>1 DEF StaleIsExcused
    <3>2. CASE m = k /\ cache'[m] = count[r]
      <4>1. scope[r].message = m
        BY <2>1, <3>2
      <4>2. count[r] = Counted(r) => /\ count[r].up = Tally(m, "thumbs_up")
                                    /\ count[r].down = Tally(m, "thumbs_down")
        BY <4>1 DEF Counted
      <4>3. QED
        BY <1>3, <2>2, <2>5, <3>2, <4>1, <4>2
    <3>3. QED
      BY <2>6, <3>1, <3>2
  <2>9. QED
    BY <1>2, <2>3, <2>7, <2>8
<1>9. QED
  BY <1>6, <1>7, <1>8 DEF Stats

\* An entry that is gone is not stale.
LEMMA ExpireKeepsInv ==
    ASSUME FeedbackIInv, NEW k \in CacheKeys, Expire(k)
    PROVE  FeedbackIInv'
<1> USE DEF FeedbackIInv
<1>1. /\ UNCHANGED <<ballot, wanted, rows, step, existing, clash, scope, read, count, raced, lost>>
      /\ cache' = [cache EXCEPT ![k] = NoEntry]
  BY DEF Expire, voteVars, readVars
<1>2. VotesOK' /\ RowsOK' /\ LockOK' /\ (lost \subseteq Messages)'
  BY <1>1, VotesStay
<1>3. ReadsOK'
  BY <1>1 DEF ReadsOK, NoEntry, Entries
<1>4. \A m \in Messages : cache'[m] = NoEntry \/ cache'[m] = cache[m]
  BY <1>1 DEF ReadsOK, CacheKeys
<1>5. (\A m, type : Tally(m, type)' = Tally(m, type)) /\ \A x : Counted(x)' = Counted(x)
  BY <1>1, TableStays
<1>6. \A m : UnderWay(m)' = UnderWay(m)
  BY <1>1 DEF UnderWay
<1>7. \A w \in Votes : MessageOf(w)' = MessageOf(w) /\ MessageOf(w) \in Messages
  BY <1>1 DEF MessageOf, VotesOK, Ballots
<1>8. CountsOK'
  BY <1>1, <1>4, <1>5, <1>6, <1>7 DEF CountsOK
<1>9. StaleIsExcused'
  BY <1>1, <1>4, <1>5 DEF StaleIsExcused
<1>10. QED
  BY <1>2, <1>3, <1>8, <1>9

\* Every step keeps the inductive invariant.
LEMMA FeedbackNextKeepsInv == FeedbackIInv /\ [FeedbackNext]_feedbackVars => FeedbackIInv'
<1> SUFFICES ASSUME FeedbackIInv, [FeedbackNext]_feedbackVars
             PROVE  FeedbackIInv'
  OBVIOUS
<1>1. CASE \E v \in Votes : Vote(v)
  BY <1>1, LookKeepsInv, WriteKeepsInv, InvalidateKeepsInv, CommitKeepsInv DEF Vote
<1>2. CASE \E r \in Reads : Stats(r)
  BY <1>2, StatsKeepInv
<1>3. CASE \E k \in CacheKeys : Expire(k)
  BY <1>3, ExpireKeepsInv
<1>4. CASE UNCHANGED feedbackVars
  <2>1. /\ UNCHANGED <<ballot, wanted, rows, step, existing, clash>>
        /\ UNCHANGED <<scope, read, count, cache, raced, lost>>
    BY <1>4 DEF feedbackVars, voteVars, readVars
  <2>2. VotesOK' /\ RowsOK' /\ LockOK' /\ ReadsOK' /\ (lost \subseteq Messages)'
    BY <2>1, VotesStay, Zenon DEF FeedbackIInv, ReadsOK
  <2>3. /\ \A m, type : Tally(m, type)' = Tally(m, type)
        /\ \A x : Counted(x)' = Counted(x)
    BY <2>1, TableStays
  <2>4. \A m : UnderWay(m)' = UnderWay(m) /\ \A w : MessageOf(w)' = MessageOf(w)
    BY <2>1 DEF UnderWay, MessageOf
  <2>5. CountsOK'
    BY <2>1, <2>3, <2>4 DEF FeedbackIInv, CountsOK
  <2>6. StaleIsExcused'
    BY <2>1, <2>3 DEF FeedbackIInv, StaleIsExcused
  <2>7. QED
    BY <2>2, <2>5, <2>6 DEF FeedbackIInv
<1>5. QED
  BY <1>1, <1>2, <1>3, <1>4 DEF FeedbackNext

\* The safety part of the specification is enough.
LEMMA FeedbackAlways == FeedbackInit /\ [][FeedbackNext]_feedbackVars => []FeedbackIsTrue
<1>1. FeedbackInit => FeedbackIInv
  BY FeedbackStarts
<1>2. FeedbackIInv /\ [FeedbackNext]_feedbackVars => FeedbackIInv'
  BY FeedbackNextKeepsInv
<1>3. FeedbackIInv => FeedbackIsTrue
  BY FeedbackIsEnough
<1>4. QED
  BY <1>1, <1>2, <1>3, PTL

(***************************************************************************)
(* A user has one row of a message at most, and the statistics cached      *)
(* under the key of a message are stale only between a commit and its      *)
(* invalidation, after a lost one, or by a read that overlapped a vote on  *)
(* that message: for any number of messages, votes and reads.              *)
(***************************************************************************)
THEOREM FeedbackInvariant == FeedbackSpec => []FeedbackIsTrue
BY FeedbackAlways DEF FeedbackSpec

-----------------------------------------------------------------------------
\* Votes under way.
Active == Looked \cup Writing

\* The way of a vote that removes its row.
Removing == {"toggle", "toggling", "invalidated"}

\* The way of a vote that changes the type of its row.
Changing == {"update", "updating"}

\* What holds of rows and of what a vote found, for votes that overlap, too.
TraceOK ==
    /\ \A v \in Votes : step[v] \in Active => ballot[v][1] \in Known
    /\ \A w \in rows : w.ballot = ballot[w.id] /\ step[w.id] \in {"committed", "on", "failed"}
    /\ \A v \in Votes : step[v] \in Removing \cup Changing =>
          existing[v] \in Votes /\ ballot[existing[v]] = ballot[v]
    /\ \A v, w \in Votes :
          v # w /\ ballot[v] = ballot[w] /\ step[v] \in Active /\ step[w] \in Active => v \in clash

\* The row a vote found has the type the vote wants.
Found(v) == \E w \in rows : w.id = existing[v] /\ w.ballot = ballot[v] /\ w.type = wanted[v]

\* The row a vote found has the other type.
FoundOther(v) == \E w \in rows : w.id = existing[v] /\ w.ballot = ballot[v] /\ w.type # wanted[v]

\* What a vote found is still there if no vote of its user overlaps it.
SoleOK ==
    \A v \in Votes \ clash :
        /\ step[v] \in Removing => Found(v)
        /\ step[v] \in Changing => FoundOther(v)
        /\ step[v] \in {"insert", "inserting"} => RowsOf(ballot[v]) = {}

\* The invariant behind SoleVoteToggles.
SoleIInv == FeedbackIInv /\ TraceOK /\ SoleOK

\* No vote has looked for a row yet.
LEMMA SoleStarts == FeedbackInit => TraceOK /\ SoleOK
BY DEF FeedbackInit, TraceOK, SoleOK, Active, Looked, Writing, Locking, Removing, Changing

\* A vote that looks for the row finds what there is, and who overlaps it, or fails.
LEMMA LookKeepsSole ==
    ASSUME SoleIInv, NEW v \in Votes, Refused(v) \/ Look(v) \/ RollBack(v)
    PROVE  TraceOK' /\ SoleOK'
<1> USE DEF SoleIInv, Active, Looked, Writing, Locking
<1>1. VotesOK /\ RowsOK
  BY DEF FeedbackIInv
<1>2. CASE Refused(v) \/ RollBack(v)
  <2>1. /\ ballot' = ballot /\ wanted' = wanted /\ rows' = rows
        /\ existing' = existing /\ clash' = clash
    BY <1>2 DEF Refused, RollBack
  <2>2. step'[v] = "failed" /\ \A w \in Votes \ {v} : step'[w] = step[w]
    BY <1>1, <1>2 DEF Refused, RollBack, VotesOK
  <2>3. TraceOK'
    BY <1>1, <2>1, <2>2 DEF RowsOK, Rows, TraceOK, Removing, Changing
  <2>4. SoleOK'
    BY <2>1, <2>2 DEF SoleOK, Removing, Changing, Found, FoundOther, RowsOf
  <2>5. QED
    BY <2>3, <2>4
<1>3. CASE Look(v)
  <2>1. /\ UNCHANGED <<ballot, wanted, rows>> /\ step[v] = "new" /\ ballot[v][1] \in Known
        /\ \A w \in Votes \ {v} : step'[w] = step[w] /\ existing'[w] = existing[w]
        /\ clash \subseteq clash'
    BY <1>1, <1>3 DEF Look, VotesOK
  <2>2. \A w \in Votes \ {v} : ballot[w] = ballot[v] /\ step[w] \in Active => {v, w} \subseteq clash'
    BY <1>3 DEF Look, Rivals
  <2>3. \/ step'[v] = "insert" /\ RowsOf(ballot[v]) = {}
        \/ \E w \in RowsOf(ballot[v]) :
              /\ step'[v] = IF w.type = wanted[v] THEN "toggle" ELSE "update"
              /\ existing'[v] = w.id
    BY <1>1, <1>3 DEF Look, VotesOK, RowsOf, RowsOK, Rows
  <2>4. TraceOK'
    <3>1. \A w \in rows : w.id \in Votes /\ w.ballot = ballot[w.id] /\ w.id # v
      BY <1>1, <2>1 DEF RowsOK, Rows, TraceOK
    <3>2. \A w \in rows : w.ballot = ballot'[w.id] /\ step'[w.id] \in {"committed", "on", "failed"}
      BY <2>1, <3>1 DEF TraceOK
    <3>3. \A w \in Votes : step'[w] \in Removing \cup Changing =>
             existing'[w] \in Votes /\ ballot[existing'[w]] = ballot[w]
      BY <2>1, <2>3, <3>1 DEF TraceOK, RowsOf, Removing, Changing
    <3>4. \A x, w \in Votes :
             x # w /\ ballot[x] = ballot[w] /\ step'[x] \in Active /\ step'[w] \in Active => x \in clash'
      BY <2>1, <2>2 DEF TraceOK
    <3>5. \A w \in Votes : step'[w] \in Active => ballot[w][1] \in Known
      BY <2>1 DEF TraceOK
    <3>6. QED
      BY <2>1, <3>2, <3>3, <3>4, <3>5 DEF TraceOK
  <2>5. SoleOK'
    BY <2>1, <2>3 DEF SoleOK, Removing, Changing, Found, FoundOther, RowsOf
  <2>6. QED
    BY <2>4, <2>5
<1>4. QED
  BY <1>2, <1>3

\* Writing and invalidating keep what the vote found.
LEMMA WriteKeepsSole ==
    ASSUME SoleIInv, NEW v \in Votes, Write(v) \/ Invalidate(v)
    PROVE  TraceOK' /\ SoleOK'
<1> USE DEF SoleIInv
<1>1. VotesOK /\ RowsOK
  BY DEF FeedbackIInv
<1>2. UNCHANGED <<ballot, wanted, rows, existing, clash>>
  BY DEF Write, Invalidate
<1>3. /\ \A w \in Votes \ {v} : step'[w] = step[w]
      /\ \/ step[v] = "toggle" /\ step'[v] = "toggling"
         \/ step[v] = "update" /\ step'[v] = "updating"
         \/ step[v] = "insert" /\ step'[v] \in {"inserting", "failed"}
         \/ step[v] = "toggling" /\ step'[v] = "invalidated"
         \/ step[v] = "committed" /\ step'[v] = "on"
  BY <1>1 DEF Write, Invalidate, VotesOK, Looked
<1>4. TraceOK'
  BY <1>1, <1>2, <1>3 DEF RowsOK, Rows, TraceOK, Active, Looked, Writing, Locking, Removing, Changing
<1>5. SoleOK'
  BY <1>2, <1>3 DEF SoleOK, Removing, Changing, Found, FoundOther, RowsOf
<1>6. QED
  BY <1>4, <1>5

\* A commit leaves the rows of other users, and on other messages, as they are.
LEMMA CommitKeepsOthers ==
    ASSUME SoleIInv, NEW v \in Votes, Commit(v)
    PROVE  \A b \in Ballots \ {ballot[v]} : RowsOf(b)' = RowsOf(b)
<1> USE DEF SoleIInv
<1>1. VotesOK /\ RowsOK
  BY DEF FeedbackIInv
<1>2. CASE step[v] = "inserting"
  BY <1>2 DEF Commit, Row, RowsOf
<1>3. CASE step[v] \in {"invalidated", "updating"}
  <2>1. \A w \in rows : w.id = existing[v] => w.ballot = ballot[v]
    BY <1>3 DEF TraceOK, Removing, Changing
  <2>2. CASE step[v] = "invalidated"
    BY <2>1, <2>2 DEF Commit, RowsOf
  <2>3. CASE step[v] = "updating"
    <3>1. rows' = AfterUpdate(v)
      BY <2>3 DEF Commit
    <3>2. \A w \in rows : w.id = existing[v] => [w EXCEPT !.type = wanted[v]].ballot = ballot[v]
      BY <1>1, <2>1 DEF RowsOK, Rows
    <3>3. QED
      BY <2>1, <3>1, <3>2 DEF AfterUpdate, RowsOf
  <2>4. QED
    BY <1>3, <2>2, <2>3
<1>4. QED
  BY <1>2, <1>3 DEF Commit

\* A commit ends the way of its vote; the user's other votes on the message overlapped it.
LEMMA CommitKeepsSole ==
    ASSUME SoleIInv, NEW v \in Votes, Commit(v)
    PROVE  TraceOK' /\ SoleOK'
<1> USE DEF SoleIInv
<1>1. VotesOK /\ RowsOK
  BY DEF FeedbackIInv
<1>2. /\ UNCHANGED <<ballot, wanted, existing, clash>>
      /\ step[v] \in {"invalidated", "updating", "inserting"}
      /\ step'[v] \in {"off", "committed", "failed"} /\ (step'[v] = "off" => step[v] = "invalidated")
      /\ \A w \in Votes \ {v} : step'[w] = step[w]
  BY <1>1 DEF Commit, VotesOK
<1>3. \A w \in rows' : w.id \in Votes /\ w.ballot = ballot[w.id] /\ step'[w.id] \in {"committed", "on", "failed"}
  <2>1. \A w \in rows : w.id \in Votes /\ w.ballot = ballot[w.id] /\ step[w.id] \in {"committed", "on", "failed"}
    BY <1>1 DEF RowsOK, Rows, TraceOK
  <2>2. \A w \in rows : w.id # v
    BY <1>2, <2>1
  <2>3. CASE step[v] = "invalidated"
    BY <1>2, <2>1, <2>2, <2>3 DEF Commit
  <2>4. CASE step[v] = "updating"
    <3>1. rows' = AfterUpdate(v)
      BY <2>4 DEF Commit
    <3>2. \A w \in rows : /\ [w EXCEPT !.type = wanted[v]].id = w.id
                         /\ [w EXCEPT !.type = wanted[v]].ballot = w.ballot
      BY <1>1 DEF RowsOK, Rows
    <3>3. \A y \in rows' : \E w \in rows : y.id = w.id /\ y.ballot = w.ballot
      BY <3>1, <3>2 DEF AfterUpdate
    <3>4. QED
      BY <1>2, <2>1, <2>2, <3>3
  <2>5. CASE step[v] = "inserting"
    BY <1>2, <2>1, <2>2, <2>5 DEF Commit, Row
  <2>6. QED
    BY <1>2, <2>3, <2>4, <2>5
<1>4. TraceOK'
  BY <1>2, <1>3 DEF TraceOK, Active, Looked, Writing, Locking, Removing, Changing
<1>5. SoleOK'
  <2> SUFFICES ASSUME NEW w \in Votes \ clash
               PROVE  /\ step'[w] \in Removing => Found(w)'
                      /\ step'[w] \in Changing => FoundOther(w)'
                      /\ step'[w] \in {"insert", "inserting"} => RowsOf(ballot[w])' = {}
    BY <1>2, Zenon DEF SoleOK
  <2>1. CASE w = v
    BY <1>2, <2>1 DEF Removing, Changing
  <2>2. CASE w # v /\ ballot[w] = ballot[v]
    BY <1>2, <2>2 DEF TraceOK, Active, Looked, Writing, Locking, Removing, Changing
  <2>3. CASE w # v /\ ballot[w] # ballot[v]
    <3>1. RowsOf(ballot[w])' = RowsOf(ballot[w])
      BY <1>1, <1>2, <2>3, CommitKeepsOthers DEF VotesOK
    <3>2. /\ Found(w) <=> \E x \in RowsOf(ballot[w]) : x.id = existing[w] /\ x.type = wanted[w]
          /\ FoundOther(w) <=> \E x \in RowsOf(ballot[w]) : x.id = existing[w] /\ x.type # wanted[w]
          /\ Found(w)' <=> \E x \in RowsOf(ballot[w])' : x.id = existing[w] /\ x.type = wanted[w]
          /\ FoundOther(w)' <=> \E x \in RowsOf(ballot[w])' : x.id = existing[w] /\ x.type # wanted[w]
      BY <1>2 DEF Found, FoundOther, RowsOf
    <3>3. QED
      BY <1>2, <2>3, <3>1, <3>2 DEF SoleOK
  <2>4. QED
    BY <2>1, <2>2, <2>3
<1>6. QED
  BY <1>4, <1>5

\* Every step keeps what a vote found, unless another of its user on its message overlaps it.
LEMMA SoleNextKeepsInv == SoleIInv /\ [FeedbackNext]_feedbackVars => SoleIInv'
<1> SUFFICES ASSUME SoleIInv, [FeedbackNext]_feedbackVars
             PROVE  SoleIInv'
  OBVIOUS
<1>1. FeedbackIInv'
  BY FeedbackNextKeepsInv DEF SoleIInv
<1>2. CASE \E v \in Votes : Vote(v)
  BY <1>1, <1>2, LookKeepsSole, WriteKeepsSole, CommitKeepsSole DEF Vote, SoleIInv
<1>3. CASE UNCHANGED voteVars
  <2>1. /\ ballot' = ballot /\ wanted' = wanted /\ rows' = rows
        /\ step' = step /\ existing' = existing /\ clash' = clash
    BY <1>3 DEF voteVars
  <2>2. TraceOK'
    BY <2>1 DEF SoleIInv, TraceOK
  <2>3. ASSUME NEW v \in Votes \ clash'
        PROVE  /\ step'[v] \in Removing => Found(v)'
               /\ step'[v] \in Changing => FoundOther(v)'
               /\ step'[v] \in {"insert", "inserting"} => RowsOf(ballot[v])' = {}
    <3>1. v \in Votes \ clash
      BY <2>1
    <3>2. /\ step[v] \in Removing => Found(v)
          /\ step[v] \in Changing => FoundOther(v)
          /\ step[v] \in {"insert", "inserting"} => RowsOf(ballot[v]) = {}
      BY <3>1 DEF SoleIInv, SoleOK
    <3>3. (Found(v) <=> Found(v)') /\ (FoundOther(v) <=> FoundOther(v)')
      BY <2>1, Zenon DEF Found, FoundOther
    <3>4. RowsOf(ballot[v])' = RowsOf(ballot[v])
      BY <2>1, Zenon DEF RowsOf
    <3>5. QED
      BY <2>1, <3>2, <3>3, <3>4
  <2>4. SoleOK'
    BY <2>3 DEF SoleOK
  <2>5. QED
    BY <1>1, <2>2, <2>4 DEF SoleIInv
<1>4. QED
  BY <1>2, <1>3 DEF FeedbackNext, feedbackVars, Stats, StartRead, CountRows, CacheStats, Expire

\* What a commit does to the state the user is shown.
LEMMA SoleCommit ==
    ASSUME SoleIInv, NEW v \in Votes \ clash, Commit(v)
    PROVE  /\ Shown(ballot[v])' = Toggled(ballot[v], wanted[v])
           /\ step'[v] # "failed" => (step'[v] = "off" <=> Shown(ballot[v])' = {})
           /\ \A b \in Ballots \ {ballot[v]} : Shown(b)' = Shown(b)
<1> USE DEF SoleIInv
<1>1. VotesOK /\ RowsOK
  BY DEF FeedbackIInv
<1>2. ballot[v][1] \in Known /\ UNCHANGED ballot
  BY DEF Commit, TraceOK, Active, Writing, Locking
<1>3. \A b \in Ballots \ {ballot[v]} : Shown(b)' = Shown(b)
  BY CommitKeepsOthers DEF Shown, TypeOf
<1>4. CASE step[v] = "invalidated"
  <2>1. PICK w \in rows : w.id = existing[v] /\ w.ballot = ballot[v] /\ w.type = wanted[v]
    BY <1>4 DEF SoleOK, Removing, Found
  <2>2. RowsOf(ballot[v]) = {w}
    BY <1>1, <2>1 DEF RowsOK, RowsOf
  <2>3. RowsOf(ballot[v])' = {}
    BY <1>2, <1>4, <2>1, <2>2 DEF Commit, RowsOf
  <2>4. Shown(ballot[v]) = {wanted[v]} /\ Shown(ballot[v])' = {}
    BY <1>2, <2>1, <2>2, <2>3 DEF Shown, TypeOf
  <2>5. QED
    BY <1>1, <1>3, <1>4, <2>4 DEF Commit, Toggled, VotesOK
<1>5. CASE step[v] = "updating"
  <2>1. PICK w \in rows : w.id = existing[v] /\ w.ballot = ballot[v] /\ w.type # wanted[v]
    BY <1>5 DEF SoleOK, Changing, FoundOther
  <2>2. RowsOf(ballot[v]) = {w}
    BY <1>1, <2>1 DEF RowsOK, RowsOf
  <2> DEFINE x == [w EXCEPT !.type = wanted[v]]
  <2>3. x.ballot = ballot[v] /\ x.type = wanted[v]
    BY <1>1, <2>1 DEF RowsOK, Rows
  <2>4. rows' = AfterUpdate(v)
    BY <1>5 DEF Commit
  <2>5. x \in rows'
    BY <2>1, <2>4 DEF AfterUpdate
  <2>6. \A y \in rows' : y.ballot = ballot[v] => y = x
    BY <1>1, <2>3, <2>5, CommitKeepsRows DEF RowsOK
  <2>7. RowsOf(ballot[v])' = {x}
    BY <1>2, <2>3, <2>5, <2>6 DEF RowsOf
  <2>8. Shown(ballot[v]) = {w.type} /\ Shown(ballot[v])' = {wanted[v]}
    <3> HIDE DEF x
    <3>1. Shown(ballot[v]) = {w.type}
      BY <1>2, <2>2 DEF Shown, TypeOf
    <3>2. Shown(ballot[v])' = {x.type}
      BY <1>2, <2>7 DEF Shown, TypeOf
    <3>3. QED
      BY <2>3, <3>1, <3>2
  <2>9. QED
    BY <1>1, <1>3, <1>5, <2>1, <2>8 DEF Commit, Toggled, VotesOK
<1>6. CASE step[v] = "inserting"
  <2>1. RowsOf(ballot[v]) = {}
    BY <1>6 DEF SoleOK
  <2>2. RowsOf(ballot[v])' = {Row(v)}
    BY <1>2, <1>6, <2>1 DEF Commit, RowsOf, Row
  <2>3. Shown(ballot[v]) = {} /\ Shown(ballot[v])' = {wanted[v]}
    BY <1>2, <2>1, <2>2 DEF Shown, TypeOf, Row
  <2>4. QED
    BY <1>1, <1>3, <1>6, <2>3 DEF Commit, Toggled, VotesOK
<1>7. QED
  BY <1>4, <1>5, <1>6 DEF Commit

\* Here, too, no fairness is needed.
LEMMA SoleVotesAlways == FeedbackInit /\ [][FeedbackNext]_feedbackVars => SoleVoteToggles
<1>1. FeedbackInit => SoleIInv
  BY FeedbackStarts, SoleStarts DEF SoleIInv
<1>2. SoleIInv /\ [FeedbackNext]_feedbackVars => SoleIInv'
  BY SoleNextKeepsInv
<1>3. SoleIInv =>
        \A v \in Votes : Commit(v) /\ v \notin clash =>
           /\ Shown(ballot[v])' = Toggled(ballot[v], wanted[v])
           /\ step'[v] # "failed" => (step'[v] = "off" <=> Shown(ballot[v])' = {})
           /\ \A b \in Ballots \ {ballot[v]} : Shown(b)' = Shown(b)
  BY SoleCommit
<1>4. QED
  BY <1>1, <1>2, <1>3, PTL DEF SoleVoteToggles

(***************************************************************************)
(* A vote that no other vote of its user on its message overlaps toggles   *)
(* what the user is shown of that message, and nothing else that anybody   *)
(* is shown: for any number of users, messages and votes.                  *)
(***************************************************************************)
THEOREM SoleVotesToggle == FeedbackSpec => SoleVoteToggles
BY SoleVotesAlways DEF FeedbackSpec

-----------------------------------------------------------------------------
(***************************************************************************)
(* Experiments: every answer of the endpoints is true of the table, for    *)
(* any number of experiments and updates.                                  *)
(***************************************************************************)
\* A row that was stored, and may have been deleted.
Once(e) == status[e] # "none"

\* What connects a row, the answer to its creation and the requests on their way.
RowsAndRequests ==
    /\ \A e \in Exps :
         /\ Once(e) => created[e] \in {"ok", "failed"} /\ body[e] \in {"overweight", "proper"}
         /\ Once(e) /\ body[e] = "overweight" => created[e] = "failed"
    /\ \A e \in listing.rows : Once(e)
    /\ report.answer = "reading" => Readable(report.of)
    /\ \A u \in Updates : update[u] = "read" =>
         /\ Once(target[u][1])
         /\ u \in touched \/ status[target[u][1]] = "deleted"

\* The inductive invariant.
ExpIInv == ExpTypeOK /\ ListingBlame /\ AnswersAreTrue /\ RowsAndRequests

\* The first state has no rows and no answers.
LEMMA ExpStart == ExpInit => ExpIInv
<1> SUFFICES ASSUME ExpInit
             PROVE  ExpIInv
  OBVIOUS
<1>1. samples \in [Exps -> 0..MaxMetrics]
  BY ExperimentAssumption DEF ExpInit
<1>2. target \in [Updates -> Exps \X Statuses]
  BY DEF ExpInit, Statuses
<1>3. ExpTypeOK
  BY <1>1, <1>2 DEF ExpInit, ExpTypeOK
<1>4. ListingBlame /\ AnswersAreTrue /\ RowsAndRequests
  BY DEF ExpInit, ListingBlame, AnswersAreTrue, RowsAndRequests, Once
<1>5. QED
  BY <1>3, <1>4 DEF ExpIInv

\* create_experiment stores a row whose answer may be refused, or none.
LEMMA CreateKeeps ==
    ASSUME ExpIInv, NEW e \in Exps, Create(e)
    PROVE  ExpIInv'
<1>t. ExpTypeOK
  BY DEF ExpIInv
<1>1. /\ created[e] = "unasked" /\ status[e] = "none"
      /\ UNCHANGED <<decoded, body, target, update, touched, broken, listing, report, samples>>
      /\ status' \in [Exps -> Statuses \cup {"none", "deleted"}]
      /\ created' \in [Exps -> {"unasked", "refused", "failed", "ok"}]
      /\ \A x \in Exps \ {e} : created'[x] = created[x] /\ status'[x] = status[x]
      /\ \/ status'[e] = "none"
         \/ created'[e] = "ok" /\ status'[e] = "draft" /\ body[e] = "proper"
         \/ created'[e] = "failed" /\ status'[e] = "draft" /\ body[e] \in {"overweight", "proper"}
  <2>1. created[e] = "unasked" /\ status[e] = "none"
    BY <1>t DEF ExpIInv, RowsAndRequests, Once, Create
  <2>2. UNCHANGED <<decoded, body, target, update, touched, broken, listing, report, samples>>
    BY DEF Create, inputVars, updateVars
  <2>3. PICK answer \in {"refused", "failed", "ok"} : created' = [created EXCEPT ![e] = answer]
    BY DEF Create, CreateAnswer
  <2>4. status' = status \/ status' = [status EXCEPT ![e] = "draft"]
    BY DEF Create
  <2>5. /\ status' \in [Exps -> Statuses \cup {"none", "deleted"}]
        /\ created' \in [Exps -> {"unasked", "refused", "failed", "ok"}]
        /\ \A x \in Exps \ {e} : created'[x] = created[x] /\ status'[x] = status[x]
    BY <1>t, <2>3, <2>4 DEF ExpTypeOK, Statuses
  <2>6. \/ status'[e] = "none"
        \/ created'[e] = "ok" /\ status'[e] = "draft" /\ body[e] = "proper"
        \/ created'[e] = "failed" /\ status'[e] = "draft" /\ body[e] \in {"overweight", "proper"}
    BY <1>t, <2>1 DEF Create, CreateAnswer, ExpTypeOK
  <2>7. QED
    BY <2>1, <2>2, <2>5, <2>6
<1>2. ExpTypeOK'
  BY <1>t, <1>1 DEF ExpTypeOK
<1>3. \A x \in listing.rows : x \in Exps \ {e}
  BY <1>t, <1>1 DEF ExpIInv, RowsAndRequests, Once, ExpTypeOK
<1>4. ListingBlame'
  BY <1>1, <1>3 DEF ExpIInv, ListingBlame, Readable
<1>5. AnswersAreTrue'
  BY <1>t, <1>1 DEF ExpIInv, AnswersAreTrue, ExpTypeOK, Readable
<1>6. RowsAndRequests'
  <2>1. \A x \in Exps : /\ Once(x)' => /\ created'[x] \in {"ok", "failed"}
                                       /\ body[x] \in {"overweight", "proper"}
                        /\ Once(x)' /\ body[x] = "overweight" => created'[x] = "failed"
    BY <1>1 DEF ExpIInv, RowsAndRequests, Once
  <2>2. \A x \in listing.rows : Once(x)'
    BY <1>1, <1>3 DEF ExpIInv, RowsAndRequests, Once
  <2>3. \A u \in Updates : update[u] = "read" =>
           /\ Once(target[u][1])'
           /\ u \in touched \/ status'[target[u][1]] = "deleted"
    BY <1>t, <1>1 DEF ExpIInv, RowsAndRequests, Once, ExpTypeOK
  <2>4. QED
    BY <1>1, <2>1, <2>2, <2>3 DEF ExpIInv, RowsAndRequests, Readable
<1>7. QED
  BY <1>2, <1>4, <1>5, <1>6 DEF ExpIInv

\* A row that is deleted stays so; an answer that named it missing stays true.
LEMMA StatusKeeps ==
    ASSUME ExpIInv, NEW e \in Exps, Once(e),
           UNCHANGED <<inputVars, update, broken, created, listing, report, samples>>,
           touched \subseteq touched', touched' \subseteq Updates,
           \A x \in Exps \ {e} : status'[x] = status[x],
           status'[e] # "none", status[e] = "deleted" => status'[e] = "deleted",
           status' \in [Exps -> Statuses \cup {"none", "deleted"}]
    PROVE  ExpIInv'
<1>t. ExpTypeOK
  BY DEF ExpIInv
<1>1. UNCHANGED <<decoded, body, target, update, broken, created, listing, report, samples>>
  BY DEF inputVars
<1>2. /\ \A x \in Exps : Once(x)' <=> Once(x)
      /\ \A x \in Exps : status[x] = "deleted" => status'[x] = "deleted"
      /\ \A u \in Updates : target[u][1] \in Exps
      /\ report.of \in Exps /\ listing.rows \subseteq Exps
  BY <1>t DEF Once, ExpTypeOK
<1>3. ExpTypeOK'
  BY <1>t, <1>1 DEF ExpTypeOK
<1>4. ListingBlame'
  BY <1>1 DEF ExpIInv, ListingBlame, Readable
<1>5. AnswersAreTrue'
  BY <1>1, <1>2 DEF ExpIInv, AnswersAreTrue, Readable
<1>6. RowsAndRequests'
  BY <1>1, <1>2 DEF ExpIInv, RowsAndRequests, Readable
<1>7. QED
  BY <1>3, <1>4, <1>5, <1>6 DEF ExpIInv

\* The row of an experiment is deleted.
LEMMA DeleteKeeps ==
    ASSUME ExpIInv, NEW e \in Exps, Delete(e)
    PROVE  ExpIInv'
<1>t. ExpTypeOK
  BY DEF ExpIInv
<1>1. /\ Once(e)
      /\ UNCHANGED <<inputVars, update, broken, touched, created, listing, report, samples>>
      /\ \A x \in Exps \ {e} : status'[x] = status[x]
      /\ status'[e] = "deleted"
      /\ status' \in [Exps -> Statuses \cup {"none", "deleted"}]
  BY <1>t DEF Delete, DeletedRow, Stored, ExpTypeOK, Once, updateVars
<1>2. touched' \subseteq Updates /\ touched \subseteq touched'
  BY <1>t, <1>1 DEF ExpTypeOK
<1>3. QED
  BY <1>1, <1>2, StatusKeeps

\* A measurement is added, whether or not the row is there.
LEMMA TrackMetricKeeps ==
    ASSUME ExpIInv, NEW e \in Exps, TrackMetric(e)
    PROVE  ExpIInv'
<1>1. samples' \in [Exps -> 0..MaxMetrics]
  BY ExperimentAssumption DEF ExpIInv, ExpTypeOK, TrackMetric
<1>2. QED
  BY <1>1 DEF TrackMetric, ExpIInv, ExpTypeOK, ListingBlame, AnswersAreTrue, RowsAndRequests,
              Once, Readable, inputVars, updateVars

\* A request for results looks for the row.
LEMMA AskResultsKeeps ==
    ASSUME ExpIInv, NEW e \in Exps, AskResults(e)
    PROVE  ExpIInv'
<1>1. PICK answer \in {"failed", IF Got(e) = "ok" THEN "reading" ELSE Got(e)} :
         report' = [of |-> e, answer |-> answer]
  BY DEF AskResults
<1>2. /\ Once(e)
      /\ UNCHANGED <<decoded, body, target, update, touched, broken, status, created, listing,
                     samples>>
  BY DEF AskResults, Once, inputVars, updateVars
<1>3. /\ Got(e) \in {"missing", "ok", "failed"}
      /\ Got(e) = "missing" => status[e] = "deleted"
      /\ Got(e) = "ok" => Readable(e)
  BY <1>2 DEF Got, Stored, Once, ExpIInv, ExpTypeOK
<1>4. /\ report' \in [of : Exps, answer : {"reading", "missing", "failed"}]
      /\ report'.of = e
      /\ report'.answer = "missing" => status[e] = "deleted"
      /\ report'.answer = "reading" => Readable(e)
  BY <1>1, <1>3
<1>5. QED
  BY <1>2, <1>4 DEF ExpIInv, ExpTypeOK, ListingBlame, AnswersAreTrue, RowsAndRequests, Once, Readable

\* It reads the measurements later.
LEMMA ReadMetricsKeeps ==
    ASSUME ExpIInv, ReadMetrics
    PROVE  ExpIInv'
<1>1. /\ report' \in [of : Exps, answer : {"ok", "failed"}] /\ report'.of = report.of
      /\ report.answer = "reading"
      /\ UNCHANGED <<decoded, body, target, update, touched, broken, status, created, listing,
                     samples>>
  BY DEF ReadMetrics, ExpIInv, ExpTypeOK, inputVars, updateVars
<1>2. QED
  BY <1>1 DEF ExpIInv, ExpTypeOK, ListingBlame, AnswersAreTrue, RowsAndRequests, Once, Readable

\* A listing that the database serves fails exactly when one of its rows cannot be read.
LEMMA ListKeeps ==
    ASSUME ExpIInv, List
    PROVE  ExpIInv'
<1>1. PICK shown \in {{}, Stored} \cup {{e \in Stored : status[e] = s} : s \in Statuses} :
          \/ listing' = [answer |-> ListAnswer(shown), rows |-> shown, error |-> FALSE]
          \/ listing' = [answer |-> "failed", rows |-> {}, error |-> TRUE]
  BY DEF List
<1>2. UNCHANGED <<decoded, body, target, update, touched, broken, status, created, report, samples>>
  BY DEF List, inputVars, updateVars
<1>3. shown \subseteq Stored
  OBVIOUS
<1>4. \A e \in shown : e \in Exps /\ Once(e) /\ (Readable(e) \/ ~decoded \/ created[e] = "failed")
  BY <1>3 DEF Stored, Statuses, Readable, ExpIInv, RowsAndRequests, Once
<1>s. shown \in SUBSET Exps /\ ListAnswer(shown) \in {"ok", "failed"}
  BY <1>4 DEF ListAnswer
<1>5. /\ listing' \in [answer : {"ok", "failed"}, rows : SUBSET Exps, error : BOOLEAN]
      /\ \A e \in listing'.rows : e \in shown
  <2>1. CASE listing' = [answer |-> ListAnswer(shown), rows |-> shown, error |-> FALSE]
    BY <1>s, <2>1
  <2>2. CASE listing' = [answer |-> "failed", rows |-> {}, error |-> TRUE]
    BY <2>2
  <2>3. QED
    BY <1>1, <2>1, <2>2
<1>6. /\ listing'.answer = "failed" /\ ~listing'.error => \E e \in listing'.rows : ~Readable(e)
      /\ listing'.answer = "ok" => \A e \in listing'.rows : Readable(e)
  BY <1>1 DEF ListAnswer
<1>7. ListingBlame'
  BY <1>2, <1>4, <1>5, <1>6 DEF ListingBlame, Readable
<1>8. QED
  BY <1>2, <1>4, <1>5, <1>7 DEF ExpIInv, ExpTypeOK, AnswersAreTrue, RowsAndRequests, Once, Readable

\* The UPDATE writes a row if there is one.
LEMMA WriteStatusKeeps ==
    ASSUME ExpTypeOK, NEW u \in Updates, NEW e \in Exps, NEW s \in Statuses, WriteStatus(u, e, s)
    PROVE  /\ Once(e) /\ status'[e] # "none"
           /\ \A x \in Exps \ {e} : status'[x] = status[x]
           /\ status[e] = "deleted" => status'[e] = "deleted"
           /\ status' \in [Exps -> Statuses \cup {"none", "deleted"}]
           /\ touched \subseteq touched' /\ touched' \subseteq Updates
           /\ u \in touched' \/ status'[e] = "deleted"
<1>s. "none" \notin Statuses /\ "deleted" \notin Statuses
  BY DEF Statuses
<1>1. QED
  BY <1>s DEF ExpTypeOK, WriteStatus, Stored, Once

\* An answer of an update that is true keeps the invariant.
LEMMA AnswerKeeps ==
    ASSUME ExpIInv, NEW u \in Updates, NEW answer \in {"read", "ok", "missing", "failed"},
           update' = [update EXCEPT ![u] = answer],
           broken \subseteq broken', broken' \subseteq Updates,
           UNCHANGED <<inputVars, touched, status, created, listing, report, samples>>,
           answer = "read" => /\ Once(target[u][1])
                              /\ u \in touched \/ status[target[u][1]] = "deleted",
           answer = "ok" => u \in touched,
           answer = "failed" => u \in touched \cup broken',
           answer = "missing" => status[target[u][1]] = "deleted"
    PROVE  ExpIInv'
<1>t. ExpTypeOK
  BY DEF ExpIInv
<1>1. UNCHANGED <<decoded, body, target, touched, status, created, listing, report, samples>>
  BY DEF inputVars
<1>2. /\ update' \in [Updates -> {"new", "read", "ok", "missing", "failed"}]
      /\ update'[u] = answer /\ \A v \in Updates \ {u} : update'[v] = update[v]
  BY <1>t DEF ExpTypeOK
<1>3. ExpTypeOK' /\ ListingBlame'
  BY <1>t, <1>1, <1>2 DEF ExpIInv, ExpTypeOK, ListingBlame, Readable
<1>4. AnswersAreTrue'
  BY <1>1, <1>2 DEF ExpIInv, AnswersAreTrue, Readable
<1>5. RowsAndRequests'
  BY <1>1, <1>2 DEF ExpIInv, RowsAndRequests, Readable, Once
<1>6. QED
  BY <1>3, <1>4, <1>5 DEF ExpIInv

\* An update that writes first, and only then has its answer or its failure.
LEMMA WriteThenAnswer ==
    ASSUME ExpIInv, NEW u \in Updates, NEW answer \in {"read", "failed"},
           WriteStatus(u, target[u][1], target[u][2]),
           update' = [update EXCEPT ![u] = answer],
           answer = "read" => broken' = broken,
           answer = "failed" => broken' = broken \cup {u},
           UNCHANGED <<inputVars, created, listing, report, samples>>
    PROVE  ExpIInv'
<1> DEFINE e == target[u][1]
<1>t. ExpTypeOK
  BY DEF ExpIInv
<1>1. e \in Exps /\ target[u][2] \in Statuses
  BY <1>t DEF ExpTypeOK
<1>2. /\ Once(e) /\ status'[e] # "none"
      /\ \A x \in Exps \ {e} : status'[x] = status[x]
      /\ status[e] = "deleted" => status'[e] = "deleted"
      /\ status' \in [Exps -> Statuses \cup {"none", "deleted"}]
      /\ touched \subseteq touched' /\ touched' \subseteq Updates
      /\ u \in touched' \/ status'[e] = "deleted"
  BY <1>t, <1>1, WriteStatusKeeps
<1>3. UNCHANGED <<decoded, body, target, created, listing, report, samples>>
  BY DEF inputVars
<1>4. /\ update' \in [Updates -> {"new", "read", "ok", "missing", "failed"}]
      /\ update'[u] = answer /\ \A v \in Updates \ {u} : update'[v] = update[v]
      /\ broken \subseteq broken' /\ broken' \subseteq Updates
      /\ answer = "failed" => u \in broken'
  BY <1>t DEF ExpTypeOK
<1>5. /\ \A x \in Exps : Once(x)' <=> Once(x)
      /\ \A x \in Exps : status[x] = "deleted" => status'[x] = "deleted"
      /\ \A v \in Updates : target[v][1] \in Exps
      /\ report.of \in Exps /\ listing.rows \subseteq Exps
  BY <1>t, <1>2 DEF Once, ExpTypeOK
<1>6. ExpTypeOK'
  BY <1>t, <1>2, <1>3, <1>4 DEF ExpTypeOK
<1>7. ListingBlame'
  BY <1>3 DEF ExpIInv, ListingBlame, Readable
<1>8. AnswersAreTrue'
  <2>1. \A v \in Updates : /\ update'[v] = "ok" => v \in touched'
                           /\ update'[v] = "failed" => v \in touched' \cup broken'
                           /\ update'[v] = "missing" => status'[target[v][1]] = "deleted"
    BY <1>2, <1>4, <1>5 DEF ExpIInv, AnswersAreTrue
  <2>2. QED
    BY <1>3, <1>5, <2>1 DEF ExpIInv, AnswersAreTrue, Readable
<1>9. RowsAndRequests'
  <2>1. \A v \in Updates : update'[v] = "read" =>
           status'[target[v][1]] # "none" /\ (v \in touched' \/ status'[target[v][1]] = "deleted")
    <3>1. ASSUME NEW v \in Updates \ {u}, update'[v] = "read"
          PROVE  /\ status'[target[v][1]] # "none"
                 /\ v \in touched' \/ status'[target[v][1]] = "deleted"
      <4>1. target[v][1] \in Exps /\ update[v] = "read"
        BY <1>4, <1>5, <3>1
      <4>2. Once(target[v][1]) /\ (v \in touched \/ status[target[v][1]] = "deleted")
        BY <4>1, <3>1 DEF ExpIInv, RowsAndRequests
      <4>3. Once(target[v][1]) => status'[target[v][1]] # "none"
        BY <4>1, <1>2 DEF Once
      <4>4. QED
        BY <4>1, <4>2, <4>3, <1>2, <1>5
    <3>2. status'[target[u][1]] # "none" /\ (u \in touched' \/ status'[target[u][1]] = "deleted")
      BY <1>2
    <3>3. QED
      BY <3>1, <3>2
  <2>2. \A v \in Updates : update'[v] = "read" =>
           Once(target[v][1])' /\ (v \in touched' \/ status'[target[v][1]] = "deleted")
    BY <1>3, <2>1 DEF Once
  <2>3. QED
    BY <1>3, <1>5, <2>2 DEF ExpIInv, RowsAndRequests, Readable
<1>10. QED
  BY <1>6, <1>7, <1>8, <1>9 DEF ExpIInv

\* An update writes, or fails.
LEMMA StartUpdateKeeps ==
    ASSUME ExpIInv, NEW u \in Updates, StartUpdate(u)
    PROVE  ExpIInv'
BY WriteThenAnswer DEF StartUpdate

\* An update that fails may have been made.
LEMMA BreakUpdateKeeps ==
    ASSUME ExpIInv, NEW u \in Updates, BreakUpdate(u)
    PROVE  ExpIInv'
<1>1. /\ update' = [update EXCEPT ![u] = "failed"] /\ broken' = broken \cup {u}
      /\ UNCHANGED <<inputVars, created, listing, report, samples>>
  BY DEF BreakUpdate
<1>2. CASE WriteStatus(u, target[u][1], target[u][2])
  BY <1>1, <1>2, WriteThenAnswer
<1>3. CASE UNCHANGED <<status, touched>>
  <2>1. broken \subseteq broken' /\ broken' \subseteq Updates /\ u \in touched \cup broken'
    BY <1>1 DEF ExpIInv, ExpTypeOK
  <2>2. QED
    BY <1>1, <1>3, <2>1, AnswerKeeps
<1>4. QED
  BY <1>2, <1>3 DEF BreakUpdate

\* The row is read again, whatever has happened to it meanwhile.
LEMMA FinishUpdateKeeps ==
    ASSUME ExpIInv, NEW u \in Updates, FinishUpdate(u)
    PROVE  ExpIInv'
<1> DEFINE e == target[u][1]
<1>t. ExpTypeOK
  BY DEF ExpIInv
<1>1. /\ update[u] = "read" /\ broken \subseteq Updates
      /\ UNCHANGED <<inputVars, touched, status, created, listing, report, samples>>
  BY <1>t DEF FinishUpdate, ExpTypeOK
<1>2. e \in Exps /\ Once(e) /\ (u \in touched \/ status[e] = "deleted")
  BY <1>t, <1>1 DEF ExpTypeOK, ExpIInv, RowsAndRequests
<1>3. /\ Got(e) \in {"missing", "ok", "failed"}
      /\ Got(e) # "missing" => u \in touched
      /\ Got(e) = "missing" => status[e] = "deleted"
  BY <1>t, <1>2 DEF Got, Stored, Statuses, Once, ExpTypeOK
<1>4. CASE update' = [update EXCEPT ![u] = Got(e)] /\ UNCHANGED broken
  BY <1>1, <1>3, <1>4, AnswerKeeps
<1>5. CASE update' = [update EXCEPT ![u] = "failed"] /\ broken' = broken \cup {u}
  BY <1>1, <1>5, AnswerKeeps
<1>6. QED
  BY <1>4, <1>5 DEF FinishUpdate

\* Every step keeps the inductive invariant.
LEMMA ExpStep == ExpIInv /\ [ExpNext]_expVars => ExpIInv'
<1> SUFFICES ASSUME ExpIInv, [ExpNext]_expVars
             PROVE  ExpIInv'
  OBVIOUS
<1>1. CASE UNCHANGED expVars
  BY <1>1 DEF expVars, inputVars, updateVars, ExpIInv, ExpTypeOK, ListingBlame, AnswersAreTrue,
              RowsAndRequests, Once, Readable
<1>2. QED
  BY <1>1, CreateKeeps, DeleteKeeps, TrackMetricKeeps, AskResultsKeeps, ListKeeps,
     ReadMetricsKeeps, StartUpdateKeeps, BreakUpdateKeeps, FinishUpdateKeeps DEF ExpNext

(***************************************************************************)
(* What the endpoints answered is true of the table, and a listing that    *)
(* the database serves fails only by a row that was stored before its      *)
(* answer was refused, or by a body that cannot be decoded: for any number *)
(* of experiments and updates.                                             *)
(***************************************************************************)
THEOREM ExperimentsInvariant == ExpSpec => []ExpInv
<1>1. ExpIInv => ExpInv
  BY DEF ExpIInv, ExpInv
<1>2. QED
  BY <1>1, ExpStart, ExpStep, PTL DEF ExpSpec

-----------------------------------------------------------------------------
(***************************************************************************)
(* The statistics of experiments, for any weights that fill the hundred,   *)
(* any batch and any number of samples.                                    *)
(***************************************************************************)
\* The inductive invariant: the measurements are counts.
StatsIInv ==
    /\ weights \in Weightings
    /\ measured \in [Variants -> Nat]
    /\ gap \in Nat

\* The first state has weights that fill the hundred at most.
LEMMA StatsStart == StatsInit => StatsIInv
BY StatsAssumption DEF StatsInit, StatsIInv

\* Only the number of samples and the gap change.
LEMMA StatsStep == StatsIInv /\ [StatsNext]_statsVars => StatsIInv'
BY StatsAssumption DEF StatsIInv, StatsNext, TrackMetrics, statsVars

\* A bucket belongs to the variant between whose borders it is, and to the
\* first one beyond the last border.
LEMMA AssignedBetweenBorders ==
    ASSUME NEW ws \in Seq(Nat), NEW n \in DOMAIN ws, NEW b \in Nat
    PROVE  AssignVariant(ws, b) = n <=>
               \/ Cumulative(ws, n - 1) <= b /\ b < Cumulative(ws, n)
               \/ n = 1 /\ Cumulative(ws, Len(ws)) <= b
<1> DEFINE c == RunningSum(ws)
           L == Len(ws)
           reached == {m \in 1..L : b < c[m]}
<1>1. /\ L \in Nat /\ DOMAIN ws = 1..L /\ n \in 1..L
      /\ \A k \in 0..L : c[k] \in Nat
      /\ c[0] = 0
      /\ \A k, l \in 0..L : k <= l => c[k] <= c[l]
  <2>1. L \in Nat /\ DOMAIN ws = 1..L
    OBVIOUS
  <2>2. IsRunningSum(c, ws, L)
    BY RunningSumIs
  <2>3. \A k, l \in 0..L : k <= l => c[k] <= c[l]
    BY RunningSumGrows
  <2> HIDE DEF c, L
  <2>4. QED
    BY <2>1, <2>2, <2>3 DEF IsRunningSum
<1>2. AssignVariant(ws, b) =
          IF reached = {} THEN 1 ELSE CHOOSE m \in reached : \A k \in reached : m <= k
  <2> DEFINE below == {m \in DOMAIN ws : Reaches(b, ws, m)}
  <2>1. below = reached
    BY <1>1 DEF Reaches, Cumulative
  <2>2. AssignVariant(ws, b) =
          IF below = {} THEN 1 ELSE CHOOSE m \in below : \A k \in below : m <= k
    BY Zenon DEF AssignVariant
  <2> HIDE DEF below, reached
  <2>3. QED
    BY <2>1, <2>2
<1> HIDE DEF c, L
<1>3. CASE reached = {}
  <2>1. \A m \in 1..L : c[m] <= b
    BY <1>1, <1>3
  <2>2. ~(b < c[n]) /\ c[L] <= b
    BY <2>1, <1>1
  <2>3. QED
    BY <1>2, <1>3, <2>2 DEF Cumulative, c, L
<1>4. CASE reached # {}
  <2>1. reached \in SUBSET Nat
    BY <1>1
  <2>2. PICK m \in reached : \A k \in reached : m <= k
    BY <1>4, <2>1, LeastNumber
  <2>3. AssignVariant(ws, b) = m
    <3>1. \A x \in reached : (\A k \in reached : x <= k) => x = m
      BY <2>1, <2>2
    <3>2. QED
      BY <1>2, <1>4, <2>2, <3>1
  <2>4. m \in 1..L /\ b < c[m] /\ b < c[L]
    BY <1>1, <2>2
  <2>5. c[m - 1] <= b
    <3>1. CASE m = 1
      BY <3>1, <1>1
    <3>2. CASE m # 1
      <4>1. m - 1 \in 1..L /\ m - 1 \notin reached
        BY <3>2, <2>4, <2>2, <1>1
      <4>2. QED
        BY <4>1, <1>1
    <3>3. QED
      BY <3>1, <3>2
  <2>6. c[n - 1] <= b /\ b < c[n] => n = m
    <3>1. ASSUME c[n - 1] <= b, b < c[n], n < m
          PROVE  FALSE
      BY <3>1, <1>1, <2>2
    <3>2. ASSUME c[n - 1] <= b, b < c[n], m < n
          PROVE  FALSE
      <4>1. m \in 0..L /\ n - 1 \in 0..L /\ m <= n - 1
        BY <3>2, <2>4, <1>1
      <4>2. QED
        BY <4>1, <3>2, <2>4, <1>1
    <3>3. QED
      BY <3>1, <3>2, <2>4, <1>1
  <2>7. ~(n = 1 /\ c[L] <= b)
    BY <2>4, <1>1
  <2>8. n = m => c[n - 1] <= b /\ b < c[n]
    BY <2>4, <2>5
  <2>9. AssignVariant(ws, b) = n <=> (c[n - 1] <= b /\ b < c[n]) \/ (n = 1 /\ c[L] <= b)
    BY <2>3, <2>6, <2>7, <2>8
  <2>10. QED
    BY <2>9 DEF Cumulative, c, L
<1>5. QED
  BY <1>3, <1>4

\* Each variant has as many buckets as its weight, and the first one those that are left
\* over.
LEMMA SharesAreExact ==
    ASSUME NEW ws \in Seq(Nat), NEW n \in DOMAIN ws
    PROVE  Cardinality({b \in Buckets : AssignVariant(ws, b) = n}) =
               Share(ws, n) + IF n = 1 THEN 100 - Least(100, Cumulative(ws, Len(ws))) ELSE 0
<1> DEFINE c == RunningSum(ws)
           lo == c[n - 1]
           hi == c[n]
           end == c[Len(ws)]
           u == Least(100, lo)
           v == Least(100, hi)
           w == Least(100, end)
           got == {b \in Buckets : AssignVariant(ws, b) = n}
<1>1. n \in 1..Len(ws) /\ Len(ws) \in Nat /\ n - 1 \in 0..Len(ws) /\ n \in 0..Len(ws)
      /\ Len(ws) \in 0..Len(ws)
  OBVIOUS
<1>2. lo \in Nat /\ hi \in Nat /\ end \in Nat /\ lo <= hi /\ hi <= end
  <2>1. c \in [0..Len(ws) -> Nat]
    BY RunningSumIs DEF IsRunningSum
  <2>2. lo <= hi
    BY <1>1, RunningSumGrows
  <2>3. hi <= end
    BY <1>1, RunningSumGrows
  <2> HIDE DEF c
  <2>4. QED
    BY <1>1, <2>1, <2>2, <2>3
<1>3. \A b \in Buckets : b \in got <=> (lo <= b /\ b < hi) \/ (n = 1 /\ end <= b)
  BY AssignedBetweenBorders DEF Buckets, Cumulative
<1>4. Share(ws, n) = v - u
  BY DEF Share, Cumulative
<1>g. got \subseteq Buckets
  OBVIOUS
<1> HIDE DEF c, lo, hi, end, got
<1>5. /\ u \in 0..100 /\ v \in 0..100 /\ w \in 0..100 /\ u <= v /\ v <= w
      /\ \A b \in 0..99 : (lo <= b /\ b < hi) <=> (u <= b /\ b < v)
      /\ \A b \in 0..99 : end <= b <=> w <= b
  BY <1>2 DEF Least
<1>i. u \in Int /\ v \in Int /\ w \in Int /\ 0 <= u /\ u <= v /\ v <= w /\ w <= 100
  BY <1>2 DEF Least
<1>w. w = Least(100, Cumulative(ws, Len(ws)))
  BY DEF Cumulative, c, end
<1> HIDE DEF u, v, w
<1>6. /\ IsFiniteSet(u..(v - 1)) /\ Cardinality(u..(v - 1)) = v - u
      /\ IsFiniteSet(w..99) /\ Cardinality(w..99) = 100 - w
      /\ (u..(v - 1)) \cap (w..99) = {}
  <2>0. u \in Int /\ v - 1 \in Int /\ w \in Int /\ 99 \in Int
    BY <1>5
  <2>1. Cardinality(u..(v - 1)) = IF u > v - 1 THEN 0 ELSE (v - 1) - u + 1
    BY <2>0, FS_Interval
  <2>2. Cardinality(w..99) = IF w > 99 THEN 0 ELSE 99 - w + 1
    BY <2>0, FS_Interval
  <2>3. IsFiniteSet(u..(v - 1)) /\ IsFiniteSet(w..99)
    BY <2>0, FS_Interval
  <2>4. Cardinality(u..(v - 1)) = v - u /\ Cardinality(w..99) = 100 - w
    BY <1>i, <2>1, <2>2
  <2>5. \A b : ~(b \in u..(v - 1) /\ b \in w..99)
    BY <1>i
  <2>6. QED
    BY <2>3, <2>4, <2>5
<1>7. Cardinality((u..(v - 1)) \cup (w..99)) = (v - u) + (100 - w)
  <2>1. Cardinality((u..(v - 1)) \cap (w..99)) = 0
    BY <1>6, FS_EmptySet
  <2>2. Cardinality((u..(v - 1)) \cup (w..99)) =
            Cardinality(u..(v - 1)) + Cardinality(w..99) - Cardinality((u..(v - 1)) \cap (w..99))
    BY <1>6, FS_Union
  <2>3. QED
    BY <1>i, <1>6, <2>1, <2>2
<1>8. /\ \A b \in 0..99 : b \in u..(v - 1) <=> (u <= b /\ b < v)
      /\ \A b \in 0..99 : b \in w..99 <=> w <= b
      /\ u..(v - 1) \subseteq 0..99 /\ w..99 \subseteq 0..99 /\ got \subseteq 0..99
  BY <1>i, <1>g DEF Buckets
<1>9. \A b \in 0..99 : b \in got <=> b \in u..(v - 1) \/ (n = 1 /\ b \in w..99)
  BY <1>3, <1>5, <1>8 DEF Buckets
<1>10. Cardinality(got) = (v - u) + IF n = 1 THEN 100 - w ELSE 0
  <2>1. CASE n = 1
    <3>1. got = (u..(v - 1)) \cup (w..99)
      BY <1>8, <1>9, <2>1
    <3>2. QED
      BY <1>7, <2>1, <3>1
  <2>2. CASE n # 1
    <3>1. got = u..(v - 1)
      BY <1>8, <1>9, <2>2
    <3>2. QED
      BY <1>5, <1>6, <2>2, <3>1
  <2>3. QED
    BY <2>1, <2>2
<1>11. QED
  BY <1>4, <1>10, <1>w DEF got

\* More measurements exceed a level that fewer did.
LEMMA MoreExceeds ==
    ASSUME NEW a \in Nat, NEW s \in Nat,
           NEW n \in Nat, NEW m \in Nat, NEW N \in Nat, NEW M \in Nat,
           n <= N, m <= M, a * n * m > s * (n + m)
    PROVE  a * N * M > s * (N + M)
<1>1. ASSUME NEW x \in Nat, NEW y \in Nat, NEW X \in Nat, x <= X, a * x * y > s * (x + y)
      PROVE  a * X * y > s * (X + y)
  <2> DEFINE k == a * y - s
  <2>1. k \in Int /\ k * x > s * y /\ s * y >= 0
    BY <1>1
  <2>2. k > 0
    BY <2>1, <1>1
  <2>3. k * X >= k * x
    BY <2>1, <2>2, <1>1
  <2>4. k * X > s * y
    <3> HIDE DEF k
    <3>1. k * X \in Int /\ k * x \in Int /\ s * y \in Int
      BY <2>1
    <3>2. QED
      BY <2>1, <2>3, <3>1
  <2>5. QED
    BY <2>4
<1>2. a * N * m > s * (N + m)
  BY <1>1
<1>3. a * m * N > s * (m + N)
  BY <1>2
<1>4. a * M * N > s * (M + N)
  BY <1>1, <1>3
<1>5. QED
  BY <1>4

\* More measurements at one gap are as significant at least.
LEMMA SignificanceIsMonotone ==
    ASSUME NEW n \in Nat, NEW m \in Nat, NEW N \in Nat, NEW M \in Nat, NEW d \in Nat,
           n <= N, m <= M
    PROVE  Significance(n, m, d) <= Significance(N, M, d)
<1>1. ASSUME NEW square \in Nat, Exceeds(n, m, d, square)
      PROVE  Exceeds(N, M, d, square)
  <2> DEFINE a == d * d * 10
  <2>1. a \in Nat /\ a * n * m > square * (n + m)
    BY <1>1 DEF Exceeds
  <2>2. a * N * M > square * (N + M)
    <3> HIDE DEF a
    <3>1. QED
      BY <2>1, MoreExceeds
  <2>3. QED
    BY <2>2 DEF Exceeds
<1>2. \A square \in {6636, 3842, 2706} : Exceeds(n, m, d, square) => Exceeds(N, M, d, square)
  BY <1>1
<1>3. QED
  BY <1>2 DEF Significance, MinSamples

\* The invariant and the lemmas on shares and significance are what the runs check.
LEMMA StatsAreRight == StatsIInv => StatsInv
<1> SUFFICES ASSUME StatsIInv
             PROVE  StatsInv
  OBVIOUS
<1>1. SplitMatchesWeights
  BY StatsAssumption, SharesAreExact DEF StatsIInv, SplitMatchesWeights
<1>2. \A v \in Variants : measured[v] \in Nat
  BY DEF StatsIInv
<1>3. measured["control"] \in Nat /\ measured["treatment"] \in Nat /\ gap \in Nat
  BY <1>2 DEF StatsIInv, Variants
<1>4. Results >= 90 => \A v \in Variants : measured[v] >= MinSamples
  BY <1>3 DEF Results, Significance, Variants, MinSamples
<1>5. \A n \in 0..measured["control"], m \in 0..measured["treatment"] :
          Significance(n, m, gap) <= Significance(measured["control"], measured["treatment"], gap)
  BY <1>3, SignificanceIsMonotone
<1>6. QED
  BY <1>1, <1>4, <1>5 DEF StatsInv, SignificanceGrows

(***************************************************************************)
(* The buckets are divided by the weights, exactly, what they leave of the *)
(* hundred going to the first variant; more measurements at one distance   *)
(* of the averages never make a result less significant: for any weights,  *)
(* batch and gap.                                                          *)
(***************************************************************************)
THEOREM StatsInvariant == StatsSpec => []StatsInv
<1>1. StatsIInv => StatsInv
  BY StatsAreRight
<1>2. QED
  BY <1>1, StatsStart, StatsStep, PTL DEF StatsSpec

-----------------------------------------------------------------------------
(***************************************************************************)
(* The rollout: its history is a chain, for any length of it.              *)
(***************************************************************************)
(***************************************************************************)
(* Rollout.                                                                *)
(***************************************************************************)
\* The inductive invariant: as long as gradual_rollout has not been called, the
\* history ends at the present stage.
RolloutIInv ==
    /\ stage \in Stages
    /\ stage_history \in Seq(Stages \X Stages)
    /\ HistoryIsContinuous
    /\ request = NoRequest =>
         stage = IF stage_history = <<>> THEN 1 ELSE stage_history[Len(stage_history)][2]

\* The stages are numbered from 1 to 5.
LEMMA FiveStages == Stages = 1..5 /\ Len(STAGE_ORDER) = 5
BY DEF Stages, STAGE_ORDER

\* A move appends the stage it leaves and the one it goes to.
LEMMA MoveKeeps ==
    ASSUME RolloutIInv, NEW to \in Stages, to = stage + 1 \/ to = stage - 1, Move(to)
    PROVE  RolloutIInv'
<1> DEFINE n == Len(stage_history)
           H == stage_history
           G == stage_history'
<1>1. /\ stage \in 1..5 /\ to \in 1..5 /\ stage \in Stages
      /\ H \in Seq(Stages \X Stages)
      /\ stage' = to /\ G = Append(H, <<stage, to>>) /\ request' = request
  BY FiveStages DEF RolloutIInv, Move, Entry
<1>2. /\ G \in Seq(Stages \X Stages) /\ Len(G) = n + 1 /\ n \in Nat
      /\ \A i \in 1..n : G[i] = H[i]
      /\ G[n + 1] = <<stage, to>>
      /\ DOMAIN H = 1..n /\ DOMAIN G = 1..(n + 1)
  BY <1>1
<1> HIDE DEF n, G, H
<1>3. \A i \in 1..(n + 1) : G[i][2] - G[i][1] \in {-1, 1}
  <2>1. \A i \in 1..n : H[i][2] - H[i][1] \in {-1, 1}
    BY <1>2 DEF RolloutIInv, HistoryIsContinuous, H
  <2>2. G[n + 1][2] - G[n + 1][1] \in {-1, 1}
    BY <1>1, <1>2
  <2>3. QED
    BY <1>2, <2>1, <2>2
<1>4. ASSUME request = NoRequest, NEW i \in 1..(n + 1)
      PROVE  G[i][1] = IF i = 1 THEN 1 ELSE G[i - 1][2]
  <2>1. /\ \A j \in 1..n : H[j][1] = IF j = 1 THEN 1 ELSE H[j - 1][2]
        /\ stage = IF H = <<>> THEN 1 ELSE H[n][2]
    BY <1>2, <1>4 DEF RolloutIInv, HistoryIsContinuous, H, n
  <2>2. CASE i = n + 1
    <3>1. H = <<>> <=> n = 0
      BY <1>1, <1>2 DEF n
    <3>2. QED
      BY <2>1, <2>2, <3>1, <1>2, <1>1
  <2>3. CASE i # n + 1
    <3>1. i \in 1..n /\ (i # 1 => i - 1 \in 1..n)
      BY <2>3, <1>2
    <3>2. QED
      BY <3>1, <2>1, <1>2
  <2>4. QED
    BY <2>2, <2>3
<1>5. stage' = IF G = <<>> THEN 1 ELSE G[Len(G)][2]
  BY <1>1, <1>2
<1>6. QED
  BY <1>1, <1>2, <1>3, <1>4, <1>5 DEF RolloutIInv, HistoryIsContinuous, G

\* The first state is stage 1, without a history.
LEMMA RolloutStart == RolloutInit => RolloutIInv
BY FiveStages DEF RolloutInit, RolloutIInv, HistoryIsContinuous, NoRequest

\* Every step keeps the inductive invariant.
LEMMA RolloutStep == RolloutIInv /\ [RolloutNext]_rolloutVars => RolloutIInv'
<1> SUFFICES ASSUME RolloutIInv, [RolloutNext]_rolloutVars
             PROVE  RolloutIInv'
  OBVIOUS
<1>t. stage \in 1..5
  BY FiveStages DEF RolloutIInv
<1>1. CASE AdvanceRollout
  <2>1. stage + 1 \in Stages
    BY <1>1, <1>t, FiveStages DEF AdvanceRollout
  <2>2. QED
    BY <1>1, <2>1, MoveKeeps DEF AdvanceRollout
<1>2. CASE RollbackRollout
  <2>1. stage - 1 \in Stages
    BY <1>2, <1>t, FiveStages DEF RollbackRollout
  <2>2. QED
    BY <1>2, <2>1, MoveKeeps DEF RollbackRollout
<1>3. ASSUME NEW current \in Stages, NEW goal \in Stages, GradualRollout(current, goal)
      PROVE  RolloutIInv'
  <2>1. current \in 1..5 /\ goal \in 1..5
    BY FiveStages
  <2>2. request' # NoRequest
    BY <1>3, <2>1 DEF GradualRollout, NoRequest
  <2>3. stage' \in Stages
    BY <1>3, <1>t, <2>1, FiveStages DEF GradualRollout
  <2>4. stage_history' = stage_history
    BY <1>3 DEF GradualRollout
  <2>5. QED
    BY <2>2, <2>3, <2>4 DEF RolloutIInv, HistoryIsContinuous
<1>4. CASE UNCHANGED rolloutVars
  BY <1>4 DEF rolloutVars, RolloutIInv, HistoryIsContinuous
<1>5. QED
  BY <1>1, <1>2, <1>3, <1>4 DEF RolloutNext

(***************************************************************************)
(* Every entry of the rollout's history is one stage up or down, and       *)
(* begins where the one before it ended unless gradual_rollout has been    *)
(* called: for any length of the history.                                  *)
(***************************************************************************)
THEOREM RolloutHistory == RolloutSpec => []HistoryIsContinuous
<1>1. RolloutIInv => HistoryIsContinuous
  BY DEF RolloutIInv
<1>2. QED
  BY <1>1, RolloutStart, RolloutStep, PTL DEF RolloutSpec

-----------------------------------------------------------------------------
(***************************************************************************)
(* Start-up and authentication, for any number of callers, customers and   *)
(* restarts.                                                               *)
(***************************************************************************)
\* What is true of a process on its way to serving: each client before the
\* current position is decided, and the flag knows of those that RAG needs.
WiringIsSound ==
    /\ process \in {"agent", "wiring", "serving"} => pool = "open"
    /\ process \in {"wiring", "serving"} => agent
    /\ process \in {"agent", "wiring", "serving"} =>
         /\ \A i \in 1..7 : client[Wiring[i]] # "unset" <=> i < wired
         /\ rag_ready <=> \A i \in 1..7 :
                i < wired /\ Wiring[i] \in Needed => client[Wiring[i]] = "client"
    /\ process = "agent" => wired = 1
    /\ process = "serving" => /\ wired = 8
                              /\ announced = IF rag_ready THEN "full" ELSE "chat-only"
    /\ process = "down" => wired = 1 /\ rag_ready /\ client = [d \in Clients |-> "unset"]

\* The inductive invariant.
StartupIInv ==
    /\ StartupTypeOK
    /\ WiringIsSound
    /\ \A c \in suspect : caller[c] \in {"unauthorized"}

\* The positions of the seven clients, all different.
LEMMA SevenClients ==
    /\ Len(Wiring) = 7 /\ DOMAIN Wiring = 1..7
    /\ Clients = {Wiring[i] : i \in 1..7}
    /\ \A i, j \in 1..7 : Wiring[i] = Wiring[j] => i = j
    /\ Wiring[4] = "embedding" /\ Wiring[6] = "collection"
    /\ \A i \in 1..7 : Wiring[i] \in Needed <=> i \in {4, 6}
BY DEF Wiring, Clients, Needed

\* The first state has started nothing.
LEMMA StartupStart == StartupInit => StartupIInv
<1> SUFFICES ASSUME StartupInit
             PROVE  StartupIInv
  OBVIOUS
<1>1. StartupTypeOK
  <2>1. starts \in 0..MaxStarts /\ wired \in 1..(Len(Wiring) + 1)
    BY StartupAssumption, SevenClients DEF StartupInit
  <2>2. QED
    BY <2>1 DEF StartupInit, StartupTypeOK
<1>2. WiringIsSound
  BY DEF StartupInit, WiringIsSound
<1>3. QED
  BY <1>1, <1>2 DEF StartupInit, StartupIInv

\* The inductive invariant is stronger than what the runs check.
LEMMA ServingIsComplete == StartupIInv => StartupInv
<1> SUFFICES ASSUME StartupIInv
             PROVE  StartupInv
  OBVIOUS
<1>1. ASSUME process = "serving"
      PROVE  /\ pool = "open" /\ agent /\ \A d \in Clients : client[d] # "unset"
             /\ announced = "full" <=> HasRag
  BY <1>1, SevenClients DEF StartupIInv, WiringIsSound, HasRag
<1>2. QED
  BY <1>1 DEF StartupIInv, StartupInv

\* The next client of the wiring is made or left out, and the others stay as they are.
LEMMA WireKeeps ==
    ASSUME StartupIInv, NEW made \in BOOLEAN, Wire(made)
    PROVE  StartupIInv'
<1>1. /\ process = "wiring" /\ wired \in 1..7 /\ wired' = wired + 1
      /\ Wiring[wired] \in Clients
      /\ client' \in [Clients -> {"unset", "client", "none"}]
      /\ client'[Wiring[wired]] = IF made THEN "client" ELSE "none"
      /\ \A i \in 1..7 : i # wired => client'[Wiring[i]] = client[Wiring[i]]
      /\ rag_ready' = (rag_ready /\ (made \/ Wiring[wired] \notin Needed))
      /\ UNCHANGED <<process, pool, agent, announced, starts, active, caller, suspect>>
  BY SevenClients DEF StartupIInv, StartupTypeOK, Wire, Outside
<1>2. StartupTypeOK'
  BY <1>1, SevenClients DEF StartupIInv, StartupTypeOK
<1>3. /\ \A i \in 1..7 : client'[Wiring[i]] # "unset" <=> i < wired'
      /\ rag_ready' <=> \A i \in 1..7 :
                i < wired' /\ Wiring[i] \in Needed => client'[Wiring[i]] = "client"
  <2>1. \A i \in 1..7 : i < wired' <=> i < wired \/ i = wired
    BY <1>1
  <2>2. /\ \A i \in 1..7 : client[Wiring[i]] # "unset" <=> i < wired
        /\ rag_ready <=> \A i \in 1..7 :
               i < wired /\ Wiring[i] \in Needed => client[Wiring[i]] = "client"
    BY <1>1 DEF StartupIInv, WiringIsSound
  <2>3. \A i \in 1..7 : i < wired => i # wired
    BY <1>1
  <2>4. client'[Wiring[wired]] # "unset" /\ (client'[Wiring[wired]] = "client" <=> made)
    BY <1>1
  <2>5. \A i \in 1..7 : client'[Wiring[i]] # "unset" <=> i < wired'
    BY <1>1, <2>1, <2>2, <2>3, <2>4
  <2>6. (\A i \in 1..7 : i < wired' /\ Wiring[i] \in Needed => client'[Wiring[i]] = "client")
        <=> /\ \A i \in 1..7 : i < wired /\ Wiring[i] \in Needed => client[Wiring[i]] = "client"
            /\ Wiring[wired] \in Needed => made
    BY <1>1, <2>1, <2>3, <2>4
  <2>7. QED
    BY <1>1, <2>2, <2>5, <2>6
<1>4. WiringIsSound'
  <2>1. process' = "wiring"
    BY <1>1
  <2>2. pool' = "open" /\ agent'
    BY <1>1 DEF StartupIInv, WiringIsSound
  <2>3. QED
    BY <2>1, <2>2, <1>3 DEF WiringIsSound
<1>5. QED
  BY <1>1, <1>2, <1>4 DEF StartupIInv

\* Every step keeps the inductive invariant.
LEMMA StartupStep == StartupIInv /\ [StartupNext]_startupVars => StartupIInv'
<1> SUFFICES ASSUME StartupIInv, [StartupNext]_startupVars
             PROVE  StartupIInv'
  OBVIOUS
<1>t. StartupTypeOK /\ WiringIsSound
  BY DEF StartupIInv
<1>w. Clients = {Wiring[i] : i \in 1..7} /\ Len(Wiring) = 7
  BY SevenClients
<1> USE DEF StartupIInv, StartupTypeOK, WiringIsSound
<1>1. CASE Start
  <2>1. starts' \in 0..MaxStarts
    BY <1>1, StartupAssumption DEF Start
  <2>2. \A i \in 1..7 : client'[Wiring[i]] = "unset" /\ ~(i < wired')
    BY <1>1, <1>w DEF Start
  <2>3. QED
    BY <1>1, <2>1, <2>2 DEF Start
<1>2. CASE BuildAgent
  BY <1>2, <1>w DEF BuildAgent, Outside
<1>3. CASE Serve
  BY <1>3, <1>w DEF Serve, Outside
<1>4. CASE Shutdown
  BY <1>4, <1>w DEF Shutdown, Outside
<1>5. CASE Exit
  <2>1. wired' \in 1..(Len(Wiring) + 1)
    BY <1>5, <1>w DEF Exit
  <2>2. caller' \in [Callers -> {"new", "checking", "admitted", "unauthorized", "dropped"}]
    BY <1>5 DEF Exit
  <2>3. \A c \in suspect : caller'[c] = "unauthorized"
    BY <1>5 DEF Exit
  <2>4. QED
    BY <1>5, <2>1, <2>2, <2>3 DEF Exit
<1>6. ASSUME NEW made \in BOOLEAN, Wire(made)
      PROVE  StartupIInv'
  BY <1>6, WireKeeps
<1>7. ASSUME NEW c \in Callers, NEW bearer \in BOOLEAN, Call(c, bearer)
      PROVE  StartupIInv'
  BY <1>7, <1>w DEF Call, processVars
<1>8. ASSUME NEW c \in Callers, NEW t \in Customers, Authenticate(c, t)
      PROVE  StartupIInv'
  BY <1>8, <1>w DEF Authenticate, processVars, Accepted
<1>9. ASSUME NEW c \in Callers, Unknown(c)
      PROVE  StartupIInv'
  BY <1>9, <1>w DEF Unknown, processVars
<1>10. ASSUME NEW t \in Customers, ChangeStatus(t)
       PROVE  StartupIInv'
  BY <1>10, <1>w DEF ChangeStatus, processVars
<1>11. CASE UNCHANGED startupVars
  BY <1>11, <1>w DEF startupVars, processVars
<1>12. QED
  BY <1>1, <1>2, <1>3, <1>4, <1>5, <1>6, <1>7, <1>8, <1>9, <1>10, <1>11 DEF StartupNext

(***************************************************************************)
(* A process that serves has decided on every client and announced the     *)
(* mode its RAG node works in, and no request passed for a tenant that was *)
(* not active when it was checked: whichever clients fail to start, for    *)
(* any number of callers and restarts.                                     *)
(***************************************************************************)
THEOREM StartupInvariant == StartupSpec => []StartupInv
<1>1. StartupIInv => StartupInv
  BY ServingIsComplete
<1>2. QED
  BY <1>1, StartupStart, StartupStep, PTL DEF StartupSpec

-----------------------------------------------------------------------------
(***************************************************************************)
(* The AI gateway and the breaker around it, for any models, any threshold *)
(* and any number of calls.                                                *)
(***************************************************************************)
\* The guarded calls that failed: the circuit counts some of them.
Failed == {p \in Guarded : prompt[p] = "failed"}

\* What a key of the configuration may hold.
Setting == Models \cup Personas \cup Names \cup Temperatures \cup {Unset}

\* The types of the variables.
GatewayTypes ==
    /\ llm_config \in [Keys -> Setting]
    /\ prompt \in [Prompts -> {"new", "primary", "fallback", "reading", "answered", "failed",
                               "degraded"}]
    /\ routes \in [Prompts -> [{"model", "fallback_model"} -> Models]]
    /\ answerer \in [Prompts -> Models \cup {Unset}]
    /\ fellBack \subseteq Prompts
    /\ breaker \in {"closed", "open", "half_open"}
    /\ failures \in Nat

\* The keys of the models hold models, never a persona.
ModelsAreModels == \A k \in {"model", "fallback_model"} : llm_config[k] \in Models \cup {Unset}

\* Where a call is says whether its primary model failed, and whether it has a stream.
Tracked(p) ==
    /\ prompt[p] \in {"new", "primary"} => p \notin fellBack
    /\ prompt[p] = "fallback" => p \in fellBack
    /\ prompt[p] \in {"new", "primary", "fallback"} => answerer[p] = Unset
    /\ answerer[p] # Unset =>
           answerer[p] = routes[p][IF p \in fellBack THEN "fallback_model" ELSE "model"]

CallsAreTracked == \A p \in Prompts : Tracked(p)

\* The circuit counts the calls blamed, and is closed exactly while they are few.
CircuitFollowsCount ==
    /\ blamed \subseteq Failed
    /\ failures = Cardinality(blamed)
    /\ breaker = "closed" <=> failures < Threshold

\* The inductive invariant.
GatewayIInv ==
    /\ GatewayTypes
    /\ ModelsAreModels
    /\ llm_config = newest
    /\ CallsAreTracked
    /\ CircuitFollowsCount

\* Sets of guarded calls are finite.
LEMMA FewAreBlamed ==
    ASSUME NEW S \in SUBSET Guarded
    PROVE  IsFiniteSet(S) /\ Cardinality(S) \in Nat
BY GatewayAssumption, FS_Subset, FS_CardinalityType

\* The first state has a closed circuit and a count of zero.
LEMMA GatewayStart == GatewayInit => GatewayIInv
<1> SUFFICES ASSUME GatewayInit
             PROVE  GatewayIInv
  OBVIOUS
<1>1. GatewayTypes /\ ModelsAreModels
  BY GatewayAssumption
     DEF GatewayInit, GatewayTypes, ModelsAreModels, Default, Keys, Setting
<1>2. CircuitFollowsCount
  BY GatewayAssumption, FS_EmptySet DEF GatewayInit, CircuitFollowsCount
<1>3. CallsAreTracked
  BY DEF GatewayInit, CallsAreTracked, Tracked
<1>4. QED
  BY <1>1, <1>2, <1>3 DEF GatewayIInv, GatewayInit

\* The inductive invariant is stronger than what the runs check.
LEMMA GatewayIsRight == GatewayIInv => GatewayInv
BY DEF GatewayIInv, GatewayInv, GatewayTypes, GatewayTypeOK, CircuitFollowsCount,
       CallsAreTracked, Tracked, Setting, Failed

\* An update of the configuration touches nothing else.
LEMMA ConfigureKeeps ==
    ASSUME GatewayIInv, NEW fields, Configure(fields),
           llm_config' \in [Keys -> Setting], ModelsAreModels', llm_config' = newest'
    PROVE  GatewayIInv'
<1>1. UNCHANGED <<prompt, routes, answerer, fellBack, breaker, failures, blamed>>
  BY DEF Configure, circuitVars
<1>2. GatewayTypes'
  BY <1>1 DEF GatewayIInv, GatewayTypes, Setting
<1>3. CallsAreTracked' /\ CircuitFollowsCount'
  BY <1>1 DEF GatewayIInv, CallsAreTracked, Tracked, CircuitFollowsCount, Failed
<1>4. QED
  BY <1>2, <1>3 DEF GatewayIInv

\* An update of the persona writes both of its keys.
LEMMA UpdatePersonaKeeps ==
    ASSUME GatewayIInv, NEW persona \in Personas, NEW name \in Names,
           UpdatePersona(persona, name)
    PROVE  GatewayIInv'
<1> DEFINE fields == [system_prompt |-> persona, persona_name |-> name]
<1>1. /\ Configure(fields) /\ llm_config' = Merge(llm_config, fields)
      /\ newest' = [newest EXCEPT !.system_prompt = persona, !.persona_name = name]
      /\ llm_config \in [Keys -> Setting] /\ newest = llm_config
  BY DEF UpdatePersona, Configure, GatewayIInv, GatewayTypes
<1>2. /\ DOMAIN fields = {"system_prompt", "persona_name"}
      /\ fields["system_prompt"] = persona /\ fields["persona_name"] = name
  OBVIOUS
<1> HIDE DEF fields
<1>3. /\ llm_config' = [k \in Keys |-> IF k \in DOMAIN fields THEN fields[k] ELSE llm_config[k]]
      /\ Keys = {"system_prompt", "persona_name", "model", "fallback_model", "temperature"}
  BY <1>1 DEF Merge, Keys
<1>4. persona \in Setting /\ name \in Setting
  BY DEF Setting
<1>5. llm_config' \in [Keys -> Setting]
  BY <1>1, <1>2, <1>3, <1>4
<1>6. \A k \in Keys : newest'[k] = llm_config'[k]
  BY <1>1, <1>2, <1>3
<1>7. newest' \in [Keys -> Setting]
  BY <1>1, <1>3, <1>4
<1>8. newest' = llm_config'
  BY <1>5, <1>6, <1>7
<1>9. ModelsAreModels'
  BY <1>2, <1>3 DEF ModelsAreModels, GatewayIInv
<1>10. QED
  BY <1>1, <1>5, <1>8, <1>9, ConfigureKeeps

\* An update of the model leaves a fallback it does not name.
LEMMA UpdateModelKeeps ==
    ASSUME GatewayIInv, NEW model \in Models, NEW fallback \in Models \cup {Unset},
           NEW temperature \in Temperatures, UpdateModel(model, fallback, temperature)
    PROVE  GatewayIInv'
<1> DEFINE fields == ModelBody(model, fallback, temperature)
           kept   == IF fallback = Unset THEN llm_config["fallback_model"] ELSE fallback
<1>1. /\ Configure(fields) /\ llm_config' = Merge(llm_config, fields)
      /\ llm_config \in [Keys -> Setting] /\ newest = llm_config
      /\ newest' = [newest EXCEPT !.model = model, !.temperature = temperature,
                                  !.fallback_model = kept]
  BY DEF UpdateModel, Configure, GatewayIInv, GatewayTypes
<1>2. /\ DOMAIN fields = IF fallback = Unset THEN {"model", "temperature"}
                         ELSE {"model", "fallback_model", "temperature"}
      /\ fields["model"] = model /\ fields["temperature"] = temperature
      /\ fallback # Unset => fields["fallback_model"] = fallback
  BY DEF ModelBody
<1> HIDE DEF fields
<1>3. /\ llm_config' = [k \in Keys |-> IF k \in DOMAIN fields THEN fields[k] ELSE llm_config[k]]
      /\ Keys = {"system_prompt", "persona_name", "model", "fallback_model", "temperature"}
  BY <1>1 DEF Merge, Keys
<1>4. /\ model \in Setting /\ temperature \in Setting /\ fallback \in Setting
      /\ kept \in Setting
  BY <1>1, <1>3 DEF Setting
<1>5. llm_config' \in [Keys -> Setting]
  BY <1>1, <1>2, <1>3, <1>4
<1>6. \A k \in Keys : newest'[k] = llm_config'[k]
  BY <1>1, <1>2, <1>3
<1>7. newest' \in [Keys -> Setting]
  BY <1>1, <1>3, <1>4
<1>8. newest' = llm_config'
  BY <1>5, <1>6, <1>7
<1>9. ModelsAreModels'
  BY <1>2, <1>3 DEF ModelsAreModels, GatewayIInv
<1>10. QED
  BY <1>1, <1>5, <1>8, <1>9, ConfigureKeeps

\* A step of a call that leaves the circuit alone and the call not failed.
LEMMA CallKeeps ==
    ASSUME GatewayIInv, NEW p \in Prompts,
           NEW end \in {"primary", "fallback", "reading", "degraded"},
           prompt[p] \in {"new", "primary", "fallback"},
           prompt' = [prompt EXCEPT ![p] = end],
           routes' \in [Prompts -> [{"model", "fallback_model"} -> Models]],
           answerer' \in [Prompts -> Models \cup {Unset}],
           fellBack' \subseteq Prompts,
           \A q \in Prompts \ {p} : /\ routes'[q] = routes[q] /\ answerer'[q] = answerer[q]
                                    /\ q \in fellBack' <=> q \in fellBack,
           Tracked(p)',
           UNCHANGED <<llm_config, newest, breaker, failures, blamed>>
    PROVE  GatewayIInv'
<1>1. GatewayTypes'
  BY DEF GatewayIInv, GatewayTypes, Setting
<1>2. /\ Failed' = Failed
      /\ \A q \in Prompts \ {p} : prompt'[q] = prompt[q]
  BY GatewayAssumption DEF Failed, GatewayIInv, GatewayTypes
<1>3. CallsAreTracked'
  <2>1. ASSUME NEW q \in Prompts \ {p}
        PROVE  Tracked(q)'
    BY <1>2, <2>1 DEF GatewayIInv, CallsAreTracked, Tracked
  <2>2. QED
    BY <2>1 DEF CallsAreTracked
<1>4. QED
  BY <1>1, <1>2, <1>3 DEF GatewayIInv, ModelsAreModels, CircuitFollowsCount

\* A call reads the configuration.
LEMMA LoadConfigKeeps ==
    ASSUME GatewayIInv, NEW p \in Prompts, LoadConfig(p)
    PROVE  GatewayIInv'
<1>1. /\ Default \in [{"model", "fallback_model"} -> Models]
      /\ Routes(llm_config) \in [{"model", "fallback_model"} -> Models]
  BY GatewayAssumption DEF Default, Routes, GatewayIInv, ModelsAreModels
<1>2. /\ routes' \in [Prompts -> [{"model", "fallback_model"} -> Models]]
      /\ \A q \in Prompts \ {p} : routes'[q] = routes[q]
  BY <1>1 DEF LoadConfig, GatewayIInv, GatewayTypes
<1>3. /\ prompt[p] = "new" /\ prompt' = [prompt EXCEPT ![p] = "primary"]
      /\ answerer' \in [Prompts -> Models \cup {Unset}] /\ fellBack' \subseteq Prompts
      /\ UNCHANGED <<llm_config, newest, answerer, fellBack, breaker, failures, blamed>>
  BY DEF LoadConfig, configVars, circuitVars, GatewayIInv, GatewayTypes
<1>4. Tracked(p)'
  BY <1>3 DEF GatewayIInv, GatewayTypes, CallsAreTracked, Tracked
<1>5. QED
  BY <1>2, <1>3, <1>4, CallKeeps

\* A stream that opens is neither success nor failure yet.
LEMMA OpenStreamKeeps ==
    ASSUME GatewayIInv, NEW p \in Prompts, NEW key \in {"model", "fallback_model"},
           \/ prompt[p] = "primary" /\ key = "model"
           \/ prompt[p] = "fallback" /\ key = "fallback_model",
           OpenStream(p, key)
    PROVE  GatewayIInv'
<1>1. /\ answerer' = [answerer EXCEPT ![p] = routes[p][key]]
      /\ prompt' = [prompt EXCEPT ![p] = "reading"]
      /\ UNCHANGED <<llm_config, newest, routes, fellBack, breaker, failures, blamed>>
  BY DEF OpenStream, configVars, circuitVars
<1>2. /\ routes \in [Prompts -> [{"model", "fallback_model"} -> Models]]
      /\ answerer \in [Prompts -> Models \cup {Unset}] /\ fellBack \subseteq Prompts
      /\ prompt[p] = "primary" => p \notin fellBack
      /\ prompt[p] = "fallback" => p \in fellBack
      /\ DOMAIN prompt = Prompts
  BY DEF GatewayIInv, GatewayTypes, CallsAreTracked, Tracked
<1>3. routes[p][key] \in Models
  BY <1>2
<1>4. /\ answerer' \in [Prompts -> Models \cup {Unset}]
      /\ answerer'[p] = routes[p][key]
      /\ \A q \in Prompts \ {p} : answerer'[q] = answerer[q]
      /\ routes' \in [Prompts -> [{"model", "fallback_model"} -> Models]]
      /\ prompt'[p] = "reading"
  BY <1>1, <1>2, <1>3
<1>5. Tracked(p)'
  BY <1>1, <1>2, <1>4 DEF Tracked
<1>6. QED
  BY <1>1, <1>2, <1>4, <1>5, CallKeeps

\* The primary model failed: the circuit does not know.
LEMMA PrimaryFailsKeeps ==
    ASSUME GatewayIInv, NEW p \in Prompts, PrimaryFails(p)
    PROVE  GatewayIInv'
<1>1. /\ prompt[p] = "primary" /\ prompt' = [prompt EXCEPT ![p] = "fallback"]
      /\ fellBack' = fellBack \cup {p}
      /\ UNCHANGED <<llm_config, newest, routes, answerer, breaker, failures, blamed>>
  BY DEF PrimaryFails, Charge, configVars
<1>2. /\ routes' \in [Prompts -> [{"model", "fallback_model"} -> Models]]
      /\ answerer' \in [Prompts -> Models \cup {Unset}] /\ fellBack' \subseteq Prompts
      /\ DOMAIN prompt = Prompts
  BY <1>1 DEF GatewayIInv, GatewayTypes
<1>3. Tracked(p)'
  BY <1>1, <1>2 DEF GatewayIInv, CallsAreTracked, Tracked
<1>4. QED
  BY <1>1, <1>2, <1>3, CallKeeps

\* safe_call_llm answers without a model.
LEMMA DegradeKeeps ==
    ASSUME GatewayIInv, NEW p \in Prompts, Degrade(p)
    PROVE  GatewayIInv'
<1>1. /\ prompt[p] = "new" /\ prompt' = [prompt EXCEPT ![p] = "degraded"]
      /\ UNCHANGED <<llm_config, newest, routes, answerer, fellBack, breaker, failures, blamed>>
  BY DEF Degrade, configVars, circuitVars
<1>2. /\ routes' \in [Prompts -> [{"model", "fallback_model"} -> Models]]
      /\ answerer' \in [Prompts -> Models \cup {Unset}] /\ fellBack' \subseteq Prompts
      /\ DOMAIN prompt = Prompts
  BY <1>1 DEF GatewayIInv, GatewayTypes
<1>3. Tracked(p)'
  BY <1>1, <1>2 DEF GatewayIInv, CallsAreTracked, Tracked
<1>4. QED
  BY <1>1, <1>2, <1>3, CallKeeps

\* The last step of a call changes neither its stream nor its models.
LEMMA FinishTracked ==
    ASSUME GatewayIInv, NEW p \in Prompts, NEW end \in {"answered", "failed"},
           prompt' = [prompt EXCEPT ![p] = end],
           UNCHANGED <<routes, answerer, fellBack>>
    PROVE  CallsAreTracked'
<1>1. \A q \in Prompts : prompt'[q] = prompt[q] \/ prompt'[q] = end
  BY DEF GatewayIInv, GatewayTypes
<1>2. QED
  BY <1>1 DEF GatewayIInv, CallsAreTracked, Tracked

\* A stream that ends well is a success, also after the circuit has opened.
LEMMA StreamEndsKeeps ==
    ASSUME GatewayIInv, NEW p \in Prompts, StreamEnds(p)
    PROVE  GatewayIInv'
<1>1. /\ prompt[p] = "reading" /\ prompt' = [prompt EXCEPT ![p] = "answered"]
      /\ UNCHANGED <<llm_config, newest, routes, answerer, fellBack>>
      /\ \/ breaker' = "closed" /\ failures' = 0 /\ blamed' = {}
         \/ UNCHANGED <<breaker, failures, blamed>>
  BY DEF StreamEnds, Finish, AfterSuccess, configVars
<1>2. Failed' = Failed
  BY <1>1, GatewayAssumption DEF Failed, GatewayIInv, GatewayTypes
<1>3. GatewayTypes'
  BY <1>1 DEF GatewayIInv, GatewayTypes, Setting
<1>4. CircuitFollowsCount'
  BY <1>1, <1>2, GatewayAssumption, FS_EmptySet DEF GatewayIInv, CircuitFollowsCount
<1>5. CallsAreTracked'
  BY <1>1, FinishTracked
<1>6. QED
  BY <1>1, <1>3, <1>4, <1>5 DEF GatewayIInv, ModelsAreModels

\* A failure is counted once, and opens the circuit at the threshold.
LEMMA CallFailsKeeps ==
    ASSUME GatewayIInv, NEW p \in Prompts, CallFails(p)
    PROVE  GatewayIInv'
<1>1. /\ prompt[p] \in {"fallback", "reading"} /\ prompt' = [prompt EXCEPT ![p] = "failed"]
      /\ UNCHANGED <<llm_config, newest, routes, answerer, fellBack>>
      /\ blamed' = blamed \cup ({p} \cap Guarded)
      /\ IF p \in Guarded
         THEN /\ failures' = failures + 1
              /\ breaker' = IF failures + 1 >= Threshold THEN "open" ELSE breaker
         ELSE UNCHANGED <<breaker, failures>>
  BY DEF CallFails, Finish, AfterFailure, configVars
<1>2. /\ p \in Guarded => Failed' = Failed \cup {p}
      /\ p \notin Failed
      /\ p \notin Guarded => Failed' = Failed
  BY <1>1, GatewayAssumption DEF Failed, GatewayIInv, GatewayTypes
<1>3. /\ failures \in Nat /\ failures = Cardinality(blamed) /\ blamed \subseteq Failed
      /\ blamed \in SUBSET Guarded
  BY DEF GatewayIInv, GatewayTypes, CircuitFollowsCount, Failed
<1>4. failures' \in Nat /\ failures' = Cardinality(blamed') /\ blamed' \subseteq Failed'
  <2>1. IsFiniteSet(blamed)
    BY <1>3, FewAreBlamed
  <2>2. p \notin blamed /\ Cardinality(blamed \cup {p}) = Cardinality(blamed) + 1
    BY <1>2, <1>3, <2>1, FS_AddElement
  <2>3. CASE p \in Guarded
    <3>1. blamed' = blamed \cup {p} /\ failures' = failures + 1 /\ Failed' = Failed \cup {p}
      BY <1>1, <1>2, <2>3
    <3>2. failures' \in Nat
      BY <1>3, <3>1
    <3>3. failures' = Cardinality(blamed')
      BY <1>3, <2>2, <3>1
    <3>4. blamed' \subseteq Failed'
      BY <1>3, <3>1
    <3>5. QED
      BY <3>2, <3>3, <3>4
  <2>4. CASE p \notin Guarded
    <3>1. blamed' = blamed
      BY <1>1, <2>4
    <3>2. QED
      BY <1>1, <1>2, <1>3, <2>4, <3>1
  <2>5. QED
    BY <2>3, <2>4
<1>5. GatewayTypes'
  BY <1>1, <1>4 DEF GatewayIInv, GatewayTypes, Setting
<1>6. CircuitFollowsCount'
  <2>1. Threshold \in Nat /\ (breaker = "closed" <=> failures < Threshold)
    BY GatewayAssumption DEF GatewayIInv, CircuitFollowsCount
  <2>2. breaker' = "closed" <=> failures' < Threshold
    BY <1>1, <1>3, <2>1
  <2>3. QED
    BY <1>4, <2>2 DEF CircuitFollowsCount
<1>7. CallsAreTracked'
  BY <1>1, FinishTracked
<1>8. QED
  BY <1>1, <1>5, <1>6, <1>7 DEF GatewayIInv, ModelsAreModels

\* Every step keeps the inductive invariant.
LEMMA GatewayStep == GatewayIInv /\ [GatewayNext]_gatewayVars => GatewayIInv'
<1> SUFFICES ASSUME GatewayIInv, [GatewayNext]_gatewayVars
             PROVE  GatewayIInv'
  OBVIOUS
<1>1. ASSUME NEW p \in Prompts, PrimaryOpens(p) \/ FallbackOpens(p)
      PROVE  GatewayIInv'
  BY <1>1, OpenStreamKeeps DEF PrimaryOpens, FallbackOpens, Substitute
<1>2. ASSUME UNCHANGED <<llm_config, newest, prompt, routes, answerer, fellBack, failures, blamed>>,
             breaker' = breaker \/ (breaker = "open" /\ breaker' = "half_open")
      PROVE  GatewayIInv'
  <2>1. GatewayTypes'
    BY <1>2 DEF GatewayIInv, GatewayTypes, Setting
  <2>2. CircuitFollowsCount'
    BY <1>2 DEF GatewayIInv, CircuitFollowsCount, Failed
  <2>3. CallsAreTracked' /\ ModelsAreModels' /\ llm_config' = newest'
    BY <1>2 DEF GatewayIInv, CallsAreTracked, Tracked, ModelsAreModels
  <2>4. QED
    BY <2>1, <2>2, <2>3 DEF GatewayIInv
<1>3. CASE HalfOpen
  BY <1>2, <1>3 DEF HalfOpen, configVars
<1>4. CASE UNCHANGED gatewayVars
  BY <1>2, <1>4 DEF gatewayVars, configVars, circuitVars
<1>5. QED
  BY <1>1, <1>3, <1>4, UpdatePersonaKeeps, UpdateModelKeeps, LoadConfigKeeps, DegradeKeeps,
     PrimaryFailsKeeps, StreamEndsKeeps, CallFailsKeeps DEF GatewayNext, Prompting

(***************************************************************************)
(* An update of the persona leaves the keys of the model, one of the model *)
(* those of the persona and a fallback it does not name; a call reads the  *)
(* stream of the fallback it began with exactly if its primary model       *)
(* failed or was late; and the circuit counts each guarded call that       *)
(* failed since one succeeded, none that its fallback saved, and is closed *)
(* exactly while they are fewer than the threshold: for any number of      *)
(* calls, any models and any threshold.                                    *)
(***************************************************************************)
THEOREM GatewayInvariant == GatewaySpec => []GatewayInv
<1>1. GatewayIInv => GatewayInv
  BY GatewayIsRight
<1>2. QED
  BY <1>1, GatewayStart, GatewayStep, PTL DEF GatewaySpec

-----------------------------------------------------------------------------
(***************************************************************************)
(* Tools and the batches that call them, for any number of tools, batches  *)
(* and calls in each.                                                      *)
(***************************************************************************)
Recorded == Outcomes \cup {NoRun}

\* The calls of batch b, and how many of them have begun: e, one after the other.
Begun(b, e) ==
    /\ e \in 0..Len(calls[b])
    /\ Run(b) \cup awaiting[b] = 1..e
    /\ Run(b) \cap awaiting[b] = {}
    /\ \/ position[b] = e + 1
       \/ /\ mode[b] = "stop" /\ e > 0 /\ results[b][e] = "error"
          /\ position[b] = Len(calls[b]) + 1 /\ awaiting[b] = {}
    /\ mode[b] = "stop" => \A j \in 1..(e - 1) : results[b][j] # "error"
    /\ mode[b] = "stop" /\ position[b] = e + 1 /\ e > 0 /\ e < Len(calls[b]) =>
           results[b][e] # "error"

\* Who has the event loop, and who waits for what.
Waiting(b) ==
    /\ awaiting[b] # {} => batch[b] = "running"
    /\ loop = b => batch[b] = "running"
    /\ mode[b] # "parallel" => awaiting[b] = {} \/ (loop # b /\ awaiting[b] = {position[b] - 1})
    /\ batch[b] = "running" /\ loop # b =>
           IF mode[b] = "parallel" THEN position[b] > Len(calls[b]) ELSE awaiting[b] # {}
    /\ batch[b] = "done" => awaiting[b] = {} /\ position[b] > Len(calls[b])

\* Types of the batches.
BatchTypes ==
    /\ loop \in Batches \cup {Free}
    /\ batch \in [Batches -> {"new", "running", "done"}]
    /\ position \in [Batches -> Nat]
    /\ DOMAIN awaiting = Batches
    /\ DOMAIN results = Batches
    /\ \A b \in Batches : results[b] \in [1..Len(calls[b]) -> Recorded]

\* Types of the registry; a handler belongs to a registered tool.
RegistryIsSound ==
    /\ tools \in [Tools -> {"absent", "enabled", "disabled"}]
    /\ handlers \in [Tools -> Handlers \cup {NoHandler}]
    /\ \A t \in Tools : handlers[t] # NoHandler => tools[t] # "absent"

\* The history has each execution once.
HistoryIsRuns ==
    /\ history \in Seq(Batches \X Nat)
    /\ \A i, j \in 1..Len(history) : history[i] = history[j] => i = j
    /\ \A b \in Batches, i \in Nat :
         (\E k \in 1..Len(history) : history[k] = <<b, i>>) <=> i \in Run(b)

\* The inductive invariant.
ToolboxIInv ==
    /\ RegistryIsSound /\ BatchTypes /\ HistoryIsRuns
    /\ \A b \in Batches : Waiting(b) /\ \E e \in Nat : Begun(b, e)

\* What is known of the calls of each batch.
LEMMA CallsAre ==
    \A b \in Batches : /\ calls[b] \in Seq(Tools) /\ Len(calls[b]) \in Nat
                       /\ DOMAIN calls[b] = 1..Len(calls[b])
                       /\ \A i \in 1..Len(calls[b]) : calls[b][i] \in Tools
                       /\ mode[b] \in {"stop", "go on", "parallel"}
                       /\ b # Free
<1> SUFFICES ASSUME NEW b \in Batches
             PROVE  /\ calls[b] \in Seq(Tools) /\ Len(calls[b]) \in Nat
                    /\ DOMAIN calls[b] = 1..Len(calls[b])
                    /\ \A i \in 1..Len(calls[b]) : calls[b][i] \in Tools
                    /\ mode[b] \in {"stop", "go on", "parallel"}
                    /\ b # Free
  OBVIOUS
<1> DEFINE cs == calls[b]
<1>1. cs \in Seq(Tools) /\ mode[b] \in {"stop", "go on", "parallel"} /\ b # Free
  BY ToolboxAssumption
<1> HIDE DEF cs
<1>s. cs \in Seq(Tools)
  BY <1>1
<1>2. Len(cs) \in Nat /\ DOMAIN cs = 1..Len(cs)
  BY <1>s
<1>e. \A i \in 1..Len(cs) : cs[i] \in Tools
  BY <1>s
<1>3. QED
  BY <1>1, <1>2, <1>e DEF cs

\* The first state has no tools, and no batch has begun.
LEMMA ToolboxStart == ToolboxInit => ToolboxIInv
<1> SUFFICES ASSUME ToolboxInit
             PROVE  ToolboxIInv
  OBVIOUS
<1>1. RegistryIsSound
  BY DEF ToolboxInit, RegistryIsSound
<1>2. BatchTypes
  BY CallsAre DEF ToolboxInit, BatchTypes, Recorded
<1>3. \A b \in Batches : Run(b) = {} /\ awaiting[b] = {} /\ position[b] = 1
  BY DEF ToolboxInit, Run
<1>4. HistoryIsRuns
  <2>1. history \in Seq(Batches \X Nat) /\ Len(history) = 0
    BY EmptySeq DEF ToolboxInit
  <2>2. QED
    BY <2>1, <1>3 DEF HistoryIsRuns
<1>5. \A b \in Batches : Waiting(b)
  BY <1>3, CallsAre DEF ToolboxInit, Waiting
<1>6. ASSUME NEW b \in Batches
      PROVE  Begun(b, 0)
  <2>1. Len(calls[b]) \in Nat
    BY CallsAre
  <2>2. Run(b) = {} /\ awaiting[b] = {} /\ position[b] = 1
    BY <1>3
  <2>3. QED
    BY <2>1, <2>2 DEF Begun
<1>7. QED
  BY <1>1, <1>2, <1>4, <1>5, <1>6 DEF ToolboxIInv

\* The inductive invariant is stronger than what the runs check.
LEMMA BatchesAreRight == ToolboxIInv => ToolboxInv
<1> SUFFICES ASSUME ToolboxIInv
             PROVE  ToolboxInv
  OBVIOUS
<1>1. /\ IsInjective(history)
      /\ ToSet(history) = UNION {{<<b, i>> : i \in Run(b)} : b \in Batches}
  <2>1. /\ DOMAIN history = 1..Len(history) /\ history \in Seq(Batches \X Nat)
        /\ \A i, j \in 1..Len(history) : history[i] = history[j] => i = j
    BY DEF ToolboxIInv, HistoryIsRuns
  <2>2. IsInjective(history)
    BY <2>1 DEF IsInjective
  <2>3. \A b \in Batches : Run(b) \subseteq Nat
    <3> TAKE b \in Batches
    <3>1. DOMAIN calls[b] = 1..Len(calls[b]) /\ Len(calls[b]) \in Nat
      BY CallsAre
    <3>2. QED
      BY <3>1 DEF Run
  <2>4. ASSUME NEW h \in ToSet(history)
        PROVE  h \in UNION {{<<b, i>> : i \in Run(b)} : b \in Batches}
    <3>1. PICK k \in 1..Len(history) : history[k] = h
      BY <2>1, <2>4 DEF ToSet
    <3>2. h \in Batches \X Nat
      BY <2>1, <3>1
    <3>3. PICK b \in Batches, i \in Nat : h = <<b, i>>
      BY <3>2
    <3>4. i \in Run(b)
      BY <3>1, <3>3 DEF ToolboxIInv, HistoryIsRuns
    <3>5. QED
      BY <3>3, <3>4
  <2>5. ASSUME NEW b \in Batches, NEW i \in Run(b)
        PROVE  <<b, i>> \in ToSet(history)
    <3>1. PICK k \in 1..Len(history) : history[k] = <<b, i>>
      BY <2>3 DEF ToolboxIInv, HistoryIsRuns
    <3>2. QED
      BY <2>1, <3>1 DEF ToSet
  <2>6. QED
    BY <2>2, <2>4, <2>5
<1>2. ASSUME NEW b \in Batches
      PROVE  /\ position[b] \in 1..(Len(calls[b]) + 1)
             /\ awaiting[b] \subseteq DOMAIN calls[b] \ Run(b)
             /\ results[b] \in [DOMAIN calls[b] -> Outcomes \cup {NoRun}]
             /\ batch[b] = "done" =>
                  /\ mode[b] # "stop" => Run(b) = DOMAIN calls[b]
                  /\ mode[b] = "stop" => \A i \in DOMAIN calls[b] :
                       i \in Run(b) <=> \A j \in 1..(i - 1) : results[b][j] # "error"
  <2> DEFINE n == Len(calls[b])
  <2>1. n \in Nat /\ DOMAIN calls[b] = 1..n
    BY CallsAre
  <2>2. PICK e \in Nat : Begun(b, e)
    BY DEF ToolboxIInv
  <2>3. /\ e <= n /\ Run(b) \cup awaiting[b] = 1..e /\ Run(b) \cap awaiting[b] = {}
        /\ position[b] = e + 1 \/ (e > 0 /\ position[b] = n + 1)
    BY <2>2 DEF Begun
  <2> HIDE DEF n
  <2>4. position[b] \in 1..(n + 1) /\ awaiting[b] \subseteq 1..n \ Run(b)
    BY <2>1, <2>3
  <2>5. ASSUME batch[b] = "done"
        PROVE  /\ mode[b] # "stop" => Run(b) = 1..n
               /\ mode[b] = "stop" => \A i \in 1..n :
                    i \in Run(b) <=> \A j \in 1..(i - 1) : results[b][j] # "error"
    <3>1. awaiting[b] = {} /\ position[b] > n
      BY <2>5 DEF ToolboxIInv, Waiting, n
    <3>2. Run(b) = 1..e
      BY <2>3, <3>1
    <3>3. mode[b] # "stop" => e = n
      BY <2>1, <2>2, <2>3, <3>1 DEF Begun, n
    <3>4. mode[b] = "stop" => /\ \A j \in 1..(e - 1) : results[b][j] # "error"
                              /\ e = n \/ (e > 0 /\ results[b][e] = "error")
      BY <2>1, <2>2, <2>3, <3>1 DEF Begun, n
    <3>5. ASSUME mode[b] = "stop", NEW i \in 1..n
          PROVE  i \in Run(b) <=> \A j \in 1..(i - 1) : results[b][j] # "error"
      <4>1. CASE i <= e
        <5>1. \A j \in 1..(i - 1) : j \in 1..(e - 1)
          BY <4>1
        <5>2. QED
          BY <5>1, <4>1, <3>2, <3>4, <3>5
      <4>2. CASE i > e
        <5>1. e \in 1..(i - 1) /\ results[b][e] = "error"
          BY <4>2, <3>4, <3>5, <2>1, <2>3
        <5>2. i \notin Run(b)
          BY <4>2, <3>2
        <5>3. QED
          BY <5>1, <5>2
      <4>3. QED
        BY <4>1, <4>2
    <3>6. QED
      BY <3>2, <3>3, <3>5
  <2>6. QED
    BY <2>1, <2>4, <2>5 DEF ToolboxIInv, BatchTypes, n, Recorded
<1>3. QED
  BY <1>1, <1>2 DEF ToolboxIInv, ToolboxInv, RegistryIsSound, BatchTypes

\* What is not of batch b stays as it is.
OthersStay(b) ==
    \A c \in Batches \ {b} :
        /\ batch'[c] = batch[c] /\ position'[c] = position[c] /\ awaiting'[c] = awaiting[c]
        /\ results'[c] = results[c]

\* A step of one batch keeps the invariant of every other.
LEMMA OthersKeep ==
    ASSUME ToolboxIInv, NEW b \in Batches, OthersStay(b),
           loop = Free \/ loop = b, loop' = Free \/ loop' = b,
           NEW c \in Batches, c # b
    PROVE  /\ Waiting(c)' /\ \E e \in Nat : Begun(c, e)'
           /\ Run(c)' = Run(c)
<1>1. /\ batch'[c] = batch[c] /\ position'[c] = position[c] /\ awaiting'[c] = awaiting[c]
      /\ results'[c] = results[c]
  BY DEF OthersStay
<1>2. Run(c)' = Run(c)
  BY <1>1 DEF Run
<1>3. loop # c /\ loop' # c
  BY CallsAre
<1>4. Waiting(c)'
  BY <1>1, <1>3 DEF ToolboxIInv, Waiting
<1>5. PICK e \in Nat : Begun(c, e)
  BY DEF ToolboxIInv
<1>6. Begun(c, e)'
  BY <1>1, <1>2, <1>5 DEF Begun
<1>7. QED
  BY <1>2, <1>4, <1>6

\* An execution that ends: its result and its line of the history.
LEMMA EndedIs ==
    ASSUME ToolboxIInv, NEW b \in Batches, NEW i \in 1..Len(calls[b]), i \notin Run(b),
           NEW outcome \in Outcomes, Ended(b, i, outcome)
    PROVE  /\ results'[b][i] = outcome
           /\ \A j \in 1..Len(calls[b]) \ {i} : results'[b][j] = results[b][j]
           /\ \A c \in Batches \ {b} : results'[c] = results[c] /\ Run(c)' = Run(c)
           /\ DOMAIN results' = Batches
           /\ \A c \in Batches : results'[c] \in [1..Len(calls[c]) -> Recorded]
           /\ Run(b)' = Run(b) \cup {i}
           /\ HistoryIsRuns'
<1>1. /\ results' = [results EXCEPT ![b] = [results[b] EXCEPT ![i] = outcome]]
      /\ results[b] \in [1..Len(calls[b]) -> Recorded]
      /\ DOMAIN results = Batches
  BY DEF Ended, ToolboxIInv, BatchTypes
<1>2. /\ results'[b] = [results[b] EXCEPT ![i] = outcome]
      /\ \A c \in Batches \ {b} : results'[c] = results[c]
      /\ DOMAIN results' = Batches
  BY <1>1
<1>3. /\ results'[b][i] = outcome
      /\ \A j \in 1..Len(calls[b]) \ {i} : results'[b][j] = results[b][j]
      /\ results'[b] \in [1..Len(calls[b]) -> Recorded]
  BY <1>1, <1>2 DEF Recorded
<1>4. \A c \in Batches : results'[c] \in [1..Len(calls[c]) -> Recorded]
  BY <1>2, <1>3 DEF ToolboxIInv, BatchTypes
<1>5. outcome # NoRun
  BY DEF NoRun, Outcomes
<1>6. Run(b)' = Run(b) \cup {i}
  BY <1>3, <1>5, CallsAre DEF Run
<1>7. \A c \in Batches \ {b} : Run(c)' = Run(c)
  BY <1>2 DEF Run
<1>8. HistoryIsRuns'
  <2> DEFINE P == Batches \X Nat
             n == Len(history)
             h == <<b, i>>
  <2>1. history \in Seq(P) /\ n \in Nat /\ history' = Append(history, h)
    BY DEF Ended, ToolboxIInv, HistoryIsRuns
  <2>i. i \in Nat
    <3>1. Len(calls[b]) \in Nat
      BY CallsAre
    <3>2. QED
      BY <3>1
  <2>2. h \in P
    BY <2>i
  <2>3. \A k \in 1..n : history[k] # h
    BY <2>i DEF ToolboxIInv, HistoryIsRuns
  <2>p. P = Batches \X Nat
    OBVIOUS
  <2> HIDE DEF P, h
  <2>4. /\ history' \in Seq(P) /\ Len(history') = n + 1 /\ history'[n + 1] = h
        /\ \A k \in 1..n : history'[k] = history[k]
    BY <2>1, <2>2, AppendProperties
  <2> HIDE DEF n
  <2>5. \A k \in 1..(n + 1) : k \in 1..n \/ k = n + 1
    BY <2>1
  <2>6. \A j, k \in 1..n : history[j] = history[k] => j = k
    BY DEF ToolboxIInv, HistoryIsRuns, n
  <2>7. \A j, k \in 1..(n + 1) : history'[j] = history'[k] => j = k
    BY <2>3, <2>4, <2>5, <2>6
  <2>8. ASSUME NEW c \in Batches, NEW j \in Nat
        PROVE  (\E k \in 1..(n + 1) : history'[k] = <<c, j>>) <=> j \in Run(c)'
    <3>1. (\E k \in 1..n : history[k] = <<c, j>>) <=> j \in Run(c)
      BY DEF ToolboxIInv, HistoryIsRuns, n
    <3>2. (\E k \in 1..(n + 1) : history'[k] = <<c, j>>) <=>
              (\E k \in 1..n : history[k] = <<c, j>>) \/ h = <<c, j>>
      <4>1. \A k \in 1..n : k \in 1..(n + 1)
        BY <2>1
      <4>2. n + 1 \in 1..(n + 1)
        BY <2>1
      <4>3. QED
        BY <4>1, <4>2, <2>4, <2>5
    <3>3. h = <<c, j>> <=> c = b /\ j = i
      BY DEF h
    <3>4. QED
      BY <3>1, <3>2, <3>3, <1>6, <1>7
  <2>9. QED
    BY <2>4, <2>7, <2>8, <2>p DEF HistoryIsRuns
<1>9. QED
  BY <1>2, <1>3, <1>4, <1>6, <1>7, <1>8

\* A batch that starts takes the event loop.
LEMMA StartBatchKeeps ==
    ASSUME ToolboxIInv, loop = Free, NEW b \in Batches, StartBatch(b)
    PROVE  ToolboxIInv'
<1>1. /\ batch[b] = "new" /\ batch' = [batch EXCEPT ![b] = "running"] /\ loop' = b
      /\ UNCHANGED <<tools, handlers, position, awaiting, results, history>>
  BY DEF StartBatch, registryVars
<1>2. \A c \in Batches : Run(c)' = Run(c)
  BY <1>1 DEF Run
<1>3. RegistryIsSound' /\ BatchTypes' /\ HistoryIsRuns'
  BY <1>1, <1>2 DEF ToolboxIInv, RegistryIsSound, BatchTypes, HistoryIsRuns
<1>4. batch'[b] = "running" /\ awaiting'[b] = {}
  BY <1>1 DEF ToolboxIInv, BatchTypes, Waiting
<1>5. Waiting(b)'
  BY <1>1, <1>4 DEF Waiting
<1>6. \E e \in Nat : Begun(b, e)'
  <2>1. PICK e \in Nat : Begun(b, e)
    BY DEF ToolboxIInv
  <2>2. Begun(b, e)'
    BY <1>1, <1>2, <2>1 DEF Begun
  <2>3. QED
    BY <2>2
<1>7. OthersStay(b)
  BY <1>1 DEF OthersStay, ToolboxIInv, BatchTypes
<1>8. \A c \in Batches \ {b} : Waiting(c)' /\ \E e \in Nat : Begun(c, e)'
  BY <1>1, <1>7, OthersKeep
<1>9. QED
  BY <1>3, <1>5, <1>6, <1>8 DEF ToolboxIInv

\* A batch that has no call left gives the loop away, and is done when it awaits none.
LEMMA EndBatchKeeps ==
    ASSUME ToolboxIInv, NEW b \in Batches, EndBatch(b)
    PROVE  ToolboxIInv'
<1>1. /\ loop = b /\ position[b] > Len(calls[b]) /\ loop' = Free
      /\ batch' = [batch EXCEPT ![b] = IF awaiting[b] = {} THEN "done" ELSE batch[b]]
      /\ UNCHANGED <<tools, handlers, position, awaiting, results, history>>
  BY DEF EndBatch, registryVars
<1>2. \A c \in Batches : Run(c)' = Run(c)
  BY <1>1 DEF Run
<1>3. RegistryIsSound' /\ BatchTypes' /\ HistoryIsRuns'
  BY <1>1, <1>2 DEF ToolboxIInv, RegistryIsSound, BatchTypes, HistoryIsRuns
<1>4. /\ batch[b] = "running" /\ batch'[b] = IF awaiting[b] = {} THEN "done" ELSE "running"
      /\ mode[b] # "parallel" => awaiting[b] = {}
  BY <1>1 DEF ToolboxIInv, BatchTypes, Waiting
<1>5. Waiting(b)'
  <2>1. b # Free
    BY CallsAre
  <2>2. loop' # b /\ awaiting'[b] = awaiting[b] /\ position'[b] = position[b]
    BY <1>1, <2>1
  <2>3. QED
    BY <1>1, <1>4, <2>2 DEF Waiting
<1>6. \E e \in Nat : Begun(b, e)'
  <2>1. PICK e \in Nat : Begun(b, e)
    BY DEF ToolboxIInv
  <2>2. Begun(b, e)'
    BY <1>1, <1>2, <2>1 DEF Begun
  <2>3. QED
    BY <2>2
<1>7. OthersStay(b)
  BY <1>1 DEF OthersStay, ToolboxIInv, BatchTypes
<1>8. \A c \in Batches \ {b} : Waiting(c)' /\ \E e \in Nat : Begun(c, e)'
  BY <1>1, <1>7, OthersKeep
<1>9. QED
  BY <1>3, <1>5, <1>6, <1>8 DEF ToolboxIInv

\* The next call of a batch that has the loop.
LEMMA NextCall ==
    ASSUME ToolboxIInv, NEW b \in Batches, loop = b, position[b] <= Len(calls[b])
    PROVE  \E e \in Nat : /\ Begun(b, e) /\ position[b] = e + 1 /\ e + 1 \in 1..Len(calls[b])
                          /\ e + 1 \notin Run(b) /\ e + 1 \notin awaiting[b]
                          /\ batch[b] = "running"
                          /\ mode[b] # "parallel" => awaiting[b] = {}
                          /\ mode[b] = "stop" => \A j \in 1..e : results[b][j] # "error"
<1>1. PICK e \in Nat : Begun(b, e)
  BY DEF ToolboxIInv
<1>2. Len(calls[b]) \in Nat
  BY CallsAre
<1>3. position[b] = e + 1 /\ e + 1 \in 1..Len(calls[b])
  BY <1>1, <1>2 DEF Begun
<1>4. e + 1 \notin Run(b) /\ e + 1 \notin awaiting[b]
  BY <1>1 DEF Begun
<1>5. batch[b] = "running" /\ (mode[b] # "parallel" => awaiting[b] = {})
  BY DEF ToolboxIInv, Waiting
<1>6. ASSUME mode[b] = "stop", NEW j \in 1..e
      PROVE  results[b][j] # "error"
  <2>1. j \in 1..(e - 1) \/ j = e
    OBVIOUS
  <2>2. e > 0 /\ e < Len(calls[b])
    BY <1>2, <1>3
  <2>3. QED
    BY <1>1, <1>3, <1>6, <2>1, <2>2 DEF Begun
<1>7. QED
  BY <1>1, <1>3, <1>4, <1>5, <1>6

\* A call is awaited, or ends at once; an error may end the batch.
LEMMA CallToolKeeps ==
    ASSUME ToolboxIInv, NEW b \in Batches, CallTool(b)
    PROVE  ToolboxIInv'
<1> DEFINE n == Len(calls[b])
<1>1. /\ loop = b /\ position[b] <= n /\ UNCHANGED <<tools, handlers, batch>>
      /\ n \in Nat /\ mode[b] \in {"stop", "go on", "parallel"}
  BY CallsAre DEF CallTool, registryVars
<1>2. PICK e \in Nat : /\ Begun(b, e) /\ position[b] = e + 1 /\ e + 1 \in 1..n
                       /\ e + 1 \notin Run(b) /\ e + 1 \notin awaiting[b]
                       /\ batch[b] = "running"
                       /\ mode[b] # "parallel" => awaiting[b] = {}
                       /\ mode[b] = "stop" => \A j \in 1..e : results[b][j] # "error"
  BY <1>1, NextCall
<1>3. /\ Run(b) \cup awaiting[b] = 1..e /\ Run(b) \cap awaiting[b] = {}
  BY <1>2 DEF Begun
<1>4. 1..(e + 1) = 1..e \cup {e + 1}
  OBVIOUS
<1>5. RegistryIsSound'
  BY <1>1 DEF ToolboxIInv, RegistryIsSound
<1> HIDE DEF n
<1>6. CASE /\ awaiting' = [awaiting EXCEPT ![b] = @ \cup {position[b]}]
           /\ position' = [position EXCEPT ![b] = @ + 1]
           /\ loop' = IF mode[b] = "parallel" THEN loop ELSE Free
           /\ UNCHANGED <<results, history>>
  <2>1. /\ awaiting'[b] = awaiting[b] \cup {e + 1} /\ position'[b] = e + 2
        /\ results' = results /\ batch' = batch
        /\ mode[b] = "parallel" => loop' = b
        /\ mode[b] # "parallel" => loop' = Free
    <3>1. position \in [Batches -> Nat] /\ DOMAIN awaiting = Batches
      BY DEF ToolboxIInv, BatchTypes
    <3>2. position[b] = e + 1 /\ (e + 1) + 1 = e + 2
      BY <1>2
    <3>3. position'[b] = e + 2 /\ awaiting'[b] = awaiting[b] \cup {e + 1}
      BY <1>6, <3>1, <3>2
    <3>4. QED
      BY <1>1, <1>6, <3>3
  <2>2. \A c \in Batches : Run(c)' = Run(c)
    BY <2>1 DEF Run
  <2>3. BatchTypes'
    <3>p. position \in [Batches -> Nat] /\ DOMAIN awaiting = Batches
      BY DEF ToolboxIInv, BatchTypes
    <3>1. position' \in [Batches -> Nat] /\ DOMAIN awaiting' = Batches
      <4>1. position[b] + 1 \in Nat
        BY <3>p
      <4>2. QED
        BY <1>6, <3>p, <4>1
    <3>2. loop' \in Batches \cup {Free}
      BY <2>1
    <3>3. QED
      BY <1>1, <1>6, <3>1, <3>2 DEF ToolboxIInv, BatchTypes
  <2>h. HistoryIsRuns'
    BY <1>6, <2>2 DEF ToolboxIInv, HistoryIsRuns
  <2>4. Waiting(b)'
    <3>1. b # Free
      BY CallsAre
    <3>2. CASE mode[b] = "parallel"
      BY <1>2, <2>1, <3>1, <3>2 DEF Waiting
    <3>3. CASE mode[b] # "parallel"
      <4>1. awaiting'[b] = {e + 1} /\ position'[b] - 1 = e + 1 /\ loop' # b
        BY <1>2, <2>1, <3>1, <3>3
      <4>2. batch'[b] = "running"
        BY <1>2, <2>1
      <4>3. QED
        BY <3>3, <4>1, <4>2 DEF Waiting
    <3>4. QED
      BY <3>2, <3>3
  <2>5. Begun(b, e + 1)'
    <3>1. /\ (Run(b) \cup awaiting'[b]) = 1..(e + 1) /\ Run(b) \cap awaiting'[b] = {}
      BY <1>2, <1>3, <1>4, <2>1
    <3>2. results[b][e + 1] = NoRun
      BY <1>2, CallsAre DEF Run, n
    <3>3. e + 1 \in 0..n
      BY <1>2
    <3>4. (e + 1) - 1 = e /\ position'[b] = (e + 1) + 1
      BY <2>1
    <3>5. QED
      BY <1>2, <2>1, <2>2, <3>1, <3>2, <3>3, <3>4 DEF Begun, n, NoRun
  <2>6. OthersStay(b)
    BY <1>1, <1>6 DEF OthersStay, ToolboxIInv, BatchTypes
  <2>7. \A c \in Batches \ {b} : Waiting(c)' /\ \E x \in Nat : Begun(c, x)'
    BY <1>1, <2>1, <2>6, OthersKeep
  <2>8. QED
    BY <1>5, <2>3, <2>h, <2>4, <2>5, <2>7 DEF ToolboxIInv
<1>7. ASSUME NEW outcome \in Outcomes,
             Ended(b, position[b], outcome),
             position' = [position EXCEPT ![b] = After(b, @, outcome)],
             UNCHANGED <<awaiting, loop>>
      PROVE  ToolboxIInv'
  <2>1. /\ results'[b][e + 1] = outcome
        /\ \A j \in 1..n \ {e + 1} : results'[b][j] = results[b][j]
        /\ \A c \in Batches \ {b} : results'[c] = results[c] /\ Run(c)' = Run(c)
        /\ DOMAIN results' = Batches
        /\ \A c \in Batches : results'[c] \in [1..Len(calls[c]) -> Recorded]
        /\ Run(b)' = Run(b) \cup {e + 1}
        /\ HistoryIsRuns'
    <3> DEFINE i == e + 1
    <3>1. i \in 1..Len(calls[b]) /\ i \notin Run(b) /\ Ended(b, i, outcome)
          /\ outcome \in Outcomes
      BY <1>2, <1>7 DEF n
    <3> HIDE DEF i
    <3>2. /\ results'[b][i] = outcome
          /\ \A j \in 1..n \ {i} : results'[b][j] = results[b][j]
          /\ \A c \in Batches \ {b} : results'[c] = results[c] /\ Run(c)' = Run(c)
          /\ DOMAIN results' = Batches
          /\ \A c \in Batches : results'[c] \in [1..Len(calls[c]) -> Recorded]
          /\ Run(b)' = Run(b) \cup {i}
          /\ HistoryIsRuns'
      BY <3>1, EndedIs DEF n
    <3>3. QED
      BY <3>2 DEF i
  <2>2. /\ position'[b] = IF mode[b] = "stop" /\ outcome = "error" THEN n + 1 ELSE e + 2
        /\ position' \in [Batches -> Nat]
    <3>1. position \in [Batches -> Nat]
      BY DEF ToolboxIInv, BatchTypes
    <3>2. After(b, position[b], outcome) =
              IF mode[b] = "stop" /\ outcome = "error" THEN n + 1 ELSE e + 2
      BY <1>2 DEF After, Stops, n
    <3>3. n + 1 \in Nat /\ e + 2 \in Nat
      <4>1. n \in Nat
        BY <1>1
      <4>2. QED
        BY <4>1
    <3>4. QED
      BY <1>7, <3>1, <3>2, <3>3
  <2>3. BatchTypes'
    BY <1>1, <1>7, <2>1, <2>2 DEF ToolboxIInv, BatchTypes
  <2>4. Waiting(b)'
    BY <1>1, <1>2, <1>7 DEF Waiting, ToolboxIInv
  <2>5. Begun(b, e + 1)'
    <3>1. /\ Run(b)' \cup awaiting'[b] = 1..(e + 1) /\ Run(b)' \cap awaiting'[b] = {}
      BY <1>2, <1>3, <1>4, <1>7, <2>1
    <3>2. mode[b] = "stop" => \A j \in 1..e : results'[b][j] # "error"
      <4>1. \A j \in 1..e : j \in 1..n \ {e + 1}
        <5>1. n \in Nat
          BY <1>1
        <5>2. e + 1 \in 1..n
          BY <1>2
        <5>3. QED
          BY <5>1, <5>2
      <4>2. QED
        BY <4>1, <1>2, <2>1
    <3>3. e + 1 \in 0..n /\ e + 1 > 0 /\ (e + 1) - 1 = e /\ e + 2 = (e + 1) + 1
      BY <1>2
    <3>4. mode[b] = "stop" /\ outcome = "error" => awaiting'[b] = {}
      BY <1>2, <1>7
    <3>5. mode[b] = "stop" /\ outcome = "error" /\ e + 1 < n => position'[b] # (e + 1) + 1
      BY <1>1, <2>2
    <3>6. \/ position'[b] = (e + 1) + 1
          \/ /\ mode[b] = "stop" /\ e + 1 > 0 /\ results'[b][e + 1] = "error"
             /\ position'[b] = n + 1 /\ awaiting'[b] = {}
      BY <2>1, <2>2, <3>3, <3>4
    <3>7. mode[b] = "stop" /\ position'[b] = (e + 1) + 1 /\ e + 1 > 0 /\ e + 1 < n =>
             results'[b][e + 1] # "error"
      BY <2>1, <3>5
    <3>8. QED
      BY <3>1, <3>2, <3>3, <3>6, <3>7 DEF Begun, n
  <2>6. OthersStay(b)
    BY <1>1, <1>7, <2>1 DEF OthersStay, ToolboxIInv, BatchTypes
  <2>7. \A c \in Batches \ {b} : Waiting(c)' /\ \E x \in Nat : Begun(c, x)'
    BY <1>1, <1>7, <2>6, OthersKeep
  <2>8. QED
    BY <1>5, <2>1, <2>3, <2>4, <2>5, <2>7 DEF ToolboxIInv
<1>8. QED
  BY <1>6, <1>7 DEF CallTool, Outcomes

\* An awaited call ends, and its batch goes on.
LEMMA EndCallKeeps ==
    ASSUME ToolboxIInv, NEW b \in Batches, NEW i \in DOMAIN calls[b], EndCall(b, i)
    PROVE  ToolboxIInv'
<1> DEFINE n == Len(calls[b])
<1>1. /\ loop = Free /\ i \in awaiting[b] /\ loop' = b /\ UNCHANGED <<tools, handlers, batch>>
      /\ awaiting' = [awaiting EXCEPT ![b] = awaiting[b] \ {i}]
      /\ n \in Nat /\ i \in 1..n /\ mode[b] \in {"stop", "go on", "parallel"}
  BY CallsAre DEF EndCall, registryVars
<1>2. PICK outcome \in Outcomes :
         /\ Ended(b, i, outcome)
         /\ position' = [position EXCEPT ![b] =
                            IF mode[b] = "parallel" THEN position[b] ELSE After(b, i, outcome)]
  BY DEF EndCall
<1>3. PICK e \in Nat : Begun(b, e)
  BY DEF ToolboxIInv
<1>4. /\ Run(b) \cup awaiting[b] = 1..e /\ Run(b) \cap awaiting[b] = {} /\ i \notin Run(b)
      /\ position[b] = e + 1 /\ i \in 1..e /\ e \in 0..n
  BY <1>1, <1>3 DEF Begun
<1>5. RegistryIsSound'
  BY <1>1 DEF ToolboxIInv, RegistryIsSound
<1>6. /\ batch[b] = "running" /\ b # Free
      /\ mode[b] # "parallel" => awaiting[b] = {i} /\ i = e
      /\ mode[b] = "parallel" => position[b] > n
  <2>1. b # Free
    BY CallsAre
  <2>2. batch[b] = "running"
    BY <1>1 DEF ToolboxIInv, Waiting
  <2>3. mode[b] # "parallel" => awaiting[b] = {e}
    <3>1. mode[b] # "parallel" => awaiting[b] = {} \/ awaiting[b] = {position[b] - 1}
      BY DEF ToolboxIInv, Waiting
    <3>2. awaiting[b] # {}
      BY <1>1
    <3>p. position[b] - 1 = e
      <4>1. position[b] = e + 1
        BY <1>4
      <4>2. QED
        BY <4>1
    <3>3. QED
      BY <3>1, <3>2, <3>p
  <2>4. mode[b] = "parallel" => position[b] > n
    BY <1>1, <2>1, <2>2 DEF ToolboxIInv, Waiting
  <2>5. QED
    BY <1>1, <2>1, <2>2, <2>3, <2>4
<1>7. /\ results'[b][i] = outcome
      /\ \A j \in 1..n \ {i} : results'[b][j] = results[b][j]
      /\ \A c \in Batches \ {b} : results'[c] = results[c] /\ Run(c)' = Run(c)
      /\ DOMAIN results' = Batches
      /\ \A c \in Batches : results'[c] \in [1..Len(calls[c]) -> Recorded]
      /\ Run(b)' = Run(b) \cup {i}
      /\ HistoryIsRuns'
  BY <1>1, <1>2, <1>4, EndedIs
<1> HIDE DEF n
<1>8. /\ awaiting'[b] = awaiting[b] \ {i}
      /\ DOMAIN awaiting' = Batches
      /\ \A c \in Batches \ {b} : awaiting'[c] = awaiting[c]
  BY <1>1 DEF ToolboxIInv, BatchTypes
<1>9. /\ position'[b] = IF mode[b] = "stop" /\ outcome = "error" THEN n + 1 ELSE e + 1
      /\ position' \in [Batches -> Nat]
      /\ \A c \in Batches \ {b} : position'[c] = position[c]
  <2>1. position \in [Batches -> Nat]
    BY DEF ToolboxIInv, BatchTypes
  <2> DEFINE next == IF mode[b] = "parallel" THEN position[b] ELSE After(b, i, outcome)
  <2>2. next = IF mode[b] = "stop" /\ outcome = "error" THEN n + 1 ELSE e + 1
    BY <1>4, <1>6 DEF After, Stops, n
  <2>3. n + 1 \in Nat /\ e + 1 \in Nat
    <3>1. n \in Nat
      BY <1>1
    <3>2. QED
      BY <3>1
  <2>4. position' = [position EXCEPT ![b] = next]
    BY <1>2
  <2> HIDE DEF next
  <2>5. QED
    BY <2>1, <2>2, <2>3, <2>4
<1>10. BatchTypes'
  BY <1>1, <1>7, <1>8, <1>9 DEF ToolboxIInv, BatchTypes
<1>11. Waiting(b)'
  BY <1>1, <1>6, <1>8 DEF Waiting
<1>12. Begun(b, e)'
  <2>1. /\ (Run(b)') \cup awaiting'[b] = 1..e /\ (Run(b)') \cap awaiting'[b] = {}
    <3> DEFINE R == Run(b)
               A == awaiting[b]
    <3>1. R \cup A = 1..e /\ R \cap A = {} /\ i \in A
      BY <1>1, <1>4
    <3>2. Run(b)' = R \cup {i} /\ awaiting'[b] = A \ {i}
      BY <1>7, <1>8
    <3> HIDE DEF R, A
    <3>3. (R \cup {i}) \cup (A \ {i}) = 1..e /\ (R \cup {i}) \cap (A \ {i}) = {}
      BY <3>1
    <3>4. QED
      BY <3>2, <3>3
  <2>2. mode[b] = "stop" => \A j \in 1..(e - 1) : results'[b][j] # "error"
    <3>1. \A j \in 1..(e - 1) : mode[b] = "stop" => j \in 1..n \ {i}
      BY <1>1, <1>4, <1>6
    <3>2. QED
      BY <3>1, <1>3, <1>7 DEF Begun
  <2>3. mode[b] = "stop" => e > 0 /\ i = e /\ awaiting'[b] = {}
    BY <1>4, <1>6, <1>8
  <2>4. \/ position'[b] = e + 1
        \/ /\ mode[b] = "stop" /\ e > 0 /\ results'[b][e] = "error"
           /\ position'[b] = n + 1 /\ awaiting'[b] = {}
    BY <1>7, <1>9, <2>3
  <2>5. mode[b] = "stop" /\ position'[b] = e + 1 /\ e > 0 /\ e < n => results'[b][e] # "error"
    BY <1>1, <1>7, <1>9, <2>3
  <2>6. QED
    BY <1>4, <2>1, <2>2, <2>4, <2>5 DEF Begun, n
<1>13. OthersStay(b)
  BY <1>1, <1>7, <1>8, <1>9 DEF OthersStay
<1>14. \A c \in Batches \ {b} : Waiting(c)' /\ \E x \in Nat : Begun(c, x)'
  BY <1>1, <1>13, OthersKeep
<1>15. QED
  BY <1>5, <1>7, <1>10, <1>11, <1>12, <1>14 DEF ToolboxIInv

\* The registry changes, and no batch.
LEMMA RegistryKeeps ==
    ASSUME ToolboxIInv, RegistryIsSound', UNCHANGED batchVars
    PROVE  ToolboxIInv'
<1>1. UNCHANGED <<loop, batch, position, awaiting, results, history>>
  BY DEF batchVars
<1>2. \A b \in Batches : Run(b)' = Run(b)
  BY <1>1 DEF Run
<1>3. BatchTypes'
  BY <1>1 DEF ToolboxIInv, BatchTypes
<1>6. HistoryIsRuns'
  BY <1>1, <1>2 DEF ToolboxIInv, HistoryIsRuns
<1>7. \A b \in Batches : Waiting(b)'
  BY <1>1 DEF ToolboxIInv, Waiting
<1>4. \A b \in Batches, e \in Nat : Begun(b, e) => Begun(b, e)'
  BY <1>1, <1>2 DEF Begun
<1>5. QED
  BY <1>3, <1>4, <1>6, <1>7 DEF ToolboxIInv

\* Every step keeps the inductive invariant.
LEMMA ToolboxStep == ToolboxIInv /\ [ToolboxNext]_toolboxVars => ToolboxIInv'
<1> SUFFICES ASSUME ToolboxIInv, [ToolboxNext]_toolboxVars
             PROVE  ToolboxIInv'
  OBVIOUS
<1>1. ASSUME NEW t \in Tools, NEW h \in Handlers \cup {NoHandler}, RegisterTool(t, h)
      PROVE  ToolboxIInv'
  <2>1. RegistryIsSound'
    BY <1>1 DEF RegisterTool, ToolboxIInv, RegistryIsSound
  <2>2. QED
    BY <1>1, <2>1, RegistryKeeps DEF RegisterTool
<1>2. ASSUME NEW t \in Tools, NEW s \in {"enabled", "disabled"}, SetToolEnabled(t, s)
      PROVE  ToolboxIInv'
  <2>1. RegistryIsSound'
    BY <1>2 DEF SetToolEnabled, ToolboxIInv, RegistryIsSound
  <2>2. QED
    BY <1>2, <2>1, RegistryKeeps DEF SetToolEnabled, batchVars
<1>3. ASSUME NEW t \in Tools, UnregisterTool(t)
      PROVE  ToolboxIInv'
  <2>1. RegistryIsSound'
    BY <1>3 DEF UnregisterTool, ToolboxIInv, RegistryIsSound
  <2>2. QED
    BY <1>3, <2>1, RegistryKeeps DEF UnregisterTool
<1>4. CASE UNCHANGED toolboxVars
  <2>1. RegistryIsSound'
    BY <1>4 DEF toolboxVars, registryVars, ToolboxIInv, RegistryIsSound
  <2>2. QED
    BY <1>4, <2>1, RegistryKeeps DEF toolboxVars
<1>5. QED
  BY <1>1, <1>2, <1>3, <1>4, StartBatchKeeps, CallToolKeeps, EndBatchKeeps, EndCallKeeps
     DEF ToolboxNext

(***************************************************************************)
(* The history has every execution once, and a batch that has ended has    *)
(* executed each of its calls, or, one that stops at an error, those up to *)
(* the first that failed otherwise than by its time-out, whatever happens  *)
(* to the registry meanwhile: for any number of tools and batches, of any  *)
(* length.                                                                 *)
(***************************************************************************)
THEOREM ToolboxInvariant == ToolboxSpec => []ToolboxInv
<1>1. ToolboxIInv => ToolboxInv
  BY BatchesAreRight
<1>2. QED
  BY <1>1, ToolboxStart, ToolboxStep, PTL DEF ToolboxSpec

-----------------------------------------------------------------------------
(***************************************************************************)
(* Plugins: for any number of them and of events, registered and removed   *)
(* while events run.                                                       *)
(***************************************************************************)
\* The handlers of the list are numbered in the order of their registration,
\* and the tool is that of the last one.
HandlersAreNumbered ==
    /\ plugins \in [PluginNames -> {"absent", "enabled", "disabled"}]
    /\ tool \in PluginNames \cup {Missing}
    /\ triggers \in Seq(PluginNames \X (1..MaxRegistrations))
    /\ Len(triggers) <= MaxRegistrations
    /\ \A k \in 1..Len(triggers) : triggers[k][2] = k
    /\ Len(triggers) > 0 => tool = triggers[Len(triggers)][1]

\* What an event ran is the beginning of the list, as far as its iterator is;
\* what is due to it was in the list when it began, and is there still.
EventFollowsList(e) ==
    /\ event[e].at \in {"new", "running", "done"}
    /\ event[e].index \in 0..Len(triggers)
    /\ event[e].ran \in Seq(PluginNames \X (1..MaxRegistrations))
    /\ Len(event[e].ran) = event[e].index
    /\ \A k \in 1..event[e].index : event[e].ran[k] = triggers[k]
    /\ \A h \in event[e].due : \E k \in 1..Len(triggers) : triggers[k] = h
    /\ event[e].at = "done" =>
         \A h \in event[e].due : \E k \in 1..event[e].index : triggers[k] = h

\* An event under way.
EventRecord == [at : {"new", "running", "done"}, index : Nat,
                ran : Seq(PluginNames \X (1..MaxRegistrations)),
                due : SUBSET (PluginNames \X (1..MaxRegistrations))]

\* The inductive invariant.
PluginsIInv ==
    /\ HandlersAreNumbered
    /\ event \in [Events -> EventRecord]
    /\ \A e \in Events : EventFollowsList(e)

\* The first state has no plugins, and no event has begun.
LEMMA PluginsStart == PluginsInit => PluginsIInv
<1> SUFFICES ASSUME PluginsInit
             PROVE  PluginsIInv
  OBVIOUS
<1>1. <<>> \in Seq(PluginNames \X (1..MaxRegistrations)) /\ Len(<<>>) = 0
  BY EmptySeq
<1>2. HandlersAreNumbered
  BY <1>1, PluginsAssumption DEF PluginsInit, HandlersAreNumbered
<1>3. event \in [Events -> EventRecord]
  BY <1>1 DEF PluginsInit, EventRecord
<1>4. \A e \in Events : /\ event[e].at = "new" /\ event[e].index = 0 /\ event[e].ran = <<>>
                         /\ event[e].due = {}
  BY DEF PluginsInit
<1>5. \A e \in Events : EventFollowsList(e)
  <2>1. Len(triggers) = 0 /\ \A k \in 1..0 : FALSE
    BY <1>1 DEF PluginsInit
  <2> SUFFICES ASSUME NEW e \in Events
               PROVE  EventFollowsList(e)
    OBVIOUS
  <2>2. event[e].index \in 0..Len(triggers)
    BY <1>4, <2>1
  <2>3. /\ event[e].ran \in Seq(PluginNames \X (1..MaxRegistrations))
        /\ Len(event[e].ran) = event[e].index
    BY <1>1, <1>4
  <2>4. \A k \in 1..event[e].index : FALSE
    BY <1>4, <2>1
  <2>5. event[e].at = "new" /\ event[e].due = {}
    BY <1>4
  <2>6. QED
    BY <2>2, <2>3, <2>4, <2>5 DEF EventFollowsList
<1>6. QED
  BY <1>2, <1>3, <1>5 DEF PluginsIInv

\* The numbers make every handler run at most once; at the end no due one is missing.
LEMMA NumbersAreEnough == PluginsIInv => PluginsInv
<1> SUFFICES ASSUME PluginsIInv
             PROVE  PluginsInv
  OBVIOUS
<1>1. ASSUME NEW e \in Events
      PROVE  /\ event[e].at \in {"new", "running", "done"}
             /\ IsInjective(event[e].ran)
             /\ event[e].at = "done" => event[e].due \subseteq ToSet(event[e].ran)
  <2> DEFINE ran == event[e].ran
  <2>1. /\ ran \in Seq(PluginNames \X (1..MaxRegistrations)) /\ Len(ran) = event[e].index
        /\ event[e].index \in 0..Len(triggers) /\ Len(triggers) \in Nat
        /\ \A k \in 1..event[e].index : ran[k] = triggers[k]
        /\ \A k \in 1..Len(triggers) : triggers[k][2] = k
    BY DEF PluginsIInv, EventFollowsList, HandlersAreNumbered
  <2> HIDE DEF ran
  <2>2. DOMAIN ran = 1..Len(ran) /\ Len(ran) \in Nat
    BY <2>1
  <2>3. \A k \in 1..Len(ran) : ran[k][2] = k
    <3>1. ASSUME NEW k \in 1..Len(ran)
          PROVE  ran[k][2] = k
      <4>1. ran[k] = triggers[k] /\ k \in 1..Len(triggers)
        BY <2>1
      <4>2. QED
        BY <2>1, <4>1
    <3>2. QED
      BY <3>1
  <2>4. \A i, j \in DOMAIN ran : ran[i] = ran[j] => i = j
    <3>1. ASSUME NEW i \in DOMAIN ran, NEW j \in DOMAIN ran, ran[i] = ran[j]
          PROVE  i = j
      <4>1. ran[i][2] = i /\ ran[j][2] = j
        BY <2>2, <2>3
      <4>2. QED
        BY <3>1, <4>1
    <3>2. QED
      BY <3>1
  <2>5. /\ event[e].at \in {"new", "running", "done"}
        /\ \A h \in event[e].due : event[e].at = "done" => \E k \in DOMAIN ran : ran[k] = h
    <3>1. EventFollowsList(e)
      BY DEF PluginsIInv
    <3>2. /\ event[e].at \in {"new", "running", "done"}
          /\ event[e].at = "done" =>
               \A h \in event[e].due : \E k \in 1..event[e].index : triggers[k] = h
      BY <3>1, Zenon DEF EventFollowsList
    <3>3. ASSUME NEW h \in event[e].due, event[e].at = "done"
          PROVE  \E k \in DOMAIN ran : ran[k] = h
      <4>1. PICK k \in 1..event[e].index : triggers[k] = h
        BY <3>2, <3>3
      <4>2. k \in DOMAIN ran
        BY <2>1, <2>2
      <4>3. QED
        BY <2>1, <4>1, <4>2
    <3>4. QED
      BY <3>2, <3>3
  <2>6. IsInjective(ran)
    BY <2>4 DEF IsInjective
  <2>7. event[e].at = "done" => event[e].due \subseteq ToSet(ran)
    BY <2>5 DEF ToSet
  <2>8. QED
    BY <2>5, <2>6, <2>7 DEF ran
<1>2. triggers # <<>> => tool = Last(triggers)[1]
  <2>1. triggers # <<>> => Len(triggers) > 0
    BY DEF PluginsIInv, HandlersAreNumbered
  <2>2. QED
    BY <2>1 DEF PluginsIInv, HandlersAreNumbered, Last
<1>3. QED
  BY <1>1, <1>2 DEF PluginsIInv, HandlersAreNumbered, PluginsInv

\* A registration appends a handler that was never there.
LEMMA RegisterPluginKeeps ==
    ASSUME PluginsIInv, NEW p \in PluginNames, RegisterPlugin(p)
    PROVE  PluginsIInv'
<1> DEFINE H == PluginNames \X (1..MaxRegistrations)
           n == Len(triggers)
           h == <<p, n + 1>>
<1>1. /\ triggers \in Seq(H) /\ n \in Nat /\ n < MaxRegistrations /\ MaxRegistrations \in Nat
      /\ \A k \in 1..n : triggers[k][2] = k
      /\ triggers' = Append(triggers, h) /\ tool' = p /\ event' = event
  BY PluginsAssumption DEF RegisterPlugin, PluginsIInv, HandlersAreNumbered
<1>2. h \in H
  BY <1>1
<1>3. h[2] = n + 1 /\ h[1] = p
  OBVIOUS
<1>4. plugins' \in [PluginNames -> {"absent", "enabled", "disabled"}]
  BY DEF RegisterPlugin, PluginsIInv, HandlersAreNumbered
<1> HIDE DEF h, H
<1>5. /\ triggers' \in Seq(H) /\ Len(triggers') = n + 1 /\ triggers'[n + 1] = h
      /\ \A k \in 1..n : triggers'[k] = triggers[k]
  BY <1>1, <1>2, AppendProperties
<1> HIDE DEF n
<1>6. \A k \in 1..(n + 1) : triggers'[k][2] = k
  BY <1>1, <1>3, <1>5
<1>7. HandlersAreNumbered'
  BY <1>1, <1>3, <1>4, <1>5, <1>6 DEF HandlersAreNumbered, H
<1>8. ASSUME NEW e \in Events
      PROVE  EventFollowsList(e)'
  <2>1. /\ event[e].index \in 0..n
        /\ \A k \in 1..event[e].index : event[e].ran[k] = triggers[k]
        /\ \A x \in event[e].due : \E k \in 1..n : triggers[k] = x
        /\ event[e].at = "done" =>
             \A x \in event[e].due : \E k \in 1..event[e].index : triggers[k] = x
    BY DEF PluginsIInv, EventFollowsList, n
  <2>2. \A k \in 1..event[e].index : event[e].ran[k] = triggers'[k]
    BY <2>1, <1>1, <1>5
  <2>3. \A x \in event[e].due : \E k \in 1..(n + 1) : triggers'[k] = x
    BY <2>1, <1>1, <1>5
  <2>4. event[e].at = "done" =>
             \A x \in event[e].due : \E k \in 1..event[e].index : triggers'[k] = x
    BY <2>1, <1>1, <1>5
  <2>5. event[e].index \in 0..(n + 1)
    BY <2>1, <1>1
  <2>6. QED
    BY <1>1, <1>5, <2>2, <2>3, <2>4, <2>5 DEF PluginsIInv, EventFollowsList
<1>9. QED
  BY <1>1, <1>7, <1>8 DEF PluginsIInv

\* An event begins with the handlers that are there.
LEMMA StartEventKeeps ==
    ASSUME PluginsIInv, NEW e \in Events, StartEvent(e)
    PROVE  PluginsIInv'
<1>1. /\ event' = [event EXCEPT ![e] = [event[e] EXCEPT !.at = "running", !.due = ToSet(triggers)]]
      /\ UNCHANGED <<plugins, tool, triggers>>
  BY DEF StartEvent, PluginsIInv, EventRecord
<1>2. /\ ToSet(triggers) \subseteq PluginNames \X (1..MaxRegistrations)
      /\ \A h \in ToSet(triggers) : \E k \in 1..Len(triggers) : triggers[k] = h
  BY DEF PluginsIInv, HandlersAreNumbered, ToSet
<1>3. event' \in [Events -> EventRecord]
  <2> DEFINE V == [event[e] EXCEPT !.at = "running", !.due = ToSet(triggers)]
  <2>1. event[e] \in EventRecord
    BY DEF PluginsIInv
  <2>2. V \in EventRecord
    BY <1>2, <2>1 DEF EventRecord
  <2> HIDE DEF V
  <2>3. QED
    BY <1>1, <2>2 DEF PluginsIInv, V
<1>4. \A x \in Events : EventFollowsList(x)'
  BY <1>1, <1>2 DEF PluginsIInv, EventRecord, EventFollowsList
<1>5. QED
  BY <1>1, <1>3, <1>4 DEF PluginsIInv, HandlersAreNumbered

\* An event runs the handler at its index of the list as it is now.
LEMMA RunHandlerKeeps ==
    ASSUME PluginsIInv, NEW e \in Events, RunHandler(e)
    PROVE  PluginsIInv'
<1> DEFINE H == PluginNames \X (1..MaxRegistrations)
           i == event[e].index
           ran == event[e].ran
           h == triggers[i + 1]
<1>1. /\ i \in Nat /\ i < Len(triggers) /\ Len(triggers) \in Nat /\ triggers \in Seq(H)
      /\ ran \in Seq(H) /\ Len(ran) = i
      /\ \A k \in 1..i : ran[k] = triggers[k]
      /\ event[e].at = "running"
  BY DEF RunHandler, PluginsIInv, EventFollowsList, EventRecord, HandlersAreNumbered
<1>2. h \in H
  BY <1>1
<1>3. /\ event' = [event EXCEPT ![e] = [event[e] EXCEPT !.index = i + 1, !.ran = Append(ran, h)]]
      /\ UNCHANGED <<plugins, tool, triggers>>
  BY DEF RunHandler, PluginsIInv, EventRecord
<1>h. H = PluginNames \X (1..MaxRegistrations)
  OBVIOUS
<1> HIDE DEF H
<1>4. /\ Append(ran, h) \in Seq(H) /\ Len(Append(ran, h)) = i + 1 /\ Append(ran, h)[i + 1] = h
      /\ \A k \in 1..i : Append(ran, h)[k] = ran[k]
  BY <1>1, <1>2, AppendProperties
<1>5. \A k \in 1..(i + 1) : Append(ran, h)[k] = triggers[k]
  BY <1>1, <1>4
<1>6. event' \in [Events -> EventRecord]
  <2> DEFINE V == [event[e] EXCEPT !.index = i + 1, !.ran = Append(ran, h)]
  <2>1. event[e] \in EventRecord /\ i + 1 \in Nat
    BY <1>1 DEF PluginsIInv
  <2> HIDE DEF ran, h, i
  <2>2. V \in EventRecord
    BY <1>4, <1>h, <2>1 DEF EventRecord
  <2> HIDE DEF V
  <2>3. QED
    BY <1>3, <2>2 DEF PluginsIInv, V
<1>7. \A x \in Events : EventFollowsList(x)'
  <2>1. EventFollowsList(e)'
    <3>1. /\ event'[e].at = "running" /\ event'[e].index = i + 1 /\ event'[e].due = event[e].due
          /\ event'[e].ran = Append(ran, h)
      BY <1>1, <1>3 DEF PluginsIInv, EventRecord
    <3>2. \A x \in event[e].due : \E k \in 1..Len(triggers) : triggers[k] = x
      BY DEF PluginsIInv, EventFollowsList
    <3> HIDE DEF i, ran, h
    <3>3. i + 1 \in 0..Len(triggers) /\ triggers' = triggers
      BY <1>1, <1>3
    <3>4. QED
      BY <1>4, <1>5, <1>h, <3>1, <3>2, <3>3 DEF EventFollowsList
  <2>2. \A x \in Events \ {e} : event'[x] = event[x]
    BY <1>3 DEF PluginsIInv
  <2>3. QED
    BY <2>1, <2>2, <1>3 DEF PluginsIInv, EventFollowsList
<1>8. QED
  BY <1>3, <1>6, <1>7 DEF PluginsIInv, HandlersAreNumbered

\* An event ends behind the last handler of the list.
LEMMA EndEventKeeps ==
    ASSUME PluginsIInv, NEW e \in Events, EndEvent(e)
    PROVE  PluginsIInv'
<1>1. /\ event' = [event EXCEPT ![e] = [event[e] EXCEPT !.at = "done"]]
      /\ event[e].index = Len(triggers)
      /\ UNCHANGED <<plugins, tool, triggers>>
  BY DEF EndEvent, PluginsIInv, EventRecord, EventFollowsList, HandlersAreNumbered
<1>2. event' \in [Events -> EventRecord]
  BY <1>1 DEF PluginsIInv, EventRecord
<1>3. \A x \in Events : EventFollowsList(x)'
  BY <1>1 DEF PluginsIInv, EventRecord, EventFollowsList
<1>4. QED
  BY <1>1, <1>2, <1>3 DEF PluginsIInv, HandlersAreNumbered

\* Every step keeps the inductive invariant.
LEMMA PluginsStep == PluginsIInv /\ [PluginsNext]_pluginVars => PluginsIInv'
<1> SUFFICES ASSUME PluginsIInv, [PluginsNext]_pluginVars
             PROVE  PluginsIInv'
  OBVIOUS
<1>1. ASSUME NEW p \in PluginNames,
             \/ InstallPlugin(p) \/ UninstallPlugin(p)
             \/ \E s \in {"enabled", "disabled"} : TogglePlugin(p, s)
      PROVE  PluginsIInv'
  <2>1. plugins' \in [PluginNames -> {"absent", "enabled", "disabled"}]
    BY <1>1 DEF InstallPlugin, UninstallPlugin, TogglePlugin, PluginsIInv, HandlersAreNumbered
  <2>2. UNCHANGED <<tool, triggers, event>>
    BY <1>1 DEF InstallPlugin, UninstallPlugin, TogglePlugin, Remaining
  <2>3. QED
    BY <2>1, <2>2 DEF PluginsIInv, HandlersAreNumbered, EventFollowsList
<1>2. CASE UNCHANGED pluginVars
  BY <1>2 DEF pluginVars, PluginsIInv, HandlersAreNumbered, EventFollowsList
<1>3. QED
  BY <1>1, <1>2, RegisterPluginKeeps, StartEventKeeps, RunHandlerKeeps, EndEventKeeps
     DEF PluginsNext

(***************************************************************************)
(* An event runs no handler twice and, by its end, each one that was there *)
(* when it began, although plugins come and go while it awaits; and a tool *)
(* once offered is never lost: for any number of plugins and events.       *)
(***************************************************************************)
THEOREM PluginsInvariant == PluginsSpec => []PluginsInv
<1>1. PluginsIInv => PluginsInv
  BY NumbersAreEnough
<1>2. QED
  BY <1>1, PluginsStart, PluginsStep, PTL DEF PluginsSpec

-----------------------------------------------------------------------------
(***************************************************************************)
(* Stream buffers, for any number of streams, any capacity and any number  *)
(* of chunks.                                                              *)
(***************************************************************************)
\* What a stream took is what it handed on and what its buffer still has.
TakenIsKept ==
    \A s \in Streams :
        /\ accepted[s] = flushed[s] \o buffer[s]
        /\ Len(buffer[s]) <= Capacity
        /\ s \in buffered => flow[s] # "unknown"

\* The inductive invariant.
StreamIInv == StreamTypeOK /\ TakenIsKept

\* The first state has no streams.
LEMMA StreamStart == StreamInit => StreamIInv
<1> SUFFICES ASSUME StreamInit
             PROVE  StreamIInv
  OBVIOUS
<1>1. <<>> \in Seq(1..MaxChunks) /\ Len(<<>>) = 0 /\ <<>> \o <<>> = <<>>
  BY EmptySeq
<1>2. StreamTypeOK
  BY <1>1, StreamAssumption DEF StreamInit, StreamTypeOK
<1>3. TakenIsKept
  BY <1>1, StreamAssumption DEF StreamInit, TakenIsKept
<1>4. QED
  BY <1>2, <1>3 DEF StreamIInv

\* A stream whose buffers are forgotten.
LEMMA ForgottenKeeps ==
    ASSUME StreamIInv, NEW s \in Streams, Forgotten(s),
           opened \subseteq opened' /\ opened' \subseteq Streams,
           flow' \in [Streams -> {"unknown", "go", "pause"}],
           \A x \in Streams \ {s} : flow'[x] = flow[x],
           offered' = offered
    PROVE  StreamIInv'
<1>1. <<>> \in Seq(1..MaxChunks) /\ Len(<<>>) = 0 /\ <<>> \o <<>> = <<>> /\ 0 <= Capacity
  BY EmptySeq, StreamAssumption
<1>2. StreamTypeOK'
  BY <1>1 DEF StreamIInv, StreamTypeOK, Forgotten
<1>3. TakenIsKept'
  BY <1>1 DEF StreamIInv, StreamTypeOK, TakenIsKept, Forgotten
<1>4. QED
  BY <1>2, <1>3 DEF StreamIInv

\* A chunk is taken into the buffer, or refused when it is full.
LEMMA EnqueueKeeps ==
    ASSUME StreamIInv, NEW s \in Streams, Enqueue(s)
    PROVE  StreamIInv'
<1> DEFINE C == 1..MaxChunks
           x == offered + 1
           b == buffer[s]
           a == accepted[s]
           f == flushed[s]
<1>1. /\ x \in C /\ offered' = x
      /\ b \in Seq(C) /\ a \in Seq(C) /\ f \in Seq(C) /\ Len(b) \in Nat
      /\ a = f \o b /\ Len(b) <= Capacity /\ Capacity \in Nat
      /\ UNCHANGED <<opened, flushed>>
  BY StreamAssumption DEF StreamIInv, StreamTypeOK, TakenIsKept, Enqueue
<1>2. /\ buffered' = buffered \cup {s} /\ buffered' \subseteq opened
      /\ flow' = [flow EXCEPT ![s] = FlowOf(s)]
      /\ FlowOf(s) \in {"go", "pause"}
  BY DEF StreamIInv, StreamTypeOK, TakenIsKept, Enqueue, FlowOf
<1>h. C = 1..MaxChunks
  OBVIOUS
<1> HIDE DEF C, x
<1>3. \/ UNCHANGED <<buffer, accepted>>
      \/ /\ Len(b) < Capacity
         /\ buffer' = [buffer EXCEPT ![s] = Append(b, x)]
         /\ accepted' = [accepted EXCEPT ![s] = Append(a, x)]
  <2>1. Len(Append(b, x)) # Len(b)
    BY <1>1, AppendProperties
  <2>2. CASE FlowOf(s) = "pause" \/ Len(b) >= Capacity
    BY <2>2 DEF Enqueue, Pushed, StreamIInv, StreamTypeOK
  <2>3. CASE FlowOf(s) # "pause" /\ Len(b) < Capacity
    <3>1. Pushed(s, offered + 1) = Append(b, x)
      BY <2>3, <1>1 DEF Pushed, x
    <3>2. Pushed(s, offered + 1) # buffer[s]
      BY <3>1, <2>1
    <3>3. /\ buffer' = [buffer EXCEPT ![s] = Pushed(s, offered + 1)]
          /\ accepted' = [accepted EXCEPT ![s] = Append(accepted[s], offered + 1)]
      BY <3>2, <2>3 DEF Enqueue
    <3>4. QED
      BY <3>1, <3>3, <2>3 DEF x
  <2>4. FlowOf(s) = "pause" \/ Len(b) >= Capacity \/ (FlowOf(s) # "pause" /\ Len(b) < Capacity)
    BY <1>1
  <2>5. QED
    BY <2>2, <2>3, <2>4
<1>4. /\ Append(b, x) \in Seq(C) /\ Append(a, x) \in Seq(C) /\ Len(Append(b, x)) = Len(b) + 1
      /\ Append(a, x) = f \o Append(b, x)
  <2>1. Append(f \o b, x) = f \o Append(b, x)
    <3>1. <<x>> \in Seq(C) /\ f \o b \in Seq(C)
      BY <1>1, ConcatProperties
    <3>2. Append(f \o b, x) = (f \o b) \o <<x>> /\ Append(b, x) = b \o <<x>>
      BY <1>1, <3>1, AppendIsConcat
    <3>3. (f \o b) \o <<x>> = f \o (b \o <<x>>)
      <4> DEFINE y == <<x>>
      <4>1. y \in Seq(C) /\ b \in Seq(C) /\ f \in Seq(C)
        BY <1>1, <3>1
      <4> HIDE DEF y, b, f
      <4>2. QED
        BY <4>1, ConcatAssociative DEF y
    <3>4. QED
      BY <3>2, <3>3
  <2>2. QED
    BY <1>1, <2>1, AppendProperties
<1>5. StreamTypeOK'
  <2>1. /\ buffer' \in [Streams -> Seq(C)] /\ accepted' \in [Streams -> Seq(C)]
        /\ offered' \in 0..MaxChunks
    <3>1. buffer \in [Streams -> Seq(C)] /\ accepted \in [Streams -> Seq(C)]
      BY <1>h DEF StreamIInv, StreamTypeOK
    <3>2. offered' \in 0..MaxChunks
      BY <1>1, <1>h, StreamAssumption
    <3> HIDE DEF a, b, f
    <3>3. QED
      BY <1>3, <1>4, <3>1, <3>2
  <2>2. QED
    BY <1>1, <1>2, <1>h, <2>1 DEF StreamIInv, StreamTypeOK
<1>6. \A t \in Streams \ {s} : /\ buffer'[t] = buffer[t] /\ accepted'[t] = accepted[t]
                               /\ flow'[t] = flow[t]
  BY <1>2, <1>3 DEF StreamIInv, StreamTypeOK
<1>7. accepted'[s] = flushed'[s] \o buffer'[s] /\ Len(buffer'[s]) <= Capacity /\ flow'[s] # "unknown"
  <2>1. flow'[s] # "unknown"
    BY <1>2 DEF StreamIInv, StreamTypeOK
  <2>2. CASE UNCHANGED <<buffer, accepted>>
    BY <1>1, <2>1, <2>2
  <2>3. CASE /\ Len(b) < Capacity
             /\ buffer' = [buffer EXCEPT ![s] = Append(b, x)]
             /\ accepted' = [accepted EXCEPT ![s] = Append(a, x)]
    <3>1. buffer'[s] = Append(b, x) /\ accepted'[s] = Append(a, x) /\ flushed'[s] = f
      BY <1>1, <2>3 DEF StreamIInv, StreamTypeOK
    <3>2. Len(b) + 1 <= Capacity
      BY <1>1, <2>3
    <3> HIDE DEF a, b, f
    <3>3. accepted'[s] = flushed'[s] \o buffer'[s]
      BY <1>4, <3>1, Zenon
    <3>4. Len(buffer'[s]) = Len(b) + 1
      BY <1>4, <3>1, Zenon
    <3>5. QED
      BY <2>1, <3>2, <3>3, <3>4
  <2>4. QED
    BY <1>3, <2>2, <2>3
<1>8. TakenIsKept'
  BY <1>1, <1>2, <1>6, <1>7 DEF StreamIInv, TakenIsKept
<1>9. QED
  BY <1>5, <1>8 DEF StreamIInv

\* A flush hands on all that the buffer has.
LEMMA FlushKeeps ==
    ASSUME StreamIInv, NEW s \in Streams, Flush(s)
    PROVE  StreamIInv'
<1> DEFINE C == 1..MaxChunks
<1>1. /\ buffer[s] \in Seq(C) /\ flushed[s] \in Seq(C) /\ accepted[s] = flushed[s] \o buffer[s]
      /\ flushed' = [flushed EXCEPT ![s] = flushed[s] \o buffer[s]]
      /\ buffer' = [buffer EXCEPT ![s] = <<>>]
      /\ UNCHANGED <<opened, buffered, flow, offered, accepted>>
  BY DEF StreamIInv, StreamTypeOK, TakenIsKept, Flush
<1>h. C = 1..MaxChunks
  OBVIOUS
<1> HIDE DEF C
<1>2. /\ flushed[s] \o buffer[s] \in Seq(C) /\ <<>> \in Seq(C) /\ Len(<<>>) = 0
      /\ (flushed[s] \o buffer[s]) \o <<>> = flushed[s] \o buffer[s]
  BY <1>1, ConcatProperties, EmptySeq, ConcatEmptySeq
<1>3. StreamTypeOK'
  BY <1>1, <1>2, <1>h DEF StreamIInv, StreamTypeOK
<1>4. TakenIsKept'
  <2>1. /\ buffer'[s] = <<>> /\ flushed'[s] = flushed[s] \o buffer[s]
        /\ \A t \in Streams \ {s} : buffer'[t] = buffer[t] /\ flushed'[t] = flushed[t]
    BY <1>1 DEF StreamIInv, StreamTypeOK
  <2>2. \A t \in Streams : /\ accepted[t] = flushed[t] \o buffer[t]
                           /\ Len(buffer[t]) <= Capacity
                           /\ t \in buffered => flow[t] # "unknown"
    BY DEF StreamIInv, TakenIsKept
  <2>3. accepted[s] = flushed'[s] \o buffer'[s] /\ Len(buffer'[s]) <= Capacity
    <3>1. accepted[s] = flushed'[s] \o buffer'[s]
      BY <1>1, <1>2, <2>1, Zenon
    <3>2. Len(buffer'[s]) = 0
      BY <1>2, <2>1, Zenon
    <3>3. QED
      BY <3>1, <3>2, StreamAssumption
  <2>4. QED
    BY <1>1, <2>1, <2>2, <2>3 DEF TakenIsKept
<1>5. QED
  BY <1>3, <1>4 DEF StreamIInv

\* Every step keeps the inductive invariant.
LEMMA StreamStep == StreamIInv /\ [StreamNext]_streamVars => StreamIInv'
<1> SUFFICES ASSUME StreamIInv, [StreamNext]_streamVars
             PROVE  StreamIInv'
  OBVIOUS
<1>1. ASSUME NEW s \in Streams, CreateStream(s)
      PROVE  StreamIInv'
  <2>1. /\ Forgotten(s) /\ opened \subseteq opened' /\ opened' \subseteq Streams
        /\ flow' \in [Streams -> {"unknown", "go", "pause"}]
        /\ \A x \in Streams \ {s} : flow'[x] = flow[x]
        /\ offered' = offered
    BY <1>1 DEF CreateStream, StreamIInv, StreamTypeOK
  <2>2. QED
    BY <2>1, ForgottenKeeps
<1>2. ASSUME NEW s \in Streams, CancelStream(s)
      PROVE  StreamIInv'
  <2>1. /\ Forgotten(s) /\ opened \subseteq opened' /\ opened' \subseteq Streams
        /\ flow' \in [Streams -> {"unknown", "go", "pause"}]
        /\ \A x \in Streams \ {s} : flow'[x] = flow[x]
        /\ offered' = offered
    BY <1>2 DEF CancelStream, StreamIInv, StreamTypeOK
  <2>2. QED
    BY <2>1, ForgottenKeeps
<1>3. ASSUME NEW s \in Streams, NEW permitted \in BOOLEAN, HandleBackpressure(s, permitted)
      PROVE  StreamIInv'
  BY <1>3 DEF HandleBackpressure, StreamIInv, StreamTypeOK, TakenIsKept
<1>4. CASE UNCHANGED streamVars
  BY <1>4 DEF streamVars, StreamIInv, StreamTypeOK, TakenIsKept
<1>5. QED
  BY <1>1, <1>2, <1>3, <1>4, EnqueueKeeps, FlushKeeps DEF StreamNext

-----------------------------------------------------------------------------
(***************************************************************************)
(* The pieces of a chunk, for any length and any size of a piece.          *)
(***************************************************************************)
\* Division with a remainder.
LEMMA DivisionIs ==
    ASSUME NEW a \in Nat, NEW c \in Nat \ {0}
    PROVE  /\ a \div c \in Nat /\ a % c \in 0..(c - 1)
           /\ a = (a \div c) * c + (a % c)
OBVIOUS

\* A quotient is the one whose remainder is smaller than the divisor.
LEMMA RemainderIsUnique ==
    ASSUME NEW a \in Nat, NEW c \in Nat \ {0}, NEW q \in Nat, NEW r \in 0..(c - 1), a = q * c + r
    PROVE  a % c = r
<1> DEFINE p == a \div c
           s == a % c
<1>1. p \in Nat /\ s \in 0..(c - 1) /\ a = p * c + s
  BY DivisionIs
<1> HIDE DEF p, s
<1>2. (p - q) * c = r - s
  BY <1>1
<1>3. p = q
  <2>1. ~(p - q >= 1)
    <3> SUFFICES ASSUME p - q >= 1
                 PROVE  FALSE
      OBVIOUS
    <3>1. (p - q) * c >= c
      BY <1>1
    <3>2. QED
      BY <3>1, <1>1, <1>2
  <2>2. ~(q - p >= 1)
    <3> SUFFICES ASSUME q - p >= 1
                 PROVE  FALSE
      OBVIOUS
    <3>1. (q - p) * c >= c
      BY <1>1
    <3>2. (q - p) * c = s - r
      BY <1>1
    <3>3. QED
      BY <3>1, <3>2, <1>1
  <2>3. QED
    BY <2>1, <2>2, <1>1
<1>4. QED
  BY <1>1, <1>3 DEF s

\* The number of pieces of a long chunk: all but the last are full.
LEMMA RoundedUp ==
    ASSUME NEW a \in Nat \ {0}, NEW c \in Nat \ {0}, NEW n, n = (a + c - 1) \div c
    PROVE  n \in Nat \ {0} /\ (n - 1) * c < a /\ a <= n * c
<1> DEFINE b == a + c - 1
           r == b % c
<1>1. n \in Nat /\ r \in 0..(c - 1) /\ b = n * c + r /\ b = a + c - 1
  <2>1. b \in Nat
    OBVIOUS
  <2> HIDE DEF b
  <2>2. n = b \div c
    BY DEF b
  <2>3. QED
    BY <2>1, <2>2, DivisionIs DEF b
<1> HIDE DEF b, r
<1>2. n # 0
  BY <1>1
<1>3. (n - 1) * c = n * c - c
  BY <1>1
<1>4. QED
  BY <1>1, <1>2, <1>3

\* The pieces of a chunk of any length add up to it, and none is empty or too long.
LEMMA PiecesAddUp ==
    ASSUME NEW length \in Nat
    PROVE  LET p == Pieces(length)
           IN  /\ RunningSum(p)[Len(p)] = length
               /\ \A i \in DOMAIN p : p[i] <= ChunkSize /\ (length > 0 => p[i] > 0)
<1> DEFINE p == Pieces(length)
           S == RunningSum(p)
           C == ChunkSize
           n == (length + C - 1) \div C
<1>c. C \in Nat \ {0}
  BY StreamAssumption
<1>1. CASE length <= C
  <2>1. p = <<length>>
    BY <1>1 DEF Pieces
  <2>2. p \in Seq(Nat) /\ Len(p) = 1 /\ p[1] = length /\ DOMAIN p = {1}
    BY <2>1
  <2>3. S[0] = 0 /\ \A k \in 1..Len(p) : S[k] = S[k - 1] + p[k]
    BY <2>2, RunningSumIs DEF IsRunningSum
  <2> HIDE DEF p, S
  <2>4. S[1] = length
    BY <2>2, <2>3
  <2>5. QED
    BY <2>2, <2>4, <1>1, <1>c DEF p, S
<1>2. CASE length > C
  <2>1. /\ n \in Nat \ {0} /\ (n - 1) * C < length /\ length <= n * C /\ length \in Nat \ {0}
    <3>1. length \in Nat \ {0}
      BY <1>2, <1>c
    <3> HIDE DEF n, C
    <3>2. QED
      BY <3>1, <1>c, RoundedUp DEF n
  <2>2. p = [i \in 1..n |-> IF i * C <= length THEN C ELSE length % C]
    BY <1>2, <1>c DEF Pieces
  <2> HIDE DEF n, C
  <2>3. \A i \in 1..(n - 1) : i * C <= length
    <3> TAKE i \in 1..(n - 1)
    <3>1. i \in Nat /\ n \in Nat /\ C \in Nat /\ i <= n - 1
      BY <2>1, <1>c
    <3>2. i * C <= (n - 1) * C
      BY <3>1
    <3>3. i * C \in Int /\ (n - 1) * C \in Int
      BY <3>1
    <3>4. QED
      BY <3>2, <3>3, <2>1
  <2>4. (IF n * C <= length THEN C ELSE length % C) = length - (n - 1) * C
    <3>1. n * C = (n - 1) * C + C
      BY <2>1, <1>c
    <3>2. CASE n * C <= length
      BY <3>1, <3>2, <2>1, <1>c
    <3>3. CASE ~(n * C <= length)
      <4>1. length - (n - 1) * C \in 0..(C - 1) /\ length = (n - 1) * C + (length - (n - 1) * C)
        BY <3>1, <3>3, <2>1, <1>c
      <4>2. length % C = length - (n - 1) * C
        <5> DEFINE q == n - 1
                   r == length - q * C
        <5>1. q \in Nat /\ r \in 0..(C - 1) /\ length = q * C + r
          BY <4>1, <2>1
        <5> HIDE DEF q, r
        <5>2. length % C = r
          BY <5>1, <1>c, RemainderIsUnique
        <5>3. QED
          BY <5>2 DEF q, r
      <4>3. QED
        BY <3>3, <4>2
    <3>4. QED
      BY <3>2, <3>3
  <2> DEFINE last == length - (n - 1) * C
  <2>l. last \in Nat /\ last > 0 /\ last <= C
    <3>1. (n - 1) * C \in Int /\ n * C = (n - 1) * C + C
      BY <2>1, <1>c
    <3>2. QED
      BY <3>1, <2>1, <1>c
  <2>5. p = [i \in 1..n |-> IF i < n THEN C ELSE last]
    <3>1. \A i \in 1..n : i < n => i \in 1..(n - 1)
      BY <2>1
    <3>2. \A i \in 1..n : i < n \/ i = n
      BY <2>1
    <3> HIDE DEF last
    <3>3. \A i \in 1..n : (IF i * C <= length THEN C ELSE length % C) = IF i < n THEN C ELSE last
      BY <3>1, <3>2, <2>1, <2>3, <2>4 DEF last
    <3> HIDE DEF p
    <3>4. QED
      BY <2>2, <3>3
  <2> HIDE DEF last, p
  <2>6. p \in Seq(Nat) /\ Len(p) = n /\ DOMAIN p = 1..n
    BY <2>5, <2>1, <2>l, <1>c
  <2>7. S[0] = 0 /\ \A k \in 1..n : S[k] = S[k - 1] + p[k]
    BY <2>6, RunningSumIs DEF IsRunningSum
  <2> HIDE DEF S
  <2>8. \A k \in 0..(n - 1) : S[k] = k * C
    <3> DEFINE T == {k \in Nat : k <= n - 1 => S[k] = k * C}
    <3>1. 0 \in T
      BY <2>7, <1>c
    <3>2. ASSUME NEW k \in T
          PROVE  k + 1 \in T
      <4> SUFFICES ASSUME k + 1 <= n - 1
                   PROVE  S[k + 1] = (k + 1) * C
        OBVIOUS
      <4>1. S[k] = k * C
        BY <2>1
      <4>2. k + 1 \in 1..n /\ (k + 1) - 1 = k /\ k + 1 < n
        BY <2>1
      <4>3. p[k + 1] = C
        BY <4>2, <2>5
      <4>4. S[k + 1] = S[k] + p[k + 1]
        BY <4>2, <2>7
      <4>5. (k + 1) * C = k * C + C
        BY <1>c
      <4>6. QED
        BY <4>1, <4>3, <4>4, <4>5
    <3>3. T \subseteq Nat /\ \A k \in T : k + 1 \in T
      BY <3>2
    <3> HIDE DEF T
    <3>4. T = Nat
      BY <3>1, <3>3, Induction
    <3>5. QED
      BY <3>4, <2>1 DEF T
  <2>9. S[n] = length
    <3>1. S[n - 1] = (n - 1) * C /\ p[n] = last
      BY <2>1, <2>5, <2>8
    <3>2. S[n] = S[n - 1] + p[n]
      BY <2>1, <2>7
    <3>3. (n - 1) * C \in Int
      BY <2>1, <1>c
    <3>4. QED
      BY <3>1, <3>2, <3>3 DEF last
  <2>10. \A i \in 1..n : p[i] <= C /\ p[i] > 0
    BY <2>5, <2>l, <1>c
  <2>11. QED
    BY <2>6, <2>9, <2>10 DEF S, p, C
<1>3. QED
  BY <1>1, <1>2, <1>c

\* The invariant of the buffers and the lemma about the pieces are what the runs check.
LEMMA BuffersAreRight == StreamIInv => StreamInv
<1> SUFFICES ASSUME StreamIInv
             PROVE  StreamInv
  OBVIOUS
<1>1. PiecesAreRight
  BY PiecesAddUp, StreamAssumption DEF PiecesAreRight
<1>2. QED
  BY <1>1 DEF StreamIInv, StreamInv, TakenIsKept

(***************************************************************************)
(* What a stream has accepted is what was flushed and what is still        *)
(* buffered, in order, within its capacity; and the pieces of a chunk add  *)
(* up to it: for any number of streams, any capacity, length and size of a *)
(* piece.                                                                  *)
(***************************************************************************)
THEOREM StreamInvariant == StreamSpec => []StreamInv
<1>1. StreamIInv => StreamInv
  BY BuffersAreRight
<1>2. QED
  BY <1>1, StreamStart, StreamStep, PTL DEF StreamSpec

-----------------------------------------------------------------------------
(***************************************************************************)
(* Admin metrics, for any number of threads, session rows and days.        *)
(***************************************************************************)
\* The inductive invariant: rows have days that were.
MetricsIInv ==
    /\ day \in 1..LastDay
    /\ thread_day \in [ThreadIds -> 0..LastDay]
    /\ session_day \in [SessionRows -> 0..LastDay]
    /\ session_of \in [SessionRows -> ThreadIds]
    /\ question_day \in [Questions -> 0..LastDay]

\* The first state has the types of the invariant.
LEMMA MetricsStart == MetricsInit => MetricsIInv
BY MetricsAssumption DEF MetricsInit, MetricsIInv

\* So has every later one.
LEMMA MetricsStep == MetricsIInv /\ [MetricsNext]_metricsVars => MetricsIInv'
BY MetricsAssumption
   DEF MetricsIInv, MetricsNext, OpenThread, StartSession, AskQuestion, NextDay, metricsVars

\* The join counts every recent thread once, and every session of theirs once.
LEMMA JoinCountsOnce ==
    ASSUME NEW range \in Ranges
    PROVE  /\ Conversations(range) = Cardinality(RecentThreads(range))
           /\ Transfers(range) = IF RecentThreads(range) = {} THEN 0
                                 ELSE Cardinality(RecentSessions(range))
<1> DEFINE T == RecentThreads(range)
           S == RecentSessions(range)
           R == IF S = {} THEN {NoSession} ELSE S
<1>1. NoSession \notin S /\ R # {}
  BY MetricsAssumption DEF RecentSessions
<1>2. Joined(range) = T \X R
  BY DEF Joined
<1> HIDE DEF T, S
<1>3. {row[1] : row \in T \X R} = T
  <2>1. \A t \in T : \E row \in T \X R : row[1] = t
    <3> TAKE t \in T
    <3>1. PICK x : x \in R
      BY <1>1
    <3>2. <<t, x>> \in T \X R /\ <<t, x>>[1] = t
      BY <3>1
    <3>3. QED
      BY <3>2
  <2>2. QED
    BY <2>1
<1>4. {row[2] : row \in T \X R} \ {NoSession} = IF T = {} THEN {} ELSE S
  <2>1. CASE T = {}
    BY <2>1
  <2>2. CASE T # {}
    <3>1. PICK t : t \in T
      BY <2>2
    <3>2. \A x \in R : <<t, x>> \in T \X R /\ <<t, x>>[2] = x
      BY <3>1
    <3>3. \A row \in T \X R : row[2] \in R
      OBVIOUS
    <3>4. {row[2] : row \in T \X R} = R
      BY <3>2, <3>3
    <3>5. R \ {NoSession} = S
      BY <1>1
    <3>6. QED
      BY <2>2, <3>4, <3>5
  <2>3. QED
    BY <2>1, <2>2
<1>5. Cardinality({}) = 0
  BY FS_EmptySet
<1>6. Conversations(range) = Cardinality(T)
  BY <1>2, <1>3 DEF Conversations
<1>7. Transfers(range) = IF T = {} THEN 0 ELSE Cardinality(S)
  BY <1>2, <1>4, <1>5 DEF Transfers
<1>8. QED
  BY <1>6, <1>7 DEF T, S

\* A longer range shows what a shorter one does, and more.
LEMMA LongerShowsMore ==
    ASSUME MetricsIInv, NEW range \in Ranges, NEW longer \in Ranges, range < longer
    PROVE  /\ Conversations(range) <= Conversations(longer)
           /\ Transfers(range) <= Transfers(longer)
<1>1. /\ RecentThreads(range) \subseteq RecentThreads(longer)
      /\ RecentSessions(range) \subseteq RecentSessions(longer)
  BY MetricsAssumption DEF MetricsIInv, RecentThreads, RecentSessions, InRange
<1>2. /\ IsFiniteSet(RecentThreads(longer)) /\ IsFiniteSet(RecentSessions(longer))
  <2>1. RecentThreads(longer) \subseteq ThreadIds /\ RecentSessions(longer) \subseteq SessionRows
    BY DEF RecentThreads, RecentSessions
  <2>2. QED
    BY <2>1, FS_Subset, MetricsAssumption
<1>3. /\ Cardinality(RecentThreads(range)) <= Cardinality(RecentThreads(longer))
      /\ Cardinality(RecentSessions(range)) <= Cardinality(RecentSessions(longer))
      /\ Cardinality(RecentSessions(longer)) \in Nat
  BY <1>1, <1>2, FS_Subset, FS_CardinalityType
<1>4. QED
  BY <1>1, <1>3, JoinCountsOnce

\* A missed question is asked no less in a longer range.
LEMMA MissedNoLess ==
    ASSUME MetricsIInv, NEW range \in Ranges, NEW longer \in Ranges, range < longer,
           NEW p \in Missed(range)
    PROVE  /\ MissedCount(p, range) \in Nat /\ MissedCount(p, longer) \in Nat
           /\ MissedCount(p, range) <= MissedCount(p, longer)
           /\ p \in Missed(longer)
<1> DEFINE S == {q \in MissedQuestions(range) : prefix_of[q] = p}
           T == {q \in MissedQuestions(longer) : prefix_of[q] = p}
<1>1. MissedQuestions(range) \subseteq MissedQuestions(longer)
  BY MetricsAssumption DEF MetricsIInv, MissedQuestions, InRange
<1>2. S \subseteq T /\ T \subseteq Questions
  BY <1>1 DEF MissedQuestions
<1>3. IsFiniteSet(T) /\ IsFiniteSet(S)
  BY <1>2, FS_Subset, MetricsAssumption
<1>4. Cardinality(S) \in Nat /\ Cardinality(T) \in Nat /\ Cardinality(S) <= Cardinality(T)
  BY <1>2, <1>3, FS_Subset, FS_CardinalityType
<1>5. MissedCount(p, range) = Cardinality(S) /\ MissedCount(p, longer) = Cardinality(T)
  BY DEF MissedCount
<1>6. p \in Missed(longer)
  BY <1>1 DEF Missed
<1>7. QED
  BY <1>4, <1>5, <1>6

\* A question that a longer range shows no more is displaced by more frequent ones.
LEMMA DisplacedByMore ==
    ASSUME MetricsIInv, NEW range \in Ranges, NEW longer \in Ranges, range < longer,
           NEW shown \in MissedQueries(range), NEW now \in MissedQueries(longer),
           NEW p \in shown \ now
    PROVE  /\ Cardinality(now) = MissedLimit
           /\ \A q \in now : MissedCount(q, longer) >= MissedCount(p, longer)
<1>1. p \in Missed(range)
  BY DEF MissedQueries
<1>2. p \in Missed(longer)
  BY <1>1, MissedNoLess
<1>3. now # Missed(longer)
  BY <1>2
<1>4. QED
  BY <1>2, <1>3 DEF MissedQueries, Outranks

\* A gate fails exactly when it names a metric, and is passed only by cases that were
\* run.
LEMMA GateIsHonest ==
    ASSUME NEW cases \in 0..1, NEW ragas \in {"runs", "missing", "raises"},
           NEW present \in SUBSET Metrics, NEW below \in SUBSET Metrics
    PROVE  LET gate == Gate(cases, ragas, present, below)
           IN  /\ gate.status = "failed" <=> gate.failed # {}
               /\ gate.status = "passed" => cases > 0 /\ ragas = "runs" /\ present \cap below = {}
<1>1. cases = 0 \/ cases = 1
  OBVIOUS
<1>2. QED
  BY <1>1 DEF Gate

\* The invariant and the lemmas on the figures are what the runs check.
LEMMA FiguresAreRight == MetricsIInv => MetricsInv
<1> SUFFICES ASSUME MetricsIInv
             PROVE  MetricsInv
  OBVIOUS
<1>1. QED
  BY JoinCountsOnce, LongerShowsMore, MissedNoLess, DisplacedByMore, GateIsHonest
     DEF MetricsIInv, MetricsInv

(***************************************************************************)
(* The join counts every conversation once, however many sessions there    *)
(* were; a longer range has no fewer of each and of each missed question,  *)
(* and one it shows no more is displaced by a full list of more frequent   *)
(* ones; a gate is passed only by cases that were run: for any number of   *)
(* threads, sessions, questions and days, and any limit of the list.       *)
(***************************************************************************)
THEOREM MetricsInvariant == MetricsSpec => []MetricsInv
<1>1. MetricsIInv => MetricsInv
  BY FiguresAreRight
<1>2. QED
  BY <1>1, MetricsStart, MetricsStep, PTL DEF MetricsSpec

-----------------------------------------------------------------------------
(***************************************************************************)
(* Invoices, for any number of tenants and of invoices.                    *)
(***************************************************************************)
InvoiceRows == [tenant : Payers, status : Allowed, period : Periods]

\* The page has matching rows, newest first, and misses only older ones, when it is full.
PageIsNewest ==
    /\ page \in Seq(Nat) /\ Len(page) <= ListLimit
    /\ \A n \in 1..Len(page) :
         page[n] \in 1..Len(invoices) /\ Matches(invoices[page[n]], filters)
    /\ \A m, n \in 1..Len(page) : m < n => page[m] > page[n]
    /\ Len(page) > 0 => \A k \in 1..page[1] :
         Matches(invoices[k], filters) /\ (\A n \in 1..Len(page) : page[n] # k) =>
             /\ Len(page) = ListLimit
             /\ k < page[Len(page)]

\* The inductive invariant.
InvoicesIInv == invoices \in Seq(InvoiceRows) /\ failed \in BOOLEAN /\ PageIsNewest

\* The first state has no invoices and an empty page.
LEMMA InvoicesStart == InvoicesInit => InvoicesIInv
<1> SUFFICES ASSUME InvoicesInit
             PROVE  InvoicesIInv
  OBVIOUS
<1>1. <<>> \in Seq(InvoiceRows) /\ <<>> \in Seq(Nat) /\ Len(<<>>) = 0 /\ 0 <= ListLimit
  BY EmptySeq, InvoicesAssumption
<1>2. /\ page \in Seq(Nat) /\ Len(page) = 0 /\ 0 <= ListLimit /\ \A n \in 1..0 : FALSE
      /\ invoices \in Seq(InvoiceRows) /\ failed = FALSE
  BY <1>1 DEF InvoicesInit
<1>3. PageIsNewest
  BY <1>2 DEF PageIsNewest
<1>4. QED
  BY <1>2, <1>3 DEF InvoicesIInv

\* An invoice is stored if the schema knows its status and its tenant.
LEMMA CreateInvoiceKeeps ==
    ASSUME InvoicesIInv, NEW row, Valid(row) => row \in InvoiceRows, CreateInvoice(row)
    PROVE  InvoicesIInv'
<1> DEFINE n == Len(invoices)
<1>1. invoices \in Seq(InvoiceRows) /\ n \in Nat
  BY DEF InvoicesIInv
<1>2. /\ invoices' \in Seq(InvoiceRows) /\ Len(invoices') \in Nat /\ n <= Len(invoices')
      /\ \A k \in 1..n : invoices'[k] = invoices[k]
  <2>1. CASE Valid(row)
    <3>1. invoices' = Append(invoices, row) /\ row \in InvoiceRows
      BY <2>1 DEF CreateInvoice
    <3>2. QED
      BY <1>1, <3>1, AppendProperties
  <2>2. CASE ~Valid(row)
    BY <1>1, <2>2 DEF CreateInvoice
  <2>3. QED
    BY <2>1, <2>2
<1>3. page' = page /\ filters' = filters /\ failed' \in BOOLEAN
  BY DEF CreateInvoice, Valid
<1> HIDE DEF n
<1>4. /\ \A k \in 1..Len(page) : page[k] \in 1..n
      /\ Len(page) > 0 => \A k \in 1..page[1] : k \in 1..n
  <2>1. /\ page \in Seq(Nat) /\ \A k \in 1..Len(page) : page[k] \in 1..n
    BY DEF InvoicesIInv, PageIsNewest, n
  <2>2. Len(page) > 0 => page[1] \in 1..n
    BY <2>1
  <2>3. QED
    BY <2>1, <2>2, <1>1
<1>5. \A k \in 1..n : Matches(invoices[k], filters)' = Matches(invoices[k], filters)
  BY <1>2, <1>3 DEF Matches
<1>6. \A k \in 1..Len(page) : page[k] \in 1..Len(invoices')
  BY <1>1, <1>2, <1>4
<1>7. PageIsNewest'
  BY <1>3, <1>4, <1>5, <1>6 DEF InvoicesIInv, PageIsNewest
<1>8. QED
  BY <1>2, <1>3, <1>7 DEF InvoicesIInv

\* A listing shows the newest rows that match, as far as its limit reaches.
LEMMA ListInvoicesKeeps ==
    ASSUME InvoicesIInv, NEW filter, ListInvoices(filter)
    PROVE  InvoicesIInv'
<1> DEFINE n == Len(invoices)
           S == {k \in DOMAIN invoices : Matches(invoices[k], filter)}
           m == Cardinality(S)
           L == PageLength(S)
           asc == InOrder(S)
<1>1. invoices \in Seq(InvoiceRows) /\ n \in Nat /\ DOMAIN invoices = 1..n /\ S \in SUBSET (1..n)
  BY DEF InvoicesIInv
<1>s. \A k \in S : k \in 1..n /\ Matches(invoices[k], filter)
  BY <1>1
<1>z. \A k \in 1..n : Matches(invoices[k], filter) => k \in S
  BY <1>1
<1>2. page' = Newest(S) /\ UNCHANGED <<invoices, failed>> /\ filters' = filter
  BY DEF ListInvoices
<1> HIDE DEF S, n
<1>3. IsFiniteSet(S) /\ m \in Nat /\ S \in SUBSET Int
  <2>1. n \in Nat /\ S \in SUBSET (1..n)
    BY <1>1
  <2>2. IsFiniteSet(S) /\ Cardinality(S) \in Nat
    BY <2>1, MovesForward
  <2>3. QED
    BY <2>1, <2>2
<1>4. /\ \A x \in S : \E k \in 1..m : asc[k] = x
      /\ \A j, k \in 1..m : j < k <=> asc[j] < asc[k]
      /\ \A k \in 1..m : asc[k] \in S
  BY <1>3, Ordered
<1>5. /\ L \in Nat /\ L <= ListLimit /\ L <= m /\ (L < m => L = ListLimit)
      /\ ListLimit \in Nat
  BY <1>3, InvoicesAssumption DEF PageLength
<1>6. page' = [k \in 1..L |-> asc[m + 1 - k]]
  BY <1>2 DEF Newest
<1> HIDE DEF m, L, asc
<1>7. \A k \in 1..L : m + 1 - k \in 1..m
  BY <1>3, <1>5 DEF m
<1>8. \A k \in 1..L : page'[k] = asc[m + 1 - k] /\ page'[k] \in S /\ page'[k] \in Nat
  <2>1. \A k \in 1..L : page'[k] = asc[m + 1 - k]
    BY <1>6
  <2>2. \A j \in 1..m : asc[j] \in S
    BY <1>4 DEF m, asc
  <2>3. S \subseteq Nat
    BY <1>1
  <2>4. \A k \in 1..L : asc[m + 1 - k] \in S
    BY <1>7, <2>2
  <2>5. QED
    BY <2>1, <2>3, <2>4
<1>9. page' \in Seq(Nat) /\ Len(page') = L
  <2>1. page' = [k \in 1..L |-> page'[k]]
    BY <1>6
  <2>2. QED
    BY <2>1, <1>5, <1>8, IsASeq
<1>10. \A i, k \in 1..L : i < k => page'[i] > page'[k]
  <2> TAKE i, k \in 1..L
  <2> HAVE i < k
  <2>1. /\ m + 1 - k \in 1..m /\ m + 1 - i \in 1..m /\ m + 1 - k < m + 1 - i
    BY <1>3, <1>5, <1>7 DEF m
  <2>2. asc[m + 1 - k] < asc[m + 1 - i]
    BY <2>1, <1>4
  <2>3. QED
    BY <2>2, <1>8
<1>11. ASSUME L > 0, NEW k \in 1..n, Matches(invoices[k], filter), \A i \in 1..L : page'[i] # k
       PROVE  L = ListLimit /\ k < page'[L]
  <2>1. PICK j \in 1..m : asc[j] = k
    BY <1>4, <1>11, <1>z
  <2>2. j < m + 1 - L
    <3> SUFFICES ASSUME j >= m + 1 - L
                 PROVE  FALSE
      BY <1>3, <1>5 DEF m
    <3>1. m + 1 - j \in 1..L /\ m + 1 - (m + 1 - j) = j
      BY <1>3, <1>5 DEF m
    <3>2. page'[m + 1 - j] = k
      BY <3>1, <1>8, <2>1
    <3>3. QED
      BY <3>1, <3>2, <1>11
  <2>3. L < m /\ m + 1 - L \in 1..m /\ L \in 1..L
    BY <2>2, <1>3, <1>5, <1>7, <1>11 DEF m
  <2>4. asc[j] < asc[m + 1 - L]
    BY <2>2, <2>3, <1>4
  <2>5. QED
    BY <2>1, <2>3, <2>4, <1>5, <1>8
<1>12. L > 0 => \A k \in 1..page'[1] : k \in 1..n
  <2> SUFFICES ASSUME L > 0
               PROVE  \A k \in 1..page'[1] : k \in 1..n
    OBVIOUS
  <2>1. page'[1] \in 1..n
    BY <1>5, <1>8, <1>s
  <2>2. QED
    BY <2>1, <1>1
<1>13. PageIsNewest'
  <2>1. \A i \in 1..L : page'[i] \in 1..n /\ Matches(invoices[page'[i]], filter)
    BY <1>8, <1>s
  <2>2. /\ Len(invoices') = n /\ invoices' = invoices /\ filters' = filter
    BY <1>2 DEF n
  <2>3. \A i \in 1..Len(page') : page'[i] \in 1..Len(invoices') /\ Matches(invoices'[page'[i]], filters')
    BY <1>9, <2>1, <2>2
  <2>4. Len(page') > 0 => \A k \in 1..page'[1] :
          Matches(invoices'[k], filters') /\ (\A i \in 1..Len(page') : page'[i] # k) =>
             /\ Len(page') = ListLimit
             /\ k < page'[Len(page')]
    BY <1>9, <1>11, <1>12, <2>2
  <2>5. QED
    BY <1>5, <1>9, <1>10, <2>3, <2>4 DEF PageIsNewest
<1>14. QED
  BY <1>2, <1>13 DEF InvoicesIInv

\* Every step keeps the inductive invariant.
LEMMA InvoicesStep == InvoicesIInv /\ [InvoicesNext]_invoicesVars => InvoicesIInv'
<1> SUFFICES ASSUME InvoicesIInv, [InvoicesNext]_invoicesVars
             PROVE  InvoicesIInv'
  OBVIOUS
<1>1. CASE UNCHANGED invoicesVars
  BY <1>1 DEF invoicesVars, InvoicesIInv, PageIsNewest
<1>2. ASSUME NEW t \in Payers \cup Strangers, NEW s \in Allowed \cup {DefaultStatus},
             NEW p \in Periods, CreateInvoice(Invoice(t, s, p))
      PROVE  InvoicesIInv'
  <2>1. Valid(Invoice(t, s, p)) => Invoice(t, s, p) \in InvoiceRows
    BY DEF Valid, Invoice, InvoiceRows
  <2>2. QED
    BY <1>2, <2>1, CreateInvoiceKeeps
<1>3. ASSUME NEW filter, ListInvoices(filter)
      PROVE  InvoicesIInv'
  BY <1>3, ListInvoicesKeeps
<1>4. QED
  BY <1>1, <1>2, <1>3 DEF InvoicesNext

\* The inductive invariant is stronger than what the runs check.
LEMMA ListingsAreRight == InvoicesIInv => InvoicesInv
<1> SUFFICES ASSUME InvoicesIInv
             PROVE  InvoicesInv
  OBVIOUS
<1>1. page \in Seq(Nat) /\ DOMAIN page = 1..Len(page) /\ (page # <<>> => Len(page) > 0)
  BY EmptySeq DEF InvoicesIInv, PageIsNewest
<1>2. QED
  BY <1>1 DEF InvoicesIInv, PageIsNewest, InvoicesInv, InvoiceRows

(***************************************************************************)
(* A listing has what was asked for, newest first, and leaves a row that   *)
(* matches out only behind a full page of newer ones: for any number of    *)
(* tenants and invoices and any limit.                                     *)
(***************************************************************************)
THEOREM InvoicesInvariant == InvoicesSpec => []InvoicesInv
<1>1. InvoicesIInv => InvoicesInv
  BY ListingsAreRight
<1>2. QED
  BY <1>1, InvoicesStart, InvoicesStep, PTL DEF InvoicesSpec

-----------------------------------------------------------------------------
(***************************************************************************)
(* Customer health, for any number of tenants and any readings.            *)
(***************************************************************************)
FoundAt(c, k) == {n \in DOMAIN checks[c] : k \in Risks(checks[c][n])}

\* The inductive invariant: the cached health is that of the last reading, and
\* an intervention is pending for every reading that had its risk.
HealthIInv ==
    /\ checks \in [Subscribers -> Seq(Readings)]
    /\ health \in [Subscribers -> [level : DOMAIN Rank, risks : SUBSET RiskKinds]]
    /\ DOMAIN interventions = Subscribers
    /\ \A c \in Subscribers :
         /\ Len(checks[c]) > 0 => health[c].level = Level(HealthScore(checks[c][Len(checks[c])]))
         /\ \A k \in RiskKinds : interventions[c][k] = Cardinality(FoundAt(c, k))

\* A level is one of three, which have ranks.
LEMMA LevelIsRanked ==
    ASSUME NEW x \in Int
    PROVE  Level(x) \in {"healthy", "at_risk", "unhealthy"}
BY DEF Level, FullScore

\* A higher score never has the lower level.
LEMMA LevelIsMonotone ==
    ASSUME NEW x \in Int, NEW y \in Int, x <= y
    PROVE  Rank[Level(x)] <= Rank[Level(y)]
<1>1. /\ Rank["healthy"] = 2 /\ Rank["at_risk"] = 1 /\ Rank["unhealthy"] = 0
  BY DEF Rank
<1>2. /\ 10 * x >= 140000 => Level(x) = "healthy"
      /\ 10 * x < 140000 /\ 10 * x >= 80000 => Level(x) = "at_risk"
      /\ 10 * x < 80000 => Level(x) = "unhealthy"
  BY DEF Level, FullScore
<1>3. /\ 10 * y >= 140000 => Level(y) = "healthy"
      /\ 10 * y < 140000 /\ 10 * y >= 80000 => Level(y) = "at_risk"
      /\ 10 * y < 80000 => Level(y) = "unhealthy"
  BY DEF Level, FullScore
<1>4. QED
  BY <1>1, <1>2, <1>3

\* A tenant that is nowhere better off never scores higher.
LEMMA ScoreIsMonotone ==
    ASSUME NEW r \in Readings, NEW q \in Readings, NoBetter(r, q)
    PROVE  /\ HealthScore(r) \in Int /\ HealthScore(q) \in Int
           /\ HealthScore(r) <= HealthScore(q)
<1>1. /\ r.logins \in Nat /\ r.volume \in Nat /\ r.adoption \in Nat /\ r.selfService \in Nat
      /\ r.sentiment \in Nat /\ r.tickets \in Nat /\ r.nps \in Int
      /\ q.logins \in Nat /\ q.volume \in Nat /\ q.adoption \in Nat /\ q.selfService \in Nat
      /\ q.sentiment \in Nat /\ q.tickets \in Nat /\ q.nps \in Int
  BY HealthAssumption DEF NoNps
<1>2. /\ r.logins <= q.logins /\ r.volume <= q.volume /\ r.adoption <= q.adoption
      /\ r.selfService <= q.selfService /\ r.sentiment <= q.sentiment
      /\ r.tickets >= q.tickets /\ r.nps <= q.nps
      /\ (r.nps = NoNps) <=> (q.nps = NoNps)
  BY DEF NoBetter
<1>3. /\ UsageScore(r) \in Int /\ UsageScore(q) \in Int /\ UsageScore(r) <= UsageScore(q)
  BY <1>1, <1>2 DEF UsageScore, Capped
<1>4. /\ EngagementScore(r) \in Int /\ EngagementScore(q) \in Int
      /\ EngagementScore(r) <= EngagementScore(q)
  BY <1>1, <1>2 DEF EngagementScore
<1>5. /\ SentimentScore(r) \in Int /\ SentimentScore(q) \in Int
      /\ SentimentScore(r) <= SentimentScore(q)
  BY <1>1, <1>2 DEF SentimentScore, TicketPenalty, Capped
<1>6. QED
  BY <1>3, <1>4, <1>5 DEF HealthScore

\* A score is an integer.
LEMMA ScoreIsWhole == \A r \in Readings : HealthScore(r) \in Int
<1> SUFFICES ASSUME NEW r \in Readings
             PROVE  HealthScore(r) \in Int
  OBVIOUS
<1>1. r.nps \in Int /\ r.tickets \in Nat
  BY HealthAssumption DEF NoNps
<1>2. NoBetter(r, r)
  BY <1>1, HealthAssumption DEF NoBetter
<1>3. QED
  BY <1>2, ScoreIsMonotone

\* The first state has no checks and no interventions.
LEMMA HealthStart == HealthInit => HealthIInv
<1> SUFFICES ASSUME HealthInit
             PROVE  HealthIInv
  OBVIOUS
<1>1. <<>> \in Seq(Readings) /\ Len(<<>>) = 0 /\ DOMAIN <<>> = {}
  BY EmptySeq
<1>2. NoHealth \in [level : DOMAIN Rank, risks : SUBSET RiskKinds]
  BY DEF NoHealth, Rank
<1>3. \A k \in RiskKinds : NoInterventions[k] = 0
  BY DEF NoInterventions
<1>4. \A c \in Subscribers, k \in RiskKinds : Cardinality(FoundAt(c, k)) = 0
  BY <1>1, FS_EmptySet DEF HealthInit, FoundAt
<1>5. QED
  BY <1>1, <1>2, <1>3, <1>4 DEF HealthInit, HealthIInv

\* A calculation adds an intervention for each risk it finds, and to no other.
LEMMA CalculateHealthKeeps ==
    ASSUME HealthIInv, NEW c \in Subscribers, NEW r \in Readings, CalculateHealth(c, r)
    PROVE  HealthIInv'
<1> DEFINE n == Len(checks[c])
           V == [level |-> Level(HealthScore(r)), risks |-> Risks(r)]
           W == Triggered(c, Risks(r))
<1>1. /\ checks[c] \in Seq(Readings) /\ n \in Nat
      /\ checks' = [checks EXCEPT ![c] = Append(checks[c], r)]
      /\ interventions' = [interventions EXCEPT ![c] = W]
      /\ health' = [health EXCEPT ![c] = V]
  BY DEF HealthIInv, CalculateHealth
<1>2. Risks(r) \in SUBSET RiskKinds
  BY DEF Risks, RiskKinds
<1>3. V \in [level : DOMAIN Rank, risks : SUBSET RiskKinds] /\ V.level = Level(HealthScore(r))
  BY <1>2, ScoreIsWhole, LevelIsRanked DEF Rank
<1> HIDE DEF V, W
<1>4. /\ Append(checks[c], r) \in Seq(Readings)
      /\ Len(Append(checks[c], r)) = n + 1 /\ Append(checks[c], r)[n + 1] = r
      /\ \A i \in 1..n : Append(checks[c], r)[i] = checks[c][i]
  BY <1>1, AppendProperties
<1>5. /\ checks' \in [Subscribers -> Seq(Readings)]
      /\ health' \in [Subscribers -> [level : DOMAIN Rank, risks : SUBSET RiskKinds]]
      /\ DOMAIN interventions' = Subscribers
  BY <1>1, <1>3, <1>4 DEF HealthIInv
<1>6. /\ checks'[c] = Append(checks[c], r) /\ health'[c] = V /\ interventions'[c] = W
      /\ \A d \in Subscribers \ {c} : /\ checks'[d] = checks[d] /\ health'[d] = health[d]
                                      /\ interventions'[d] = interventions[d]
  BY <1>1 DEF HealthIInv
<1>7. \A d \in Subscribers :
         Len(checks'[d]) > 0 => health'[d].level = Level(HealthScore(checks'[d][Len(checks'[d])]))
  <2>1. health'[c].level = Level(HealthScore(checks'[c][Len(checks'[c])]))
    BY <1>3, <1>4, <1>6
  <2>2. QED
    BY <2>1, <1>6 DEF HealthIInv
<1>8. ASSUME NEW k \in RiskKinds
      PROVE  interventions'[c][k] = Cardinality(FoundAt(c, k)')
  <2> DEFINE F == FoundAt(c, k)
             G == FoundAt(c, k)'
  <2>1. /\ DOMAIN checks[c] = 1..n /\ DOMAIN checks'[c] = 1..(n + 1)
    BY <1>1, <1>4, <1>6
  <2>2. G = IF k \in Risks(r) THEN F \cup {n + 1} ELSE F
    <3>1. \A i \in 1..(n + 1) : i \in 1..n \/ i = n + 1
      BY <1>1
    <3>2. \A i \in 1..n : checks'[c][i] = checks[c][i]
      BY <1>4, <1>6
    <3>3. checks'[c][n + 1] = r /\ n + 1 \in 1..(n + 1) /\ 1..n \subseteq 1..(n + 1)
      BY <1>1, <1>4, <1>6
    <3>4. G = {i \in 1..(n + 1) : k \in Risks(checks'[c][i])}
      BY <2>1 DEF FoundAt
    <3>5. F = {i \in 1..n : k \in Risks(checks[c][i])}
      BY <2>1 DEF FoundAt
    <3> HIDE DEF F, G, n
    <3>6. \A i : i \in G <=> i \in F \/ (i = n + 1 /\ k \in Risks(r))
      BY <3>1, <3>2, <3>3, <3>4, <3>5
    <3>7. QED
      BY <3>6
  <2>3. IsFiniteSet(F) /\ n + 1 \notin F /\ Cardinality(F) \in Nat
    <3>1. F \subseteq 1..n
      BY <2>1 DEF FoundAt
    <3>2. IsFiniteSet(1..n)
      BY <1>1, FS_Interval
    <3>3. n + 1 \notin 1..n
      BY <1>1
    <3> HIDE DEF F
    <3>4. QED
      BY <3>1, <3>2, <3>3, FS_Subset, FS_CardinalityType
  <2>4. interventions[c][k] = Cardinality(F)
    BY DEF HealthIInv
  <2>5. W[k] = Cardinality(F) + IF k \in Risks(r) THEN 1 ELSE 0
    BY <2>3, <2>4 DEF W, Triggered
  <2> HIDE DEF F, G
  <2>6. Cardinality(G) = Cardinality(F) + IF k \in Risks(r) THEN 1 ELSE 0
    <3>1. Cardinality(F \cup {n + 1}) = Cardinality(F) + 1
      BY <2>3, FS_AddElement
    <3>2. QED
      BY <2>2, <2>3, <3>1
  <2>7. QED
    BY <1>6, <2>5, <2>6 DEF G
<1>9. \A d \in Subscribers, k \in RiskKinds :
          interventions'[d][k] = Cardinality(FoundAt(d, k)')
  <2>1. \A d \in Subscribers \ {c}, k \in RiskKinds : FoundAt(d, k)' = FoundAt(d, k)
    BY <1>6 DEF FoundAt
  <2>2. QED
    BY <2>1, <1>6, <1>8 DEF HealthIInv
<1>10. QED
  BY <1>5, <1>7, <1>9 DEF HealthIInv

\* Every step keeps the inductive invariant.
LEMMA HealthStep == HealthIInv /\ [HealthNext]_healthVars => HealthIInv'
<1>1. HealthIInv /\ UNCHANGED healthVars => HealthIInv'
  BY DEF healthVars, HealthIInv, FoundAt
<1>2. QED
  BY <1>1, CalculateHealthKeeps DEF HealthNext

\* The inductive invariant and the monotone score are what the runs check.
LEMMA HealthIsRight == HealthIInv => HealthInv
<1> SUFFICES ASSUME HealthIInv
             PROVE  HealthInv
  OBVIOUS
<1>1. \A c \in Subscribers : health[c].level \in DOMAIN Rank
  BY DEF HealthIInv
<1>2. ASSUME NEW c \in Subscribers, NEW d \in Subscribers, checks[c] # <<>>, checks[d] # <<>>,
             NoBetter(checks[c][Len(checks[c])], checks[d][Len(checks[d])])
      PROVE  Rank[health[c].level] <= Rank[health[d].level]
  <2> DEFINE r == checks[c][Len(checks[c])]
             q == checks[d][Len(checks[d])]
  <2>1. /\ checks[c] \in Seq(Readings) /\ checks[d] \in Seq(Readings)
    BY DEF HealthIInv
  <2>2. Len(checks[c]) > 0 /\ Len(checks[d]) > 0
    BY <1>2, <2>1, EmptySeq
  <2>3. r \in Readings /\ q \in Readings
    BY <2>1, <2>2
  <2>4. health[c].level = Level(HealthScore(r)) /\ health[d].level = Level(HealthScore(q))
    BY <2>2 DEF HealthIInv
  <2>n. NoBetter(r, q)
    BY <1>2
  <2> HIDE DEF r, q
  <2>5. HealthScore(r) \in Int /\ HealthScore(q) \in Int /\ HealthScore(r) <= HealthScore(q)
    BY <2>3, <2>n, ScoreIsMonotone
  <2>6. QED
    BY <2>4, <2>5, LevelIsMonotone
<1>3. QED
  BY <1>1, <1>2 DEF HealthIInv, HealthInv, FoundAt

(***************************************************************************)
(* Of two tenants the one nowhere better off never has the higher level,   *)
(* and one pending intervention stands for every time its risk was found:  *)
(* for any number of tenants and calculations and any readings.            *)
(***************************************************************************)
THEOREM HealthInvariant == HealthSpec => []HealthInv
<1>1. HealthIInv => HealthInv
  BY HealthIsRight
<1>2. QED
  BY <1>1, HealthStart, HealthStep, PTL DEF HealthSpec

-----------------------------------------------------------------------------
(***************************************************************************)
(* Prompt versions, for any prompts, contents and number of versions.      *)
(***************************************************************************)
(***************************************************************************)
(* PromptVersions.                                                         *)
(***************************************************************************)
\* The inductive invariant: a version's number is its place, and what a caller
\* was given is the version at the place of its number.
VersionsIInv ==
    /\ versions \in [PromptIds -> Seq([number : Nat, content : Contents])]
    /\ held \in [PromptIds -> [number : Nat, content : Contents \cup {"none"}]]
    /\ \A p \in PromptIds :
         /\ \A k \in DOMAIN versions[p] : versions[p][k].number = k
         /\ held[p] # NoVersion =>
              held[p].number \in DOMAIN versions[p] /\ versions[p][held[p].number] = held[p]

\* The inductive invariant is stronger than what the runs check.
LEMMA VersionsAreEnough == VersionsIInv => NumberNamesContent
<1> SUFFICES ASSUME VersionsIInv
             PROVE  NumberNamesContent
  OBVIOUS
<1>1. \A p \in PromptIds : \A k, j \in DOMAIN versions[p] :
         versions[p][k].number = versions[p][j].number => k = j
  BY DEF VersionsIInv
<1>2. ASSUME NEW p \in PromptIds, held[p] # NoVersion
      PROVE  \E k \in Numbered(p, held[p].number) : versions[p][k] = held[p]
  <2> DEFINE n == held[p].number
  <2>1. n \in DOMAIN versions[p] /\ versions[p][n] = held[p]
    BY <1>2 DEF VersionsIInv
  <2>2. DOMAIN versions[p] = 1..Len(versions[p]) /\ Len(versions[p]) \in Nat
    BY DEF VersionsIInv
  <2>3. \A j \in 1..(n - 1) : j \in DOMAIN versions[p] /\ versions[p][j].number = j /\ j # n
    BY <2>1, <2>2 DEF VersionsIInv
  <2>4. n \in Numbered(p, n)
    BY <2>1, <2>3 DEF Numbered, VersionsIInv
  <2>5. QED
    BY <2>1, <2>4
<1>3. QED
  BY <1>1, <1>2 DEF NumberNamesContent

\* The first state has no versions.
LEMMA VersionsStart == VersionsInit => VersionsIInv
BY DEF VersionsInit, VersionsIInv, NoVersion, Version

\* A new version takes the next number, which was never given.
LEMMA AppendVersionKeeps ==
    ASSUME VersionsIInv, NEW p \in PromptIds, NEW content \in Contents, AppendVersion(p, content)
    PROVE  VersionsIInv'
<1> DEFINE V == [number : Nat, content : Contents]
           old == versions[p]
           new == versions'[p]
           n == Len(old)
<1>1. /\ old \in Seq(V) /\ new = Append(old, [number |-> n + 1, content |-> content])
      /\ versions' = [versions EXCEPT ![p] = new] /\ UNCHANGED held
      /\ \A q \in PromptIds \ {p} : versions'[q] = versions[q]
  BY DEF VersionsIInv, AppendVersion, NextNumber, Version
<1>2. /\ n \in Nat /\ DOMAIN old = 1..n
      /\ new \in Seq(V) /\ DOMAIN new = 1..(n + 1) /\ new[n + 1].number = n + 1
      /\ \A k \in 1..n : new[k] = old[k]
  BY <1>1
<1>3. versions' \in [PromptIds -> Seq(V)]
  <2> HIDE DEF new, V
  <2> QED BY <1>1, <1>2 DEF VersionsIInv, V
<1>4. \A k \in DOMAIN new : new[k].number = k
  <2>1. \A k \in 1..n : old[k].number = k
    BY <1>2 DEF VersionsIInv
  <2> HIDE DEF new, old, n
  <2>2. QED
    BY <1>2, <2>1
<1>5. held[p] # NoVersion => held[p].number \in DOMAIN new /\ new[held[p].number] = held[p]
  <2>1. held[p] # NoVersion => held[p].number \in DOMAIN old /\ old[held[p].number] = held[p]
    BY DEF VersionsIInv
  <2> HIDE DEF new, old, n
  <2>2. QED
    BY <1>2, <2>1
<1> HIDE DEF V, old
<1>6. QED
  BY <1>1, <1>3, <1>4, <1>5 DEF VersionsIInv, V

\* What is found under a number is a version of it.
LEMMA VersionsAreVersions ==
    ASSUME VersionsIInv, NEW p \in PromptIds, NEW k \in DOMAIN versions[p]
    PROVE  versions[p][k] \in [number : Nat, content : Contents]
<1> DEFINE V == [number : Nat, content : Contents]
<1>1. versions \in [PromptIds -> Seq(V)]
  BY DEF VersionsIInv
<1> HIDE DEF V
<1>2. versions[p] \in Seq(V)
  BY <1>1
<1>3. versions[p][k] \in V
  BY <1>2
<1>4. QED
  BY <1>3 DEF V

\* A version that is read is remembered as it was answered.
LEMMA GetVersionKeeps ==
    ASSUME VersionsIInv, NEW p \in PromptIds, NEW k \in DOMAIN versions[p],
           held' = [held EXCEPT ![p] = versions[p][k]], UNCHANGED versions
    PROVE  VersionsIInv'
<1>1. versions[p][k] \in [number : Nat, content : Contents]
  BY VersionsAreVersions
<1>2. versions[p][k] \in [number : Nat, content : Contents] /\ versions[p][k].number = k
  BY <1>1 DEF VersionsIInv
<1>3. /\ held' \in [PromptIds -> [number : Nat, content : Contents \cup {"none"}]]
      /\ held'[p] = versions[p][k]
      /\ \A q \in PromptIds \ {p} : held'[q] = held[q]
  BY <1>2 DEF VersionsIInv
<1>4. QED
  BY <1>2, <1>3 DEF VersionsIInv

\* Every step keeps the inductive invariant.
LEMMA VersionsStep == VersionsIInv /\ [VersionsNext]_versionsVars => VersionsIInv'
<1> SUFFICES ASSUME VersionsIInv, [VersionsNext]_versionsVars
             PROVE  VersionsIInv'
  OBVIOUS
<1>t. \A p \in PromptIds : \A k \in DOMAIN versions[p] : versions[p][k].content \in Contents
  BY VersionsAreVersions
<1>1. ASSUME NEW p \in PromptIds, NEW content \in Contents, CreateVersion(p, content)
      PROVE  VersionsIInv'
  BY <1>1, AppendVersionKeeps DEF CreateVersion
<1>2. ASSUME NEW p \in PromptIds, NEW n, Rollback(p, n)
      PROVE  VersionsIInv'
  <2>1. PICK k \in (IF Numbered(p, n) # {} THEN Numbered(p, n) ELSE {Previous(p)}) :
            AppendVersion(p, versions[p][k].content)
    BY <1>2, Zenon DEF Rollback
  <2>2. versions[p] \in Seq([number : Nat, content : Contents]) /\ versions[p] # <<>>
    BY <1>2 DEF Rollback, VersionsIInv
  <2>3. Previous(p) \in DOMAIN versions[p]
    BY <2>2 DEF Previous
  <2>4. k \in DOMAIN versions[p]
    BY <2>3 DEF Numbered
  <2>5. QED
    BY <1>t, <2>1, <2>4, AppendVersionKeeps
<1>3. ASSUME NEW p \in PromptIds, NEW n, GetVersion(p, n)
      PROVE  VersionsIInv'
  <2>1. versions[p] \in Seq([number : Nat, content : Contents])
    BY DEF VersionsIInv
  <2>2. versions[p] # <<>> => Len(versions[p]) \in DOMAIN versions[p]
    BY <2>1
  <2>3. \E k \in DOMAIN versions[p] : held' = [held EXCEPT ![p] = versions[p][k]] /\ UNCHANGED versions
    BY <1>3, <2>2 DEF GetVersion, Numbered
  <2>4. QED
    BY <2>3, GetVersionKeeps
<1>4. CASE UNCHANGED versionsVars
  BY <1>4 DEF versionsVars, VersionsIInv, Numbered
<1>5. QED
  BY <1>1, <1>2, <1>3, <1>4 DEF VersionsNext

(***************************************************************************)
(* A number names one content for ever: what a caller was given under it   *)
(* is what get_version answers now, after any creations and rollbacks, for *)
(* any prompts, contents and number of versions.                           *)
(***************************************************************************)
THEOREM VersionsInvariant == VersionsSpec => []NumberNamesContent
<1>1. VersionsIInv => NumberNamesContent
  BY VersionsAreEnough
<1>2. QED
  BY <1>1, VersionsStart, VersionsStep, PTL DEF VersionsSpec

-----------------------------------------------------------------------------
(***************************************************************************)
(* The session manager, for any number of sessions, messages and threads.  *)
(***************************************************************************)
\* The numbers of messages.
Numbers == 1..MaxNodes

\* What is kept of a session beside its messages.
Metadata == [count : Nat, topics : Seq(Topics), bookmarks : SUBSET Nat]

\* The types of the state.
SessionTypes ==
    /\ nodes \in Seq(Nodes) /\ Len(nodes) <= MaxNodes
    /\ threads \in Seq(Seq(Numbers)) /\ Len(threads) <= MaxTitles
    /\ messages \in [DOMAIN messages -> Seq(Numbers)]
    /\ metadata \in [DOMAIN messages -> Metadata]

\* The session's count and topics are those of its messages, which are in the order
\* of their creation.
OfItsMessages(s) ==
    /\ metadata[s].count = Len(messages[s])
    /\ IsInjective(metadata[s].topics)
    /\ ToSet(metadata[s].topics) = {nodes[n].topic : n \in ToSet(messages[s])} \ {NoTopic}
    /\ \A i \in DOMAIN messages[s] : messages[s][i] \in DOMAIN nodes
    /\ \A i, j \in DOMAIN messages[s] : i < j => messages[s][i] < messages[s][j]

\* The thread a message names is there, and has it.
InItsThread(n) ==
    nodes[n].thread # NoThread =>
        nodes[n].thread \in DOMAIN threads /\ n \in ToSet(threads[nodes[n].thread])

\* The inductive invariant.
SessionIInv ==
    /\ SessionTypes
    /\ \A s \in DOMAIN messages : OfItsMessages(s)
    /\ \A n \in DOMAIN nodes : InItsThread(n)

\* There is nothing at first.
LEMMA SessionStart == SessionInit => SessionIInv
BY SessionAssumption
   DEF SessionInit, SessionIInv, SessionTypes, OfItsMessages, InItsThread, Nodes, Metadata

\* A longer sequence has one element more.
LEMMA AppendedSet ==
    ASSUME NEW S, NEW q \in Seq(S), NEW e \in S
    PROVE  /\ Append(q, e) \in Seq(S) /\ Len(Append(q, e)) = Len(q) + 1
           /\ \A i \in DOMAIN q : i \in DOMAIN Append(q, e) /\ Append(q, e)[i] = q[i]
           /\ \A i \in DOMAIN Append(q, e) : i \in DOMAIN q \/ i = Len(q) + 1
           /\ Len(q) + 1 \in DOMAIN Append(q, e) /\ Append(q, e)[Len(q) + 1] = e
           /\ ToSet(Append(q, e)) = ToSet(q) \cup {e}
<1>1. /\ Append(q, e) \in Seq(S) /\ Len(Append(q, e)) = Len(q) + 1
      /\ \A i \in 1..Len(q) : Append(q, e)[i] = q[i]
      /\ Append(q, e)[Len(q) + 1] = e
  BY AppendProperties
<1>2. DOMAIN q = 1..Len(q) /\ DOMAIN Append(q, e) = 1..(Len(q) + 1) /\ Len(q) \in Nat
  BY <1>1, LenProperties
<1>3. /\ \A i \in 1..Len(q) : i \in 1..(Len(q) + 1)
      /\ \A i \in 1..(Len(q) + 1) : i \in 1..Len(q) \/ i = Len(q) + 1
      /\ Len(q) + 1 \in 1..(Len(q) + 1)
  BY <1>2
<1>4. /\ \A i \in DOMAIN q : i \in DOMAIN Append(q, e) /\ Append(q, e)[i] = q[i]
      /\ \A i \in DOMAIN Append(q, e) : i \in DOMAIN q \/ i = Len(q) + 1
      /\ Len(q) + 1 \in DOMAIN Append(q, e) /\ Append(q, e)[Len(q) + 1] = e
  BY <1>1, <1>2, <1>3
<1>5. ToSet(Append(q, e)) = ToSet(q) \cup {e}
  BY <1>4 DEF ToSet
<1>6. QED
  BY <1>1, <1>4, <1>5

\* A topic is noted once.
LEMMA NotedOnce ==
    ASSUME NEW q \in Seq(Topics), IsInjective(q), NEW topic \in Topics \cup {NoTopic}
    PROVE  /\ Noted(topic, q) \in Seq(Topics) /\ IsInjective(Noted(topic, q))
           /\ ToSet(Noted(topic, q)) = ToSet(q) \cup ({topic} \ {NoTopic})
<1>1. CASE topic # NoTopic /\ \A i \in DOMAIN q : q[i] # topic
  <2>1. Noted(topic, q) = Append(q, topic) /\ topic \in Topics
    BY <1>1 DEF Noted
  <2>2. /\ Append(q, topic) \in Seq(Topics)
        /\ \A i \in DOMAIN q : i \in DOMAIN Append(q, topic) /\ Append(q, topic)[i] = q[i]
        /\ \A i \in DOMAIN Append(q, topic) : i \in DOMAIN q \/ i = Len(q) + 1
        /\ Append(q, topic)[Len(q) + 1] = topic
        /\ ToSet(Append(q, topic)) = ToSet(q) \cup {topic}
    BY <2>1, AppendedSet
  <2>3. IsInjective(Append(q, topic))
    BY <2>2, <1>1 DEF IsInjective
  <2>4. QED
    BY <2>1, <2>2, <2>3, <1>1
<1>2. CASE topic = NoTopic
  BY <1>2 DEF Noted
<1>3. CASE topic # NoTopic /\ \E i \in DOMAIN q : q[i] = topic
  <2>1. Noted(topic, q) = q /\ topic \in ToSet(q)
    BY <1>3 DEF Noted, ToSet
  <2>2. QED
    BY <2>1, <1>3
<1>4. QED
  BY <1>1, <1>2, <1>3

\* A session is as it was when its messages keep their topics.
LEMMA SessionAsItWas ==
    ASSUME SessionIInv, NEW s \in DOMAIN messages,
           s \in DOMAIN messages', messages'[s] = messages[s],
           metadata'[s].count = metadata[s].count, metadata'[s].topics = metadata[s].topics,
           \A n \in DOMAIN nodes : n \in DOMAIN nodes' /\ nodes'[n].topic = nodes[n].topic
    PROVE  OfItsMessages(s)'
<1>1. OfItsMessages(s)
  BY DEF SessionIInv
<1>2. \A n \in ToSet(messages[s]) : n \in DOMAIN nodes
  BY <1>1 DEF ToSet, OfItsMessages
<1>3. {nodes'[n].topic : n \in ToSet(messages[s])} = {nodes[n].topic : n \in ToSet(messages[s])}
  BY <1>2
<1>4. QED
  BY <1>1, <1>3 DEF OfItsMessages

\* A session is created without messages.
LEMMA CreateSessionKeeps ==
    ASSUME SessionIInv, NEW s \in SessionIds, CreateSession(s)
    PROVE  SessionIInv'
<1>1. /\ nodes' = nodes /\ threads' = threads
      /\ messages' = [x \in DOMAIN messages \cup {s} |-> IF x = s THEN <<>> ELSE messages[x]]
      /\ metadata' = [x \in DOMAIN metadata \cup {s} |->
                        IF x = s THEN [count |-> 0, topics |-> <<>>, bookmarks |-> {}] ELSE metadata[x]]
  BY DEF CreateSession
<1>2. SessionTypes /\ DOMAIN metadata = DOMAIN messages
  BY DEF SessionIInv, SessionTypes
<1>3. <<>> \in Seq(Numbers) /\ [count |-> 0, topics |-> <<>>, bookmarks |-> {}] \in Metadata
  BY DEF Metadata
<1>4. SessionTypes'
  <2>1. \A x \in DOMAIN messages : messages[x] \in Seq(Numbers) /\ metadata[x] \in Metadata
    BY <1>2 DEF SessionTypes
  <2>2. DOMAIN messages' = DOMAIN messages \cup {s}
    BY <1>1
  <2>3. messages' \in [DOMAIN messages \cup {s} -> Seq(Numbers)]
    BY <1>1, <1>3, <2>1
  <2>4. metadata' \in [DOMAIN messages \cup {s} -> Metadata]
    BY <1>1, <1>2, <1>3, <2>1
  <2>5. QED
    BY <1>1, <1>2, <2>2, <2>3, <2>4 DEF SessionTypes
<1>5. ASSUME NEW x \in DOMAIN messages'
      PROVE  OfItsMessages(x)'
  <2>1. CASE x = s
    <3>1. messages'[x] = <<>> /\ metadata'[x].count = 0 /\ metadata'[x].topics = <<>>
      BY <1>1, <1>2, <2>1
    <3>2. QED
      BY <3>1 DEF OfItsMessages, IsInjective, ToSet
  <2>2. CASE x # s
    <3>1. x \in DOMAIN messages /\ messages'[x] = messages[x] /\ metadata'[x] = metadata[x]
      BY <1>1, <1>2, <2>2
    <3>2. QED
      BY <1>1, <3>1, SessionAsItWas
  <2>3. QED
    BY <2>1, <2>2
<1>6. \A n \in DOMAIN nodes' : InItsThread(n)'
  BY <1>1 DEF SessionIInv, InItsThread
<1>7. QED
  BY <1>4, <1>5, <1>6 DEF SessionIInv

\* A message is newer than all before it, and named by no thread.
LEMMA AddMessageKeeps ==
    ASSUME SessionIInv,
           NEW s \in SessionIds, NEW importance \in Importances, NEW topic \in Topics \cup {NoTopic},
           AddMessage(s, importance, topic)
    PROVE  SessionIInv'
<1> DEFINE node == [importance |-> importance, topic |-> topic, thread |-> NoThread]
           new == Len(nodes) + 1
<1>1. /\ Len(nodes) < MaxNodes /\ nodes' = Append(nodes, node) /\ threads' = threads
      /\ IF s \in DOMAIN messages
         THEN /\ messages' = [messages EXCEPT ![s] = Append(@, new)]
              /\ metadata' = [metadata EXCEPT ![s].count = @ + 1, ![s].topics = Noted(topic, @)]
         ELSE messages' = messages /\ metadata' = metadata
  BY DEF AddMessage
<1>2. SessionTypes
  BY DEF SessionIInv
<1>3. node \in Nodes /\ node.topic = topic /\ node.thread = NoThread
  BY SessionAssumption DEF Nodes, NoThread
<1>4. new \in Numbers /\ Len(nodes) \in Nat /\ DOMAIN nodes = 1..Len(nodes)
  BY <1>1, <1>2, SessionAssumption DEF SessionTypes, Numbers
<1> HIDE DEF node
<1>5. /\ nodes' \in Seq(Nodes) /\ Len(nodes') = new
      /\ \A n \in DOMAIN nodes : n \in DOMAIN nodes' /\ nodes'[n] = nodes[n]
      /\ \A n \in DOMAIN nodes' : n \in DOMAIN nodes \/ n = new
      /\ new \in DOMAIN nodes' /\ nodes'[new] = node
  BY <1>1, <1>2, <1>3, AppendedSet DEF SessionTypes
<1>6. \A n \in DOMAIN nodes' : InItsThread(n)'
  BY <1>1, <1>3, <1>5 DEF SessionIInv, InItsThread
<1>7. CASE s \notin DOMAIN messages
  <2>1. messages' = messages /\ metadata' = metadata
    BY <1>1, <1>7
  <2>2. SessionTypes'
    BY <1>1, <1>2, <1>4, <1>5, <2>1, SessionAssumption DEF SessionTypes, Numbers
  <2>3. \A x \in DOMAIN messages' : OfItsMessages(x)'
    BY <1>5, <2>1, SessionAsItWas
  <2>4. QED
    BY <1>6, <2>2, <2>3 DEF SessionIInv
<1>8. CASE s \in DOMAIN messages
  <2> DEFINE list == messages[s]
             noted == Noted(topic, metadata[s].topics)
  <2>1. list \in Seq(Numbers) /\ metadata[s] \in Metadata /\ OfItsMessages(s)
    BY <1>2, <1>8 DEF SessionTypes, SessionIInv
  <2>2. /\ Append(list, new) \in Seq(Numbers) /\ Len(Append(list, new)) = Len(list) + 1
        /\ \A i \in DOMAIN list : i \in DOMAIN Append(list, new) /\ Append(list, new)[i] = list[i]
        /\ \A i \in DOMAIN Append(list, new) : i \in DOMAIN list \/ i = Len(list) + 1
        /\ Append(list, new)[Len(list) + 1] = new
        /\ ToSet(Append(list, new)) = ToSet(list) \cup {new}
    BY <1>4, <2>1, AppendedSet
  <2>3. /\ noted \in Seq(Topics) /\ IsInjective(noted)
        /\ ToSet(noted) = ToSet(metadata[s].topics) \cup ({topic} \ {NoTopic})
    BY <2>1, NotedOnce DEF Metadata, OfItsMessages
  <2> HIDE DEF noted
  <2>4. /\ DOMAIN messages' = DOMAIN messages
        /\ messages'[s] = Append(list, new)
        /\ \A x \in DOMAIN messages : x # s => messages'[x] = messages[x]
    BY <1>1, <1>8, <1>2 DEF SessionTypes
  <2>5. /\ metadata'[s] \in Metadata
        /\ metadata'[s].count = metadata[s].count + 1
        /\ metadata'[s].topics = noted
        /\ \A x \in DOMAIN messages : x # s => metadata'[x] = metadata[x]
    <3> DEFINE more == metadata[s].count + 1
               kept == [metadata[s] EXCEPT !.count = more, !.topics = noted]
    <3>5. more \in Nat /\ metadata[s] \in Metadata
      BY <2>1 DEF Metadata
    <3>6. [metadata[s] EXCEPT !.count = @ + 1, !.topics = noted] = kept
      OBVIOUS
    <3> HIDE DEF more
    <3>1. kept \in Metadata /\ kept.count = more /\ kept.topics = noted
      BY <3>5, <2>3 DEF Metadata
    <3>2. metadata' = [metadata EXCEPT ![s] = kept]
      BY <1>1, <1>8, <3>6 DEF noted
    <3>3. s \in DOMAIN metadata /\ DOMAIN metadata = DOMAIN messages
      BY <1>2, <1>8 DEF SessionTypes
    <3> HIDE DEF kept
    <3>4. QED
      BY <3>1, <3>2, <3>3 DEF more
  <2>6. SessionTypes'
    <3>1. messages' \in [DOMAIN messages -> Seq(Numbers)]
      <4>1. messages' = [messages EXCEPT ![s] = Append(list, new)]
        BY <1>1, <1>8
      <4>2. messages \in [DOMAIN messages -> Seq(Numbers)] /\ Append(list, new) \in Seq(Numbers)
        BY <1>2, <2>2 DEF SessionTypes
      <4> DEFINE longer == Append(list, new)
      <4> HIDE DEF longer, list, new
      <4>3. QED
        BY <4>1, <4>2 DEF longer
    <3>2. metadata' \in [DOMAIN messages -> Metadata]
      <4>1. DOMAIN metadata' = DOMAIN messages
        BY <1>1, <1>2, <1>8 DEF SessionTypes
      <4>2. \A x \in DOMAIN messages : metadata'[x] \in Metadata
        BY <2>5, <1>2 DEF SessionTypes
      <4>3. metadata' = [x \in DOMAIN messages |-> metadata'[x]]
        BY <1>1, <1>2, <1>8, <4>1 DEF SessionTypes
      <4>4. QED
        BY <4>2, <4>3
    <3>3. Len(nodes') <= MaxNodes /\ threads' = threads
      BY <1>1, <1>4, <1>5, SessionAssumption DEF Numbers
    <3>4. messages' \in [DOMAIN messages' -> Seq(Numbers)] /\ metadata' \in [DOMAIN messages' -> Metadata]
      BY <2>4, <3>1, <3>2, Zenon
    <3>5. QED
      BY <1>2, <1>5, <3>3, <3>4 DEF SessionTypes
  <2>7. OfItsMessages(s)'
    <3>1. \A i \in DOMAIN list : list[i] \in DOMAIN nodes
      BY <2>1 DEF OfItsMessages
    <3>2. \A n \in ToSet(list) : n \in DOMAIN nodes /\ nodes'[n].topic = nodes[n].topic
      BY <3>1, <1>5 DEF ToSet
    <3>3. {nodes'[n].topic : n \in ToSet(list) \cup {new}} =
            {nodes[n].topic : n \in ToSet(list)} \cup {topic}
      BY <3>2, <1>5, <1>3
    <3>4. ToSet(noted) = ({nodes[n].topic : n \in ToSet(list)} \cup {topic}) \ {NoTopic}
      BY <2>1, <2>3 DEF OfItsMessages
    <3>5. \A i \in DOMAIN messages'[s] : messages'[s][i] \in DOMAIN nodes'
      BY <2>2, <2>4, <3>1, <1>5
    <3>6. \A i, j \in DOMAIN messages'[s] : i < j => messages'[s][i] < messages'[s][j]
      <4> SUFFICES ASSUME NEW i \in DOMAIN messages'[s], NEW j \in DOMAIN messages'[s], i < j
                   PROVE  messages'[s][i] < messages'[s][j]
        OBVIOUS
      <4>1. DOMAIN list = 1..Len(list) /\ Len(list) \in Nat
        BY <2>1
      <4>2. (i \in DOMAIN list \/ i = Len(list) + 1) /\ (j \in DOMAIN list \/ j = Len(list) + 1)
        BY <2>2, <2>4
      <4>3. i \in DOMAIN list /\ messages'[s][i] = list[i]
        BY <4>1, <4>2, <2>2, <2>4
      <4>4. CASE j \in DOMAIN list
        BY <4>3, <4>4, <2>1, <2>2, <2>4 DEF OfItsMessages
      <4>5. CASE j = Len(list) + 1
        <5>1. messages'[s][j] = new /\ list[i] \in 1..Len(nodes)
          BY <4>3, <4>5, <2>2, <2>4, <3>1, <1>4
        <5>2. QED
          BY <5>1, <4>3, <1>4
      <4>6. QED
        BY <4>2, <4>4, <4>5
    <3>7. metadata'[s].count = Len(messages'[s])
      BY <2>1, <2>2, <2>4, <2>5 DEF OfItsMessages
    <3>8. ToSet(metadata'[s].topics) = {nodes'[n].topic : n \in ToSet(messages'[s])} \ {NoTopic}
      BY <2>2, <2>4, <2>5, <3>3, <3>4
    <3>9. QED
      BY <3>5, <3>6, <3>7, <3>8, <2>3, <2>5 DEF OfItsMessages
  <2>8. \A x \in DOMAIN messages' : OfItsMessages(x)'
    <3> SUFFICES ASSUME NEW x \in DOMAIN messages', x # s
                 PROVE  OfItsMessages(x)'
      BY <2>7
    <3>1. x \in DOMAIN messages /\ messages'[x] = messages[x] /\ metadata'[x] = metadata[x]
      BY <2>4, <2>5
    <3>2. QED
      BY <3>1, <1>5, SessionAsItWas
  <2>9. QED
    BY <1>6, <2>6, <2>8 DEF SessionIInv
<1>9. QED
  BY <1>7, <1>8

\* A message that enters a thread is named by it, and the others as before.
LEMMA ThreadTakes ==
    ASSUME SessionIInv, NEW n \in DOMAIN nodes, NEW t \in 1..MaxTitles,
           nodes' = [nodes EXCEPT ![n].thread = t],
           threads' \in Seq(Seq(Numbers)), Len(threads') <= MaxTitles,
           t \in DOMAIN threads', n \in ToSet(threads'[t]),
           \A u \in DOMAIN threads :
               u \in DOMAIN threads' /\ ToSet(threads[u]) \subseteq ToSet(threads'[u]),
           UNCHANGED <<messages, metadata>>
    PROVE  SessionIInv'
<1>1. SessionTypes /\ nodes \in Seq(Nodes)
  BY DEF SessionIInv, SessionTypes
<1>2. nodes[n] \in Nodes /\ [nodes[n] EXCEPT !.thread = t] \in Nodes
  <2>1. nodes[n] \in Nodes
    BY <1>1, ElementOfSeq
  <2>2. t \in 0..MaxTitles
    BY SessionAssumption
  <2>3. QED
    BY <2>1, <2>2 DEF Nodes
<1>3. nodes' \in Seq(Nodes) /\ Len(nodes') = Len(nodes) /\ DOMAIN nodes' = DOMAIN nodes
  <2>1. nodes' = [nodes EXCEPT ![n] = [nodes[n] EXCEPT !.thread = t]]
    OBVIOUS
  <2>2. QED
    BY <1>1, <1>2, <2>1, ExceptSeq
<1>4. /\ nodes'[n].thread = t /\ nodes'[n].topic = nodes[n].topic
      /\ \A m \in DOMAIN nodes : m # n => nodes'[m] = nodes[m]
  BY <1>1, <1>2 DEF Nodes
<1>5. SessionTypes'
  BY <1>1, <1>3 DEF SessionTypes
<1>6. \A s \in DOMAIN messages' : OfItsMessages(s)'
  BY <1>3, <1>4, SessionAsItWas
<1>7. \A m \in DOMAIN nodes' : InItsThread(m)'
  BY <1>3, <1>4 DEF SessionIInv, InItsThread
<1>8. QED
  BY <1>5, <1>6, <1>7 DEF SessionIInv

\* A thread begins with a message of its session, or without one.
LEMMA CreateThreadKeeps ==
    ASSUME SessionIInv, NEW s \in SessionIds, NEW initial \in 0..Len(nodes), CreateThread(s, initial)
    PROVE  SessionIInv'
<1>1. /\ SessionTypes /\ threads \in Seq(Seq(Numbers)) /\ Len(threads) < MaxTitles
      /\ Len(threads) \in Nat
  BY DEF SessionIInv, SessionTypes, CreateThread
<1>2. \A q \in Seq(Numbers) :
        /\ Append(threads, q) \in Seq(Seq(Numbers)) /\ Len(Append(threads, q)) = Len(threads) + 1
        /\ \A u \in DOMAIN threads : u \in DOMAIN Append(threads, q) /\ Append(threads, q)[u] = threads[u]
        /\ Len(threads) + 1 \in DOMAIN Append(threads, q)
        /\ Append(threads, q)[Len(threads) + 1] = q
  BY <1>1, AppendedSet
<1>3. CASE s \in DOMAIN messages /\ initial \in ToSet(messages[s])
  <2>1. /\ threads' = Append(threads, <<initial>>)
        /\ nodes' = [nodes EXCEPT ![initial].thread = Len(threads) + 1]
        /\ UNCHANGED <<messages, metadata>>
    BY <1>3 DEF CreateThread
  <2>2. initial \in DOMAIN nodes /\ initial \in Numbers
    <3>1. initial \in DOMAIN nodes
      BY <1>3 DEF SessionIInv, OfItsMessages, ToSet
    <3>2. DOMAIN nodes = 1..Len(nodes) /\ Len(nodes) \in Nat /\ Len(nodes) <= MaxNodes
      BY <1>1 DEF SessionTypes
    <3>3. QED
      BY <3>1, <3>2, SessionAssumption DEF Numbers
  <2>3. <<initial>> \in Seq(Numbers) /\ initial \in ToSet(<<initial>>)
    BY <2>2 DEF ToSet
  <2>4. Len(threads) + 1 \in 1..MaxTitles
    BY <1>1, SessionAssumption
  <2>5. /\ threads' \in Seq(Seq(Numbers)) /\ Len(threads') = Len(threads) + 1
        /\ \A u \in DOMAIN threads : u \in DOMAIN threads' /\ threads'[u] = threads[u]
        /\ Len(threads) + 1 \in DOMAIN threads' /\ threads'[Len(threads) + 1] = <<initial>>
    BY <1>2, <2>1, <2>3
  <2>6. Len(threads') <= MaxTitles
    BY <2>4, <2>5, SessionAssumption
  <2> DEFINE t == Len(threads) + 1
  <2>7. /\ t \in 1..MaxTitles /\ nodes' = [nodes EXCEPT ![initial].thread = t]
        /\ t \in DOMAIN threads' /\ initial \in ToSet(threads'[t])
    BY <2>1, <2>3, <2>4, <2>5
  <2> HIDE DEF t
  <2>8. \A u \in DOMAIN threads : u \in DOMAIN threads' /\ ToSet(threads[u]) \subseteq ToSet(threads'[u])
    BY <2>5
  <2>9. QED
    BY <2>1, <2>2, <2>5, <2>6, <2>7, <2>8, ThreadTakes
<1>4. CASE ~(s \in DOMAIN messages /\ initial \in ToSet(messages[s]))
  <2>1. threads' = Append(threads, <<>>) /\ UNCHANGED <<nodes, messages, metadata>>
    BY <1>4 DEF CreateThread
  <2>2. <<>> \in Seq(Numbers)
    OBVIOUS
  <2>3. SessionTypes'
    <3>1. threads' \in Seq(Seq(Numbers)) /\ Len(threads') = Len(threads) + 1
      BY <1>2, <2>1, <2>2
    <3>2. Len(threads') <= MaxTitles
      BY <1>1, <3>1, SessionAssumption
    <3>3. QED
      BY <1>1, <2>1, <3>1, <3>2 DEF SessionTypes
  <2>4. \A x \in DOMAIN messages' : OfItsMessages(x)'
    BY <2>1 DEF SessionIInv, OfItsMessages
  <2>5. \A n \in DOMAIN nodes' : InItsThread(n)'
    BY <1>2, <2>1, <2>2 DEF SessionIInv, InItsThread
  <2>6. QED
    BY <2>3, <2>4, <2>5 DEF SessionIInv
<1>5. QED
  BY <1>3, <1>4

\* AllMessages message may enter any thread.
LEMMA AddToThreadKeeps ==
    ASSUME SessionIInv, NEW t \in DOMAIN threads, NEW n \in DOMAIN nodes, AddToThread(t, n)
    PROVE  SessionIInv'
<1>1. /\ threads' = [threads EXCEPT ![t] = Append(@, n)]
      /\ nodes' = [nodes EXCEPT ![n].thread = t]
      /\ UNCHANGED <<messages, metadata>>
  BY DEF AddToThread
<1>2. SessionTypes
  BY DEF SessionIInv
<1>3. n \in Numbers /\ t \in 1..MaxTitles
  <2>1. DOMAIN nodes = 1..Len(nodes) /\ Len(nodes) \in Nat /\ Len(nodes) <= MaxNodes
    BY <1>2 DEF SessionTypes
  <2>2. DOMAIN threads = 1..Len(threads) /\ Len(threads) \in Nat /\ Len(threads) <= MaxTitles
    BY <1>2 DEF SessionTypes
  <2>3. QED
    BY <2>1, <2>2, SessionAssumption DEF Numbers
<1>4. threads[t] \in Seq(Numbers)
  BY <1>2, ElementOfSeq DEF SessionTypes
<1>5. Append(threads[t], n) \in Seq(Numbers) /\ ToSet(Append(threads[t], n)) = ToSet(threads[t]) \cup {n}
  BY <1>3, <1>4, AppendedSet
<1>6. threads' \in Seq(Seq(Numbers)) /\ Len(threads') = Len(threads) /\ DOMAIN threads' = DOMAIN threads
  BY <1>1, <1>2, <1>5, ExceptSeq DEF SessionTypes
<1>7. threads'[t] = Append(threads[t], n) /\ \A u \in DOMAIN threads : u # t => threads'[u] = threads[u]
  BY <1>1, <1>2 DEF SessionTypes
<1>8. \A u \in DOMAIN threads : u \in DOMAIN threads' /\ ToSet(threads[u]) \subseteq ToSet(threads'[u])
  BY <1>5, <1>6, <1>7
<1>9. n \in ToSet(threads'[t]) /\ Len(threads') <= MaxTitles
  BY <1>5, <1>6, <1>7, <1>2 DEF SessionTypes
<1>10. QED
  BY <1>1, <1>3, <1>6, <1>8, <1>9, ThreadTakes

\* A bookmark changes nothing else.
LEMMA CreateBookmarkKeeps ==
    ASSUME SessionIInv, NEW s \in SessionIds, CreateBookmark(s, 1)
    PROVE  SessionIInv'
<1>1. /\ s \in DOMAIN metadata
      /\ metadata' = [metadata EXCEPT ![s].bookmarks = @ \cup {1}]
      /\ UNCHANGED <<nodes, messages, threads>>
  BY DEF CreateBookmark
<1>2. SessionTypes /\ metadata[s] \in Metadata
  BY <1>1 DEF SessionIInv, SessionTypes
<1>3. SessionTypes'
  <2>1. [metadata[s] EXCEPT !.bookmarks = @ \cup {1}] \in Metadata
    BY <1>2 DEF Metadata
  <2>2. metadata' = [metadata EXCEPT ![s] = [metadata[s] EXCEPT !.bookmarks = @ \cup {1}]]
    BY <1>1
  <2>3. metadata' \in [DOMAIN messages -> Metadata]
    BY <1>2, <2>1, <2>2 DEF SessionTypes
  <2>4. QED
    BY <1>1, <1>2, <2>3 DEF SessionTypes
<1>4. \A x \in DOMAIN messages : metadata'[x].count = metadata[x].count /\ metadata'[x].topics = metadata[x].topics
  BY <1>1, <1>2 DEF SessionTypes, Metadata
<1>5. \A x \in DOMAIN messages' : OfItsMessages(x)'
  BY <1>1, <1>4, SessionAsItWas
<1>6. \A n \in DOMAIN nodes' : InItsThread(n)'
  BY <1>1 DEF SessionIInv, InItsThread
<1>7. QED
  BY <1>3, <1>5, <1>6 DEF SessionIInv

\* Every step keeps the inductive invariant.
LEMMA SessionStep == SessionIInv /\ [SessionNext]_sessionVars => SessionIInv'
<1> SUFFICES ASSUME SessionIInv, [SessionNext]_sessionVars
             PROVE  SessionIInv'
  OBVIOUS
<1>1. CASE UNCHANGED sessionVars
  BY <1>1 DEF sessionVars, SessionIInv, SessionTypes, OfItsMessages, InItsThread
<1>2. CASE SessionNext
  BY <1>2, CreateSessionKeeps, AddMessageKeeps, CreateThreadKeeps, AddToThreadKeeps, CreateBookmarkKeeps
     DEF SessionNext
<1>3. QED
  BY <1>1, <1>2

\* The messages that some list of a session's has, from the newest to the oldest.
LEMMA NewestComesFirst ==
    ASSUME NEW q \in Seq(Int), IsInjective(q)
    PROVE  /\ NewestFirst(q) \in Seq(Int) /\ Len(NewestFirst(q)) = Len(q)
           /\ \A j, k \in 1..Len(q) : j < k => NewestFirst(q)[j] > NewestFirst(q)[k]
           /\ \A i \in 1..Len(q) : \E k \in 1..Len(q) : NewestFirst(q)[k] = q[i]
<1> DEFINE n == Len(q)
           f == Falling(q)
           c == NewestFirst(q)
<1>1. n \in Nat /\ q \in [1..n -> Int] /\ DOMAIN q = 1..n
  OBVIOUS
<1> HIDE DEF n
<1>2. /\ f \in [1..n -> 1..n]
      /\ \A j, k \in 1..n : j < k => Before(q, f[j], f[k])
      /\ \A j, k \in 1..n : f[j] = f[k] => j = k
      /\ \A i \in 1..n : \E k \in 1..n : f[k] = i
  BY <1>1, FallingRanks
<1> HIDE DEF f
<1>3. c = [k \in 1..n |-> q[f[k]]]
  BY <1>1 DEF NewestFirst, f
<1>4. c \in [1..n -> Int]
  BY <1>1, <1>2, <1>3
<1>5. c \in Seq(Int) /\ Len(c) = n
  BY <1>1, <1>4
<1>9. \A a, b \in 1..n : q[a] = q[b] => a = b
  BY <1>1 DEF IsInjective
<1>6. ASSUME NEW j \in 1..n, NEW k \in 1..n, j < k
      PROVE  c[j] > c[k]
  <2>1. f[j] \in 1..n /\ f[k] \in 1..n /\ f[j] # f[k] /\ Before(q, f[j], f[k])
    <3>1. j # k
      BY <1>1, <1>6
    <3>2. QED
      BY <1>2, <1>6, <3>1
  <2>2. q[f[j]] \in Int /\ q[f[k]] \in Int /\ q[f[j]] # q[f[k]]
    BY <1>1, <1>9, <2>1
  <2>3. QED
    BY <1>3, <2>1, <2>2 DEF Before
<1>7. \A i \in 1..n : \E k \in 1..n : c[k] = q[i]
  BY <1>2, <1>3
<1>8. QED
  BY <1>5, <1>6, <1>7 DEF n

\* The important messages of a list, in its order.
LEMMA ImportantOnes ==
    ASSUME NEW q \in Seq(Numbers)
    PROVE  \E m \in Nat : \E at \in [1..m -> 1..Len(q)] :
              /\ ImportantOf(q) \in Seq(Numbers) /\ Len(ImportantOf(q)) = m
              /\ \A k \in 1..m : ImportantOf(q)[k] = q[at[k]] /\ Important(q[at[k]])
              /\ \A j, k \in 1..m : j < k => at[j] < at[k]
              /\ \A i \in 1..Len(q) : Important(q[i]) => \E k \in 1..m : at[k] = i
<1> DEFINE S == {i \in DOMAIN q : Important(q[i])}
           at == InOrder(S)
           m == Cardinality(S)
<1>1. DOMAIN q = 1..Len(q) /\ Len(q) \in Nat /\ \A i \in 1..Len(q) : q[i] \in Numbers
  BY ElementOfSeq
<1>2. S \in SUBSET (1..Len(q)) /\ \A i \in 1..Len(q) : i \in S <=> Important(q[i])
  BY <1>1
<1>3. ImportantOf(q) = [k \in DOMAIN at |-> q[at[k]]]
  BY DEF ImportantOf
<1> HIDE DEF S
<1>4. IsFiniteSet(S) /\ S \in SUBSET Int /\ m \in Nat
  <2>1. IsFiniteSet(1..Len(q)) /\ 1..Len(q) \subseteq Int
    BY <1>1, FS_Interval
  <2>2. QED
    BY <1>2, <2>1, FS_Subset, FS_CardinalityType
<1>5. /\ Len(at) = m /\ DOMAIN at = 1..m /\ at \in Seq(S)
      /\ \A x \in S : \E k \in 1..m : at[k] = x
      /\ \A j, k \in 1..m : j < k <=> at[j] < at[k]
      /\ \A k \in 1..m : at[k] \in S
  BY <1>4, Ordered
<1>6. at \in [1..m -> 1..Len(q)]
  <2>1. at \in [1..m -> S]
    BY <1>5
  <2>2. QED
    BY <2>1, <1>2
<1> HIDE DEF at, m
<1>7. ImportantOf(q) = [k \in 1..m |-> q[at[k]]]
  BY <1>3, <1>5
<1>8. ImportantOf(q) \in Seq(Numbers) /\ Len(ImportantOf(q)) = m
  <2>1. ImportantOf(q) \in [1..m -> Numbers]
    BY <1>1, <1>6, <1>7
  <2>2. QED
    BY <2>1, <1>4, SeqDef
<1>9. /\ \A k \in 1..m : ImportantOf(q)[k] = q[at[k]] /\ Important(q[at[k]])
      /\ \A j, k \in 1..m : j < k => at[j] < at[k]
      /\ \A i \in 1..Len(q) : Important(q[i]) => \E k \in 1..m : at[k] = i
  BY <1>2, <1>5, <1>7
<1> WITNESS m \in Nat
<1> WITNESS at \in [1..m -> 1..Len(q)]
<1>10. QED
  BY <1>8, <1>9

\* The context of one session: its newest messages and, of the important ones before
\* them, the oldest.
LEMMA ContextOfSession ==
    ASSUME SessionIInv, NEW s \in DOMAIN messages
    PROVE  /\ \A i, j \in DOMAIN Context(s) : i < j => Context(s)[i] > Context(s)[j]
           /\ \A i \in DOMAIN messages[s] :
                messages[s][i] \notin ToSet(Context(s)) =>
                   /\ i <= Len(messages[s]) - Recent
                   /\ Important(messages[s][i]) =>
                        Cardinality({k \in DOMAIN Context(s) :
                            Context(s)[k] < messages[s][i] /\ Important(Context(s)[k])}) >= Older
<1> DEFINE list == messages[s]
           n == Len(list)
           r == AtMost(Recent, n)
           cut == n - r
           recent == SubSeq(list, n - r + 1, n)
           earlier == OlderOf(list)
           older == ImportantOf(earlier)
           d == AtMost(Older, Len(older))
           first == SubSeq(older, 1, d)
           all == recent \o first
           sorted == NewestFirst(all)
           c == Context(s)
<1>1. /\ list \in Seq(Numbers) /\ n \in Nat /\ DOMAIN list = 1..n
      /\ \A i \in 1..n : list[i] \in Numbers
      /\ \A i, j \in 1..n : i < j => list[i] < list[j]
  <2>1. list \in Seq(Numbers) /\ OfItsMessages(s)
    BY DEF SessionIInv, SessionTypes
  <2>2. DOMAIN list = 1..n /\ n \in Nat
    BY <2>1
  <2>3. QED
    BY <2>1, <2>2, ElementOfSeq DEF OfItsMessages
<1>2. Numbers \subseteq Nat
  BY SessionAssumption DEF Numbers
<1> HIDE DEF list, n
<1>3. r \in Nat /\ r <= n /\ (r = Recent \/ cut = 0) /\ cut \in 0..n /\ r <= Recent
  BY <1>1, SessionAssumption DEF AtMost
<1> HIDE DEF r
<1>4. recent \in Seq(Numbers) /\ Len(recent) = r /\ \A i \in 1..r : recent[i] = list[cut + i]
  <2> DEFINE m == n - r + 1
  <2>1. m \in Int /\ n \in Int /\ \A i \in m..n : list[i] \in Numbers
    BY <1>1, <1>3
  <2>2. /\ SubSeq(list, m, n) \in Seq(Numbers)
        /\ Len(SubSeq(list, m, n)) = IF m <= n THEN n - m + 1 ELSE 0
        /\ \A i \in 1..(n - m + 1) : SubSeq(list, m, n)[i] = list[m + i - 1]
    <3> HIDE DEF m
    <3>1. QED
      BY <2>1, SubSeqProperties
  <2>3. n - m + 1 = r /\ \A i \in 1..r : m + i - 1 = cut + i
    BY <1>1, <1>3
  <2>4. QED
    BY <1>1, <1>3, <2>2, <2>3
<1>5. earlier \in Seq(Numbers) /\ Len(earlier) = cut /\ \A i \in 1..cut : earlier[i] = list[i]
  <2>1. earlier = SubSeq(list, 1, cut)
    BY DEF OlderOf, r, n
  <2>2. cut \in Int /\ \A i \in 1..cut : list[i] \in Numbers
    BY <1>1, <1>3
  <2> HIDE DEF cut, earlier
  <2>3. /\ SubSeq(list, 1, cut) \in Seq(Numbers)
        /\ Len(SubSeq(list, 1, cut)) = IF 1 <= cut THEN cut - 1 + 1 ELSE 0
        /\ \A i \in 1..(cut - 1 + 1) : SubSeq(list, 1, cut)[i] = list[1 + i - 1]
    BY <2>2, SubSeqProperties
  <2>4. QED
    BY <1>3, <2>1, <2>3
<1> HIDE DEF recent, earlier
<1>6. PICK m \in Nat : \E at \in [1..m -> 1..Len(earlier)] :
              /\ older \in Seq(Numbers) /\ Len(older) = m
              /\ \A k \in 1..m : older[k] = earlier[at[k]] /\ Important(earlier[at[k]])
              /\ \A j, k \in 1..m : j < k => at[j] < at[k]
              /\ \A i \in 1..Len(earlier) : Important(earlier[i]) => \E k \in 1..m : at[k] = i
  BY <1>5, ImportantOnes
<1>7. PICK at \in [1..m -> 1..cut] :
              /\ older \in Seq(Numbers) /\ Len(older) = m
              /\ \A k \in 1..m : older[k] = list[at[k]] /\ Important(list[at[k]])
              /\ \A j, k \in 1..m : j < k => at[j] < at[k]
              /\ \A i \in 1..cut : Important(list[i]) => \E k \in 1..m : at[k] = i
  BY <1>5, <1>6
<1> HIDE DEF older, cut
<1>8. d \in Nat /\ d <= m /\ d <= Older /\ (d = Older \/ d = m)
  BY <1>7, SessionAssumption DEF AtMost
<1> HIDE DEF d
<1>9. first \in Seq(Numbers) /\ Len(first) = d /\ \A k \in 1..d : first[k] = list[at[k]]
  <2>1. \A k \in 1..d : k \in 1..m /\ older[k] \in Numbers
    BY <1>7, <1>8, ElementOfSeq
  <2>2. /\ SubSeq(older, 1, d) \in Seq(Numbers)
        /\ Len(SubSeq(older, 1, d)) = IF 1 <= d THEN d - 1 + 1 ELSE 0
        /\ \A i \in 1..(d - 1 + 1) : SubSeq(older, 1, d)[i] = older[1 + i - 1]
    BY <1>8, <2>1, SubSeqProperties
  <2>3. QED
    BY <1>7, <1>8, <2>1, <2>2
<1> HIDE DEF first
<1>10. /\ all \in Seq(Numbers) /\ Len(all) = r + d
       /\ \A i \in 1..r : all[i] = list[cut + i]
       /\ \A k \in 1..d : all[r + k] = list[at[k]]
  <2>1. /\ recent \o first \in Seq(Numbers)
        /\ Len(recent \o first) = Len(recent) + Len(first)
        /\ \A i \in 1..(Len(recent) + Len(first)) :
             (recent \o first)[i] = IF i <= Len(recent) THEN recent[i] ELSE first[i - Len(recent)]
    BY <1>4, <1>9, ConcatProperties
  <2>2. \A k \in 1..d : r + k \in 1..(r + d) /\ ~(r + k <= r) /\ (r + k) - r = k
    BY <1>3, <1>8
  <2>3. \A i \in 1..r : i \in 1..(r + d) /\ i <= r
    BY <1>3, <1>8
  <2>4. QED
    BY <1>4, <1>9, <2>1, <2>2, <2>3
<1> HIDE DEF all
\* Where each message stands in the session.
<1> DEFINE place == [i \in 1..(r + d) |-> IF i <= r THEN cut + i ELSE at[i - r]]
<1>11. /\ place \in [1..(r + d) -> 1..n]
       /\ \A i \in 1..(r + d) : all[i] = list[place[i]]
       /\ \A i, j \in 1..(r + d) : place[i] = place[j] => i = j
  <2>1. cut = n - r /\ n \in Nat /\ r \in Nat /\ d \in Nat /\ cut \in 0..n /\ r <= n
    BY <1>1, <1>3, <1>8 DEF cut
  <2>2. ASSUME NEW i \in 1..(r + d)
        PROVE  \/ i \in 1..r /\ place[i] = cut + i /\ all[i] = list[cut + i] /\ cut + i \in 1..n
               \/ /\ i \notin 1..r /\ i - r \in 1..d /\ i - r \in 1..m /\ place[i] = at[i - r]
                  /\ at[i - r] \in 1..cut /\ all[i] = list[at[i - r]]
    <3>1. CASE i <= r
      <4>1. i \in 1..r /\ cut + i \in 1..n
        BY <2>1, <3>1
      <4>2. QED
        BY <3>1, <4>1, <1>10
    <3>2. CASE ~(i <= r)
      <4>1. i \notin 1..r /\ i - r \in 1..d /\ i - r \in 1..m /\ r + (i - r) = i
        BY <2>1, <3>2, <1>8
      <4>2. at[i - r] \in 1..cut /\ all[r + (i - r)] = list[at[i - r]]
        BY <4>1, <1>7, <1>10
      <4>3. QED
        BY <3>2, <4>1, <4>2
    <3>3. QED
      BY <3>1, <3>2
  <2>3. \A i \in 1..(r + d) : place[i] \in 1..n /\ all[i] = list[place[i]]
    <3> TAKE i \in 1..(r + d)
    <3>1. 1..cut \subseteq 1..n
      BY <2>1
    <3>2. QED
      BY <2>2, <3>1
  <2>4. place \in [1..(r + d) -> 1..n]
    BY <2>3
  <2>5. \A j, k \in 1..m : at[j] = at[k] => j = k
    <3> TAKE j, k \in 1..m
    <3>1. j \in Int /\ k \in Int /\ at[j] \in Int /\ at[k] \in Int
      BY <1>7
    <3>2. QED
      BY <3>1, <1>7
  <2>6. ASSUME NEW i \in 1..(r + d), NEW j \in 1..(r + d), place[i] = place[j]
        PROVE  i = j
    <3> HIDE DEF place
    <3>1. CASE i \in 1..r /\ j \in 1..r
      <4>1. cut + i = cut + j
        BY <2>2, <2>6, <3>1
      <4>2. QED
        BY <2>1, <4>1
    <3>2. CASE i \notin 1..r /\ j \notin 1..r
      <4>1. i - r \in 1..m /\ j - r \in 1..m /\ at[i - r] = at[j - r]
        BY <2>2, <2>6, <3>2
      <4>2. i - r = j - r
        BY <2>5, <4>1
      <4>3. QED
        BY <2>1, <4>2
    <3>3. CASE i \in 1..r /\ j \notin 1..r
      <4>1. cut + i = at[j - r] /\ at[j - r] \in 1..cut
        BY <2>2, <2>6, <3>3
      <4>2. QED
        BY <2>1, <3>3, <4>1
    <3>4. CASE i \notin 1..r /\ j \in 1..r
      <4>1. cut + j = at[i - r] /\ at[i - r] \in 1..cut
        BY <2>2, <2>6, <3>4
      <4>2. QED
        BY <2>1, <3>4, <4>1
    <3>5. QED
      BY <3>1, <3>2, <3>3, <3>4
  <2>7. QED
    BY <2>3, <2>4, <2>6
<1> HIDE DEF place
<1>12. all \in Seq(Int) /\ IsInjective(all)
  <2>2. all \in [1..(r + d) -> Numbers] /\ DOMAIN all = 1..(r + d)
    BY <1>10
  <2>1. all \in Seq(Int)
    <3>1. Numbers \subseteq Int /\ r + d \in Nat
      BY <1>2, <1>3, <1>8
    <3>2. all \in [1..(r + d) -> Int]
      BY <2>2, <3>1
    <3>3. QED
      BY <3>1, <3>2, SeqDef
  <2>3. \A i, j \in 1..n : list[i] = list[j] => i = j
    <3> TAKE i, j \in 1..n
    <3>1. i \in Int /\ j \in Int /\ list[i] \in Numbers /\ list[j] \in Numbers
      BY <1>1
    <3>2. list[i] \in Int /\ list[j] \in Int
      <4>1. list[i] \in Nat /\ list[j] \in Nat
        BY <1>2, <3>1, Zenon
      <4>2. QED
        BY <4>1
    <3>3. (i < j => list[i] < list[j]) /\ (j < i => list[j] < list[i])
      BY <1>1
    <3>4. QED
      BY <3>1, <3>2, <3>3
  <2>4. \A i, j \in 1..(r + d) : all[i] = all[j] => i = j
    <3> TAKE i, j \in 1..(r + d)
    <3>1. all[i] = list[place[i]] /\ all[j] = list[place[j]] /\ place[i] \in 1..n /\ place[j] \in 1..n
      BY <1>11
    <3>2. QED
      BY <2>3, <3>1, <1>11
  <2>5. QED
    BY <2>1, <2>2, <2>4 DEF IsInjective
<1>13. /\ sorted \in Seq(Int) /\ Len(sorted) = r + d
       /\ \A j, k \in 1..(r + d) : j < k => sorted[j] > sorted[k]
       /\ \A i \in 1..(r + d) : \E k \in 1..(r + d) : sorted[k] = all[i]
  <2> HIDE DEF sorted
  <2>1. /\ sorted \in Seq(Int) /\ Len(sorted) = Len(all)
        /\ \A j, k \in 1..Len(all) : j < k => sorted[j] > sorted[k]
        /\ \A i \in 1..Len(all) : \E k \in 1..Len(all) : sorted[k] = all[i]
    BY <1>12, NewestComesFirst DEF sorted
  <2>2. Len(all) = r + d
    BY <1>10
  <2>3. QED
    BY <2>1, <2>2
<1> HIDE DEF sorted
\* The window is wide enough.
<1>14. c \in Seq(Int) /\ Len(c) = r + d /\ DOMAIN c = 1..(r + d) /\ \A k \in 1..(r + d) : c[k] = sorted[k]
  <2> DEFINE w == AtMost(Window, Len(sorted))
  <2>1. w = r + d /\ w \in Nat
    BY <1>3, <1>8, <1>13, SessionAssumption DEF AtMost
  <2>2. c = SubSeq(sorted, 1, w)
    BY Zenon DEF Context, sorted, all, recent, first, d, older, earlier, r, n, list
  <2> HIDE DEF w, c
  <2>3. \A k \in 1..w : sorted[k] \in Int
    BY <1>13, <2>1, ElementOfSeq
  <2>4. /\ SubSeq(sorted, 1, w) \in Seq(Int)
        /\ Len(SubSeq(sorted, 1, w)) = IF 1 <= w THEN w - 1 + 1 ELSE 0
        /\ \A k \in 1..(w - 1 + 1) : SubSeq(sorted, 1, w)[k] = sorted[1 + k - 1]
    BY <2>1, <2>3, SubSeqProperties
  <2>5. c \in Seq(Int) /\ Len(c) = w /\ \A k \in 1..w : c[k] = sorted[k]
    BY <2>1, <2>2, <2>4
  <2>6. QED
    BY <2>1, <2>5
<1> HIDE DEF c
<1>15. \A i, j \in DOMAIN c : i < j => c[i] > c[j]
  BY <1>13, <1>14
<1>16. \A i \in 1..(r + d) : \E k \in DOMAIN c : c[k] = all[i]
  BY <1>13, <1>14
<1>17. ASSUME NEW i \in 1..n, list[i] \notin ToSet(c)
       PROVE  /\ i <= n - Recent
              /\ Important(list[i]) =>
                    Cardinality({k \in DOMAIN c : c[k] < list[i] /\ Important(c[k])}) >= Older
  <2>1. \A j \in 1..(r + d) : all[j] # list[i]
    BY <1>16, <1>17 DEF ToSet
  <2>2. i <= cut
    <3> SUFFICES ASSUME ~(i <= cut)
                 PROVE  FALSE
      OBVIOUS
    <3>1. i - cut \in 1..r /\ i - cut \in 1..(r + d) /\ cut + (i - cut) = i
      BY <1>1, <1>3, <1>8 DEF cut
    <3>2. all[i - cut] = list[i]
      BY <1>10, <3>1
    <3>3. QED
      BY <2>1, <3>1, <3>2
  <2>3. i <= n - Recent /\ i \in 1..cut
    BY <1>1, <1>3, <2>2, SessionAssumption DEF cut
  <2>4. ASSUME Important(list[i])
        PROVE  Cardinality({k \in DOMAIN c : c[k] < list[i] /\ Important(c[k])}) >= Older
    <3> DEFINE S == {k \in DOMAIN c : c[k] < list[i] /\ Important(c[k])}
    <3>1. PICK p \in 1..m : at[p] = i
      BY <1>7, <2>3, <2>4
    <3>2. d < p /\ d = Older
      <4>1. ASSUME p <= d
            PROVE  FALSE
        <5>1. p \in 1..d /\ r + p \in 1..(r + d)
          BY <1>3, <1>8, <3>1, <4>1
        <5>2. all[r + p] = list[i]
          BY <1>10, <3>1, <5>1
        <5>3. QED
          BY <2>1, <5>1, <5>2
      <4>2. QED
        BY <1>8, <3>1, <4>1
    <3>3. \A k \in 1..d : \E j \in S : c[j] = list[at[k]]
      <4> TAKE k \in 1..d
      <4>1. k \in 1..m /\ r + k \in 1..(r + d) /\ k < p
        BY <1>3, <1>8, <3>1, <3>2
      <4>2. at[k] < i /\ at[k] \in 1..cut /\ Important(list[at[k]])
        BY <1>7, <3>1, <4>1
      <4>3. at[k] \in 1..n
        BY <1>1, <1>3, <4>2
      <4>4. list[at[k]] < list[i]
        BY <1>1, <4>2, <4>3
      <4>5. PICK j \in DOMAIN c : c[j] = all[r + k]
        BY <1>16, <4>1
      <4>6. QED
        BY <1>10, <4>2, <4>4, <4>5
    <3> DEFINE f == [k \in 1..d |-> CHOOSE j \in S : c[j] = list[at[k]]]
    <3>4. f \in [1..d -> S] /\ \A k \in 1..d : c[f[k]] = list[at[k]]
      <4> HIDE DEF S
      <4>1. \A k \in 1..d : (CHOOSE j \in S : c[j] = list[at[k]]) \in S
                            /\ c[CHOOSE j \in S : c[j] = list[at[k]]] = list[at[k]]
        BY <3>3
      <4>2. QED
        BY <4>1
    <3>5. \A j, k \in 1..d : f[j] = f[k] => j = k
      <4> HIDE DEF f, S
      <4> SUFFICES ASSUME NEW j \in 1..d, NEW k \in 1..d, f[j] = f[k]
                   PROVE  j = k
        OBVIOUS
      <4>1. all[r + j] = all[r + k]
        BY <1>10, <3>4
      <4>2. r + j \in DOMAIN all /\ r + k \in DOMAIN all
        BY <1>3, <1>8, <1>10
      <4>3. r + j = r + k
        BY <1>12, <4>1, <4>2 DEF IsInjective
      <4>4. QED
        BY <1>3, <1>8, <4>3
    <3>6. IsFiniteSet(S)
      <4>1. S \in SUBSET (1..(r + d)) /\ IsFiniteSet(1..(r + d))
        BY <1>3, <1>8, <1>14, FS_Interval
      <4> HIDE DEF S
      <4>2. QED
        BY <4>1, FS_Subset
    <3>7. Cardinality(1..d) = d /\ IsFiniteSet(1..d)
      <4>1. Cardinality(1..d) = IF 1 > d THEN 0 ELSE d - 1 + 1
        BY <1>8, FS_Interval
      <4>2. QED
        BY <1>8, <4>1, FS_Interval
    <3> HIDE DEF f, S
    <3>8. f \in Injection(1..d, S)
      BY <3>4, <3>5 DEF Injection, IsInjective
    <3>9. Cardinality(1..d) <= Cardinality(S) /\ Cardinality(S) \in Nat
      BY <3>6, <3>8, FS_Injection, FS_CardinalityType
    <3>10. QED
      BY <1>8, <3>2, <3>7, <3>9 DEF S
  <2>5. QED
    BY <2>3, <2>4
<1>18. QED
  BY <1>1, <1>15, <1>17 DEF c, list, n

\* A half, a quarter and a sixteenth of a budget are together a sixteenth over it at most.
LEMMA LayersOfBudget ==
    ASSUME NEW total \in Nat
    PROVE  LET b == Budget(total)
               spent == b.system + b.semantic + b.procedural + b.recent
           IN  total <= spent /\ spent <= total + total \div 16
<1> DEFINE half == total \div 2
           quarter == total \div 4
           sixteenth == total \div 16
<1>1. /\ half \in Nat /\ quarter \in Nat /\ sixteenth \in Nat
      /\ 2 * half <= total /\ 4 * quarter <= total
  OBVIOUS
<1> HIDE DEF half, quarter, sixteenth
<1> DEFINE system     == AtMost(1000, quarter)
           semantic   == AtMost(2000, quarter)
           procedural == AtMost(512, sixteenth)
           recent     == AtMost(4000, half)
           used       == system + semantic + procedural + recent
           rest       == IF total > used THEN recent + (total - used) ELSE recent
<1>2. /\ system \in 0..quarter /\ semantic \in 0..quarter
      /\ procedural \in 0..sixteenth /\ recent \in 0..half
  BY <1>1 DEF AtMost
<1>3. Budget(total) = [system |-> system, semantic |-> semantic, procedural |-> procedural, recent |-> rest]
  BY Zenon DEF Budget, half, quarter, sixteenth
<1> HIDE DEF system, semantic, procedural, recent
<1>4. /\ total <= system + semantic + procedural + rest
      /\ system + semantic + procedural + rest <= total + sixteenth
  BY <1>1, <1>2
<1> HIDE DEF rest
<1>5. QED
  BY <1>3, <1>4 DEF sixteenth

\* Scores and budgets are right, whatever the budgets are.
LEMMA ScoresAreRight == ScoresAndBudgets
<1>1. ASSUME NEW role \in {"system", "user"}, NEW called \in BOOLEAN, NEW total \in 1..8,
             NEW patterns \in 0..3, NEW place \in 0..(total - 1)
      PROVE  LET importance == Importance(Score(role, called, place, total, patterns))
             IN  /\ importance # "low"
                 /\ role = "system" => importance \in {"high", "critical"}
  <2> DEFINE score == Score(role, called, place, total, patterns)
  <2>1. score \in Int /\ score >= 1 /\ (role = "system" => score >= 4)
    BY <1>1 DEF Score
  <2> HIDE DEF score
  <2>2. QED
    BY <2>1 DEF Importance, score
<1>2. \A total \in Budgets :
         LET b == Budget(total)
             spent == b.system + b.semantic + b.procedural + b.recent
         IN  total <= spent /\ spent <= total + total \div 16
  BY SessionAssumption, LayersOfBudget
<1>3. QED
  BY <1>1, <1>2 DEF ScoresAndBudgets

\* The inductive invariant is stronger than what the run checks.
LEMMA SessionIsEnough == SessionIInv => SessionInv
<1> SUFFICES ASSUME SessionIInv
             PROVE  SessionInv
  OBVIOUS
<1>1. SessionTypes /\ \A s \in DOMAIN messages : OfItsMessages(s)
  BY DEF SessionIInv
<1>2. SessionTypeOK
  BY <1>1, ElementOfSeq DEF SessionTypes, SessionTypeOK, Numbers
<1>3. Kept
  BY <1>1 DEF SessionIInv, SessionTypes, OfItsMessages, InItsThread, Kept
<1>4. ContextIsRight
  BY ContextOfSession DEF ContextIsRight
<1>5. QED
  BY <1>2, <1>3, <1>4, ScoresAreRight DEF SessionInv

(***************************************************************************)
(* Counts, topics and threads of the session manager are those of its      *)
(* messages, its contexts show the newest and, before them, the oldest     *)
(* important ones once each, and its budgets are spent: for any lengths of *)
(* context and any budgets.                                                *)
(***************************************************************************)
THEOREM SessionInvariant == SessionSpec => []SessionInv
<1>1. SessionIInv => SessionInv
  BY SessionIsEnough
<1>2. QED
  BY <1>1, SessionStart, SessionStep, PTL DEF SessionSpec

-----------------------------------------------------------------------------
(***************************************************************************)
(* The services side by side.  A step of one is a step of its              *)
(* specification, and leaves the others' variables alone.                  *)
(***************************************************************************)

\* The first state of all is a first state of each.
LEMMA EachStart ==
    ASSUME ServicesInit
    PROVE  /\ BillingInit
           /\ FeedbackInit
           /\ ExpInit
           /\ StatsInit
           /\ RolloutInit
           /\ StartupInit
           /\ SessionInit
           /\ GatewayInit
           /\ ToolboxInit
           /\ PluginsInit
           /\ StreamInit
           /\ MetricsInit
           /\ InvoicesInit
           /\ HealthInit
           /\ VersionsInit
           /\ ChunkingInit
BY DEF ServicesInit

\* A step of all is a step of one of them, and leaves the others as they are.
LEMMA EachStep ==
    ASSUME [ServicesNext]_allVars
    PROVE  /\ [BillingNext]_billingVars
           /\ [FeedbackNext]_feedbackVars
           /\ [ExpNext]_expVars
           /\ [StatsNext]_statsVars
           /\ [RolloutNext]_rolloutVars
           /\ [StartupNext]_startupVars
           /\ [SessionNext]_sessionVars
           /\ [GatewayNext]_gatewayVars
           /\ [ToolboxNext]_toolboxVars
           /\ [PluginsNext]_pluginVars
           /\ [StreamNext]_streamVars
           /\ [MetricsNext]_metricsVars
           /\ [InvoicesNext]_invoicesVars
           /\ [HealthNext]_healthVars
           /\ [VersionsNext]_versionsVars
           /\ [Split]_chunkingVars
<1>1. CASE UNCHANGED allVars
  BY <1>1 DEF allVars, answerVars, studyVars, toolingVars, officeVars
<1>2. CASE ServicesNext
  BY <1>2 DEF ServicesNext, answerVars, studyVars, toolingVars, officeVars
<1>3. QED
  BY <1>1, <1>2

(***************************************************************************)
(* Taken side by side, every service behaves as its own specification      *)
(* says, so that what is proved of one holds of all: nothing they do by    *)
(* turns is lost by looking at them one at a time.                         *)
(***************************************************************************)
THEOREM EachServiceAlone ==
    ServicesSpec =>
       /\ BillingSpec
       /\ ExpSpec
       /\ StatsSpec
       /\ RolloutSpec
       /\ StartupSpec
       /\ SessionSpec
       /\ GatewaySpec
       /\ ToolboxSpec
       /\ PluginsSpec
       /\ StreamSpec
       /\ MetricsSpec
       /\ InvoicesSpec
       /\ HealthSpec
       /\ VersionsSpec
       /\ ChunkingSpec
       /\ FeedbackInit /\ [][FeedbackNext]_feedbackVars
BY EachStart, EachStep, PTL
   DEF ServicesSpec, BillingSpec, ExpSpec, StatsSpec, RolloutSpec, StartupSpec, SessionSpec,
       GatewaySpec, ToolboxSpec, PluginsSpec, StreamSpec, MetricsSpec, InvoicesSpec, HealthSpec, VersionsSpec,
       ChunkingSpec

(***************************************************************************)
(* Whatever experiments, their statistics and the rollout do, their        *)
(* answers, results and history are right: the property of the run, for    *)
(* every value of the constants.                                           *)
(***************************************************************************)
THEOREM StudiesHold == ServicesSpec => []StudiesInv
<1>1. ExpInv /\ StatsInv /\ HistoryIsContinuous => StudiesInv
  BY DEF StudiesInv, Of
<1>2. QED
  BY <1>1, EachServiceAlone, ExperimentsInvariant, StatsInvariant, RolloutHistory, PTL

(***************************************************************************)
(* Whatever clients, sessions, models, tools, plugins and streams do, what *)
(* stands on the way of an answer is right: the property of the run, for   *)
(* every value of the constants.                                           *)
(***************************************************************************)
THEOREM AnswersHold == ServicesSpec => []AnswerInv
<1>1. StartupInv /\ SessionInv /\ GatewayInv /\ ToolboxInv /\ PluginsInv /\ StreamInv => AnswerInv
  BY DEF AnswerInv, Of
<1>2. QED
  BY <1>1, EachServiceAlone, StartupInvariant, SessionInvariant, GatewayInvariant,
     ToolboxInvariant, PluginsInvariant, StreamInvariant, PTL

(***************************************************************************)
(* Whatever metrics, invoices, health and prompts are asked for, the back  *)
(* office is shown what is so: the property of the run, for every value of *)
(* the constants.                                                          *)
(***************************************************************************)
THEOREM OfficeHolds == ServicesSpec => []OfficeInv
<1>1. MetricsInv /\ InvoicesInv /\ HealthInv /\ NumberNamesContent => OfficeInv
  BY DEF OfficeInv, Of
<1>2. QED
  BY <1>1, EachServiceAlone, MetricsInvariant, InvoicesInvariant, HealthInvariant,
     VersionsInvariant, PTL

(***************************************************************************)
(* The other properties of the run: what tenants are billed and how their  *)
(* usage is counted, what voters are shown and how a vote changes it, and  *)
(* the chunks of every document, for every value of the constants.         *)
(***************************************************************************)
THEOREM ServicesHold ==
    ServicesSpec =>
       /\ []BillingInv
       /\ LedgerIsKept
       /\ []FeedbackIsTrue
       /\ SoleVoteToggles
       /\ []ChunksInv
BY EachServiceAlone, BillingInvariant, UsageIsALedger, FeedbackAlways, SoleVotesAlways,
   ChunksInvariant, PTL
=============================================================================

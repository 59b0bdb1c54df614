SPECIFICATION BillingSpec
CONSTANTS
    Chats = {c1, c2}
    Tenants = {t1}
    PlanIds = {1}
    FreeLimit = 1
    Limits = {2}
    MaxPeriod = 1
INVARIANTS
    LimitIsEnforced
CHECK_DEADLOCK FALSE

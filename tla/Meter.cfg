SPECIFICATION Spec
CONSTANTS
    r1 = r1
    r2 = r2
    r3 = r3
    k1 = k1
    k2 = k2
    a1 = a1
    Requests <- MCRequests
    Keys <- MCKeys
    Accounts <- MCAccounts
    KeyOf <- MCKeyOf
    AccountOf <- MCAccountOf
    Statuses = {200, 429, 500}
    MonthlyCap = 1
    MaxMonth = 1
    MaxRestarts = 1
    MaxAmbiguous = 1
INVARIANTS TypeOK UsageExact CounterConserved
PROPERTIES CapEnforced ImplementsLedger
SYMMETRY MCSymmetry
CHECK_DEADLOCK FALSE

SPECIFICATION Spec
CONSTANTS
    r1 = r1
    r2 = r2
    r3 = r3
    k1 = k1
    k2 = k2
    a1 = a1
    Requests <- MCRequests
    Keys <- MCKeys
    Accounts <- MCAccounts
    KeyOf <- MCKeyOf
    AccountOf <- MCAccountOf
    Statuses = {200}
    MonthlyCap = 2
    MaxMonth = 0
    MaxRestarts = 0
    MaxAmbiguous = 0
INVARIANT NeverCountedTwice
CHECK_DEADLOCK FALSE

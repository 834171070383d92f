SPECIFICATION FairSpec
CONSTANTS
    r1 = r1
    r2 = r2
    r3 = r3
    k1 = k1
    k2 = k2
    a1 = a1
    Requests <- MCRequests2
    Keys <- MCKeys
    Accounts <- MCAccounts
    KeyOf <- MCKeyOf2
    AccountOf <- MCAccountOf
    Statuses = {200, 500}
    MonthlyCap = 1
    MaxMonth = 0
    MaxRestarts = 1
    MaxAmbiguous = 1
PROPERTY EventuallyWritten
CHECK_DEADLOCK FALSE

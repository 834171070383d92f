SPECIFICATION FairSpec
CONSTANTS
    Accounts = {a1}
    Jobs = {ticker, staff}
    Month = 2
    PayWithin = 1
    MaxOpen = 2
    MaxDay = 5
    MaxSwitches = 4
INVARIANTS TypeOK DebtBounded PeriodsDisjoint NothingOwedWhenOff
PROPERTY DueIsIssued
CHECK_DEADLOCK FALSE

SPECIFICATION Spec
CONSTANTS
    Accounts = {a1}
    Jobs = {ticker, staff}
    Month = 2
    PayWithin = 1
    MaxOpen = 2
    MaxDay = 5
    MaxSwitches = 3
INVARIANT OffMeansNoneOpen
CHECK_DEADLOCK FALSE

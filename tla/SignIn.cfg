SPECIFICATION SignInSpec
CONSTANTS
    Tabs = {t1, t2}
    Emails = {x, y}
    None = None
    MaxSessions = 2
    Handlers = {x, y}
    MaxLag = 1
    CodeTTL = 1
    Cooldown = 1
    Window = 1
    PerWindow = 1
    MaxAttempts = 2
    PurgeCode = 1
    MaxCodes = 3
    CodeMaxClock = 3
    Absolute = 9
    IdleLimit = 6
    TouchEvery = 2
    PurgeIdle = 6
    MaxClock = 10
    MaxLogins = 1
INVARIANTS TypesOK CodesRight LoggedOutIsGone ClientRight
PROPERTY KeptAlive
SYMMETRY MCSymmetry
CHECK_DEADLOCK FALSE

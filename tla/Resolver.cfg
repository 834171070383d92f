SPECIFICATION Spec
CONSTANTS
    c1 = c1
    c2 = c2
    k1 = k1
    k2 = k2
    free = free
    paid = paid
    Callers <- MCCallers
    Secrets <- MCSecrets
    AccountStates <- MCAccountStates
    PosTTL = 1
    NegTTL = 2
    MaxEntries = 2
    Grace = 1
    MaxClock = 3
    MaxChanges = 2
INVARIANTS TypeOK AnswersRight RevocationBounded CacheBounded
SYMMETRY MCSymmetry
CHECK_DEADLOCK FALSE

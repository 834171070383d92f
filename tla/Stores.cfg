SPECIFICATION StoresSpec
CONSTANTS
    Submissions = {s1, s2, s3}
    Hints = {alice}
    HintOf <- MCHintOf
    MaxPhotos = 2
    PhotoCounts = {0, 2}
    MaxPerHour = 1
    MaxPending = 1
    MaxHandlers = 2
    MaxLies = 1
    t1 = t1
    t2 = t2
    m1 = m1
    m2 = m2
    Tiles <- MCTiles
    Temps <- MCTemps
    Order <- MCOrder
    Bytes = {1, 2}
    MaxBytes = 2
    MaxWrites = 2
    MaxStuck = 1
INVARIANTS TypesOK PhotosKept LimitsKept
SYMMETRY MCSymmetry
CHECK_DEADLOCK FALSE

SPECIFICATION PagesSpec
CONSTANTS
    None = None
    Keys = {k1, k2, k3}
    Slots = {s1, s2}
    MaxActive = 2
    MaxLoads = 2
    Ranges = {7, 30, 90}
    MaxOpen = 2
    Asks = {"ap", "cs"}
    Matches <- MCMatches
    Toggles <- MCToggles
    MaxHeadings = 2
    MaxCopies = 2
INVARIANTS TypesOK LimitsRight ShownRight
SYMMETRY MCSymmetry
CHECK_DEADLOCK FALSE

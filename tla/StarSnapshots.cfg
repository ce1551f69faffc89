SPECIFICATION Spec
CONSTANTS
    Repos = {r1, r2, r3, r4}
    PageSize = 1
    MaxPages = 3
    MaxUnstars = 2
    NoSnapshot = NoSnapshot
SYMMETRY Interchangeable
INVARIANTS
    MissesNeedUnstars
    DeltasExplained
CHECK_DEADLOCK FALSE

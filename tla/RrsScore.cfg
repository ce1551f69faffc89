SPECIFICATION Spec
CONSTANT
    MaxCount = 4
INVARIANTS
    NearestScore
    BadRunsProposed
PROPERTY
    WorseNeverHigher
CHECK_DEADLOCK FALSE

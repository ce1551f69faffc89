SPECIFICATION Spec
CONSTANTS
    a = a
    b = b
    c = c
    Runners = {agent, operator}
    Scheduled = {agent}
    Drafts = {a, b, c}
    Flagged <- SomeFlagged
    Reports <- WithRepeat
    MaxDrafts = 2
    UseTasks = TRUE
    MaxRuns = 3
    MaxFaults <- All
    Nobody = Nobody
    Garbled = Garbled
INVARIANTS
    TypeOK
    SeenExclusive
    SeenHasApproval
    DuplicatesNeedFaults
    ApprovalHasTask
    ScratchRemoved
    RefsResolve
PROPERTIES
    RunHandsOffAll
    SeenGrows
    RunsEnd
CHECK_DEADLOCK FALSE

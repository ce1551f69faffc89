SPECIFICATION Spec
CONSTANTS
    a = a
    b = b
    c = c
    Runners = {agent, operator}
    Scheduled = {agent}
    Drafts = {a, b, c}
    Flagged = {}
    Reports <- WithRepeat
    MaxDrafts = 2
    UseTasks = FALSE
    MaxRuns = 4
    MaxFaults <- NoFault
    Nobody = Nobody
    Garbled = Garbled
INVARIANTS
    OnlyBestQueued
    DraftsDeduplicated
PROPERTIES
    NewDraftsNotified
CHECK_DEADLOCK FALSE

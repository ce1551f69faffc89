SPECIFICATION Spec
CONSTANTS
    a = a
    b = b
    c = c
    Runners = {agent, operator}
    Scheduled = {agent}
    Drafts = {a, b}
    Flagged <- SecondFlagged
    Reports <- OneReport
    MaxDrafts = 2
    UseTasks = TRUE
    MaxRuns = 3
    MaxFaults <- NoFault
    Nobody = Nobody
    Garbled = Garbled
PROPERTIES
    NewDraftsNotified
CHECK_DEADLOCK FALSE

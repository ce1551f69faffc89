SPECIFICATION Spec
CONSTANTS
    gh = gh
    project = project
    e1 = e1
    e2 = e2
    b1 = b1
    b2 = b2
    RunIds = {r1, r2, r3}
    Claws = {gh, project}
    Refs = {e1, e2, b1, b2}
    Records <- MixedRecords
    Scores <- AllScores
    NoRun = NoRun
    Procs = {p1, p2}
    Threshold = 85
    Sensitive = {project, b2}
    Bundles = {b1, b2}
    Source <- EvaluationOfE1
    MaxCommands = 3
    MaxFaults = 1
    Nobody = Nobody
    Garbled = Garbled
INVARIANTS
    TypeOK
    ScoresFollowPolicy
    HandoffsJustified
    CitationsHold
    ReferencesHold
PROPERTIES
    CommandsEnd
    ConsiderHandsOff
CHECK_DEADLOCK FALSE

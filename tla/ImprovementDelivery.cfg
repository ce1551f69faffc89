SPECIFICATION Spec
CONSTANTS
    Coordinators = {c1, c2}
    Runs = {plain, secret, bare}
    Scores = {84, 85}
    Threshold = 85
    Unciting = {bare}
    Sensitive = {secret}
    MaxMishaps = 2
    MaxTasks = 4
    NoProposal = NoProposal
INVARIANT
    DuplicatesNeedMishaps
PROPERTIES
    ImplementsReviewDelivery
    RetriesDeliver
CHECK_DEADLOCK FALSE

SPECIFICATION Spec
CONSTANTS
    w1 = w1
    w2 = w2
    Writers = {w1, w2}
    Nobody = Nobody
    Foreign = Foreign
    NoDir = NoDir
    Digests = {g1}
    InitialPlace = d1
    Dirs = {d1}
    RelocateTo <- Anywhere
    Budgets <- OneError
INVARIANT
    AckIsDurable

SPECIFICATION Spec
CONSTANTS
    w1 = w1
    w2 = w2
    Writers = {w1, w2}
    Nobody = Nobody
    Foreign = Foreign
    NoDir = NoDir
    Digests = {g1}
    InitialPlace = "absent"
    Dirs = {d1, d2}
    RelocateTo <- Anywhere
    Budgets <- MixedMovesOrOutages
INVARIANTS
    TypeOK
    LeafNeverTorn
    OneWriterPerDigest
    NoTempLeft
PROPERTIES
    ValidLeafKept
    RelocationCleaned
    AckDurableBelowRoot
SYMMETRY Symmetric

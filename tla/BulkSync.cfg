SPECIFICATION Spec
CONSTANTS
    Products = 2
    BatchSize = 1
    Runner = {r1, r2}
    Clicks = 2
INVARIANTS
    TypeOK
    CompleteIsHonest
PROPERTY SyncEnds
CHECK_DEADLOCK FALSE

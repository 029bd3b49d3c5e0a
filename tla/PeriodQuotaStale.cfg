SPECIFICATION QuotaSpec
CONSTANTS
    Conversation = {c1, c2, c3}
    c1 = c1
    c2 = c2
    c3 = c3
    Limit = 2
    Month = 3
    None = None
    LastTick = 8
SYMMETRY QuotaSymmetry
INVARIANTS
    FreeUseIsBounded
CHECK_DEADLOCK FALSE

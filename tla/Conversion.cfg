SPECIFICATION Spec
CONSTANTS
    Conversation = {c1, c2}
    o1 = o1
    o2 = o2
    o3 = o3
    Order = {o1, o2, o3}
    Total <- MCTotal
    Report = {r1, r2, r3}
    None = None
SYMMETRY ReportSymmetry
INVARIANTS
    TypeOK
    RevenueIsHonest
    AnsweredIsRecorded
CHECK_DEADLOCK FALSE

SPECIFICATION Spec
CONSTANTS
    Sub = {s1, s2}
    s1 = s1
    s2 = s2
    Worker = {w1, w2}
    w1 = w1
    w2 = w2
    NoSub = NoSub
    Plan = {"starter", "growth", "pro"}
    Priced = {"starter", "growth"}
    Retries = 1
    MaxChanges = 3
INVARIANTS
    TypeOK
    RowFollowsStripe
    PaidIsLinked
    PeriodNotTorn
SYMMETRY BillingSymmetry
CHECK_DEADLOCK FALSE

SPECIFICATION Spec
CONSTANTS
    Product = {p1}
    Call = {c1, c2, c3}
    Text = {"old", "new"}
    Nothing = Nothing
INVARIANT DeletionTakesEffect
CHECK_DEADLOCK FALSE

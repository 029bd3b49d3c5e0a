SPECIFICATION SyncSpec
CONSTANTS
    Product = {p1}
    Call <- MCCall
    Text = {"old", "new"}
    Nothing = Nothing
    OtherCall = {c1}
    Job = {j1}
    Worker = {w1}
    MaxProducts = 2
INVARIANTS
    JobTypeOK
    JobIsHonest
    LatestCallWins
    DeletedIsNotOffered
    SoldOutIsNotOffered
PROPERTIES
    IdIsStable
    JobEnds
CHECK_DEADLOCK FALSE

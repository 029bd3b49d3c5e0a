SPECIFICATION Spec
CONSTANTS
    Tab = {t1, t2}
    t1 = t1
    t2 = t2
    Messages = 2
    NoId = NoId
INVARIANTS
    TypeOK
    PersistedIsCommitted
    NoDoubleExchange
    ShownAnswerIsStored
PROPERTY SendEnds
CHECK_DEADLOCK FALSE

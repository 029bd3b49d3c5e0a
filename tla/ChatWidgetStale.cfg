SPECIFICATION Spec
CONSTANTS
    Tab = {t1}
    Messages = 3
    NoId = NoId
INVARIANT DeadIsForgotten
CHECK_DEADLOCK FALSE

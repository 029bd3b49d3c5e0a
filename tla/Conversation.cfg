SPECIFICATION Spec
CONSTANTS
    Request = {1, 2, 3}
    Period <- MCPeriod
    Limit = 1
    Enterprise = FALSE
    Connections = 2
ACTION_CONSTRAINT BeginInOrder
INVARIANTS
    TypeOK
    ExchangesAtomic
    VerdictIsTrue
    OvershootBounded
    NeverAnswersOlder
PROPERTIES
    OnlyRetentionDeletes
    ConversationStaysUnderAppend
    ImplementsExchangeStore
    Responds
    ExpiredIsPurged
CHECK_DEADLOCK FALSE

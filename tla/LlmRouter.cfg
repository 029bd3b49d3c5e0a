SPECIFICATION Spec
CONSTANTS
    Provider <- MCProvider
    Registries <- MCRegistries
    Chains <- MCChains
    WrapsAll <- MCGoogle
    MaxDeltas = 3
INVARIANTS
    TypeOK
    OneProviderAnswer
    NoProviderPassedOver
CHECK_DEADLOCK FALSE

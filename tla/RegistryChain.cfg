CONSTANTS
    Address = {1, 2, 3}
    ActivationDelay = 1
    MaxMissedTurns = 2
    JailBlocks = 3
    Lifetime = 2
    MaxUint = 6
    LocalAccounts = {}
    BootstrapParticipants = {1, 2, 3}
    StabilizationBlock = 3
    FairnessBlock = 0
    HeartbeatWindow = 1
    HeartbeatGrace = 1
    BlockTime = 1
    FallbackWindow = 1
    RecoveryTimeout = 3
    FutureTolerance = 1
    PoolCapacity = 2
    MaxOperations = 2
    PreparedLimit = 1
    Signed <- LeaveAndReturn
    MaxNumber = 4
    MaxTime = 3
    MaxSubmitting = 0
    MaxForeign = 2
SPECIFICATION Spec
INVARIANTS
    TypeOK
    AppliedOncePerEra
    NoEarlyProducer
    PenaltyBounded
PROPERTIES
    QueuePlaceKept
    PenaltyNotExtended
CHECK_DEADLOCK FALSE

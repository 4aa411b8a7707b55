CONSTANTS
    Address = {1, 2, 3}
    ActivationDelay = 1
    MaxMissedTurns = 2
    JailBlocks = 3
    Lifetime = 2
    MaxUint = 6
    LocalAccounts = {1}
    BootstrapParticipants = {1, 2}
    StabilizationBlock = 1
    FairnessBlock = 1
    HeartbeatWindow = 1
    HeartbeatGrace = 1
    BlockTime = 1
    FallbackWindow = 1
    RecoveryTimeout = 2
    FutureTolerance = 1
    PoolCapacity = 2
    MaxOperations = 1
    PreparedLimit = 1
    Signed <- Contended
    MaxNumber = 2
    MaxTime = 2
    MaxSubmitting = 1
    MaxForeign = 1
SPECIFICATION Spec
INVARIANTS
    PoolConsistent
    PreparedBlockVerifies
CHECK_DEADLOCK FALSE

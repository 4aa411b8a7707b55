SPECIFICATION Spec
CONSTANTS
    Window = 2
    MaxParticipations = 1
    CommitteeSize = 1
    MaxOperations = 2
    MaxOperationsWithClaims = 1
    Reward = 10
    Modes = {"seats", "recovery"}
    OperationCounts = {1}
    MaxBlocks = 3
    MaxNumber = 3
    None = None
INVARIANT
    RecoveryUnsubsidised

SPECIFICATION Spec
CONSTANTS
    Window = 2
    MaxParticipations = 1
    CommitteeSize = 1
    MaxOperations = 2
    MaxOperationsWithClaims = 1
    Reward = 10
    Modes = {"seats"}
    OperationCounts = {1}
    MaxBlocks = 4
    MaxNumber = 3
    None = None
INVARIANT
    PreparationNotPoisoned

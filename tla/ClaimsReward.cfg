SPECIFICATION Spec
CONSTANTS
    Window = 2
    MaxParticipations = 2
    CommitteeSize = 2
    MaxOperations = 2
    MaxOperationsWithClaims = 1
    Reward = 15
    Modes = {"seats", "solo"}
    OperationCounts = {1}
    MaxBlocks = 3
    MaxNumber = 3
    None = None
INVARIANTS
    IssuanceBounded

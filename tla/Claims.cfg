SPECIFICATION Spec
CONSTANTS
    Window = 2
    MaxParticipations = 1
    CommitteeSize = 1
    MaxOperations = 2
    MaxOperationsWithClaims = 1
    Reward = 10
    Modes = {"seats"}
    OperationCounts = {1, 2}
    MaxBlocks = 4
    MaxNumber = 4
    None = None
INVARIANTS
    TypeOK
    ClaimedOnce
    LedgerIsHistory
    ClaimsOnBranch

    

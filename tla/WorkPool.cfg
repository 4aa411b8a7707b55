SPECIFICATION Spec
CONSTANTS
    Tickets <- MCTickets
    Peers = {p1, p2}
    EpochLength = 2
    MaxPerBlock = 1
    Capacity = 2
    Outcomes = {"stored", "put failed", "sync failed"}
    None = None
    MaxHeight = 4
    MaxDepth = 1
    MaxReorgs = 1
    MaxRestarts = 1
SYMMETRY Symmetry
INVARIANTS
    TypeOK
    JournalRestorable
    PoolDurable
    AcceptedKept
PROPERTIES
    RemovedOnlyIncluded

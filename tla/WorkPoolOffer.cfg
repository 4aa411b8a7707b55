SPECIFICATION Spec
CONSTANTS
    Tickets <- MCTickets
    Peers = {p1}
    EpochLength = 2
    MaxPerBlock = 1
    Capacity = 2
    Outcomes = {"stored"}
    None = None
    MaxHeight = 4
    MaxDepth = 1
    MaxReorgs = 0
    MaxRestarts = 0
INVARIANT CommittedNotOffered

\* Four chain epochs of two blocks; three participants with two tickets each.
CONSTANTS
    Participants = {p1, p2, p3}
    Nonces = {1, 2}
    EpochLength = 2
    MaxTicketsPerBlock = 2
    Target = 2
    InitialDifficulty = 3
    MaxHeight = 8
SPECIFICATION Spec
INVARIANTS
    TypeOK
    SeatedOnce
    AlwaysExtendable
    SelectionReady
    StateIsReplay
PROPERTIES
    RetargetBounded
\* The bound MaxHeight ends every behaviour.
CHECK_DEADLOCK FALSE

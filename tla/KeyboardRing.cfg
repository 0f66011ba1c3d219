SPECIFICATION FairSpec
CONSTANTS
    N = 3
    MaxPosts = 5
    MaxWire = 2
    Shifts = {"ls"}
    Letters = {"a"}
    Extended = {"x"}
INVARIANTS
    TypeOK
PROPERTIES
    ImplementsChannel
    InOrder
    NoLossBelowCapacity
    WaitingIsFetched

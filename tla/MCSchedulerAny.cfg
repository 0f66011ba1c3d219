SPECIFICATION Spec
CONSTANTS
    MaxPid = 4
    Body = 2
    Exits <- AnyPid
    Spawns <- AnyPid
    Yields <- AnyPid
    NULL = NULL
    KVmm = KVmm
INVARIANTS
    TypeOK
    OthersReady
    NoDangling
    ResumesWherePreempted
    OwnAddressSpace
    ListInOrder
PROPERTIES
    LeavesListOnlyByDeath
    ReapUnlinksOnlyTheDead

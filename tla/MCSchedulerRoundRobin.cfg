SPECIFICATION FairSpec
CONSTANTS
    MaxPid = 3
    Body = 2
    Exits <- Barks
    Spawns = {1}
    Yields = {}
    NULL = NULL
    KVmm = KVmm
PROPERTY
    RoundRobin

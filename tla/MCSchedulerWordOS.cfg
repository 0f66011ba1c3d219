SPECIFICATION FairSpec
CONSTANTS
    MaxPid = 4
    Body = 2
    Exits <- Barks
    Spawns = {1}
    Yields = {}
    NULL = NULL
    KVmm = KVmm
INVARIANTS
    NoContextLeak
PROPERTIES
    DeadReaped
    ListedRuns
    TerminalKeepsRunning

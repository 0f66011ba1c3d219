SPECIFICATION KSpec
CONSTANTS
    HeapUnits = 70
    Requests = {}
    Growths = {}
    Junk = Junk
    MaxAlive = 1
    CommandSizes <- ScreenColumns
INVARIANTS
    HeapSound
    HeapDoesNotGrow
CHECK_DEADLOCK FALSE

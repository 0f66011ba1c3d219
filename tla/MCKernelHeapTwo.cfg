SPECIFICATION KSpec
CONSTANTS
    HeapUnits = 70
    Requests = {}
    Growths = {}
    Junk = Junk
    MaxAlive = 2
    CommandSizes <- ScreenColumns
INVARIANTS
    HeapSound
CHECK_DEADLOCK FALSE

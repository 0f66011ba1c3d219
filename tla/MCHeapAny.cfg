SPECIFICATION Spec
CONSTANTS
    HeapUnits = 14
    Requests <- AskedBytes
    Growths <- GrownBytes
    Junk = Junk
PROPERTIES
    KallocKeepsSound
    WellLinkedIsSafe
CHECK_DEADLOCK FALSE

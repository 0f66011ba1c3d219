CONSTANTS
    Kernel = kernel_vmm
    Process = process_vmm
    Slots = 8
    Low = 2
    High = 6
    MaxLength = 2
    Null = NULL
SPECIFICATION Spec
INVARIANTS
    NothingLost
    OneNodeWithoutFrees
PROPERTIES
    InsertKeepsRedBlack
    BestFit
CHECK_DEADLOCK FALSE

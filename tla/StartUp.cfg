SPECIFICATION Spec
CONSTANTS
    Samples = 3
    HeapPages = 2
    Half = 7
    CodeEnd = 12
    LastBus = 2
    Devices = 2
INVARIANTS
    PagesKept
    FramesGivenOnce
    HandlerHasPort
    CommandCarriedOut
    UsableUnlessDisturbed
PROPERTIES
    ShortSamplesFirst
    StartUpEnds
CHECK_DEADLOCK FALSE

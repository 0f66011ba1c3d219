SPECIFICATION Spec
CONSTANTS
    LastFrame = 26
    num_frames = 15
    BootFrames = 2
    NodesLeft = {9}
    Ents = 4
    Low = 1
    MaxPid = 4
    KVmm = KVmm
    None = None
    Zero = Zero
    Junk = Junk
INVARIANT
    DirectoriesMapThemselves
CHECK_DEADLOCK FALSE

SPECIFICATION Spec
CONSTANTS
    PacingInterval = 2
    MaxPerBatch = 1
    Kinds = {"video", "audio"}
    SeqMod = 4
    MaxMissing = 1
    BufferTicks = 1
    MaxFrames = 2
    MaxPackets = 5
    MaxArrivals = 3
    MaxAside = 1
    PerFrame = 2
INVARIANTS
    WindowBounded
    AllAccounted
    OrderedUnlessLate
    LossReported
CHECK_DEADLOCK FALSE

\* Two casters serve the same mountpoint; the bridge needs not run, and the
\* decoder ends.
SPECIFICATION FairSpec
CHECK_DEADLOCK FALSE
CONSTANTS
    Sources = 3
    ThroughputEvery = 2
    ChunkSizes = {1, 2}
    MaxBytes = 2
    MaxFrames = 1
    Subject <- MCSubject
    Mountpoint = "A"
    Watched = 2
INVARIANTS
    Inv
    CleanExit
    ReportWithinBounds
PROPERTIES
    FifoSpec
    SignalEnds

\* Three mountpoints and two signals.
SPECIFICATION FairSpec
CONSTANTS
    Mountpoints = 3
    MaxSignals = 2
INVARIANTS
    Inv
    Lifetimes
PROPERTIES
    Ends

\* Every stream of up to three pieces, pushed in every way.
SPECIFICATION FairSpec
CONSTANTS
    Wires <- MCWires
    Crc <- MCCrc
    MaxBuffer = 1029
    MaxPieces = 3
INVARIANTS
    TypeOK
    FramesExact
    CountersExact
    CrcIsRemainder
PROPERTIES
    PushReturns

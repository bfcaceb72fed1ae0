\* Every interleaving of the three threads over at most MaxTotal bytes, with a
\* queue limit that one large message exceeds by itself.
SPECIFICATION FairSpec
CONSTANTS
    Sizes = {0, 1, 3}
    MaxQueueBytes = 2
    MinDelay = 1
    MaxDelay = 3
    MaxTotal = 4
INVARIANTS
    TypeOK
    QueueSound
    StreamSound
    NoLostWakeup
PROPERTIES
    BackoffNeverShrinks
    FifoSpec
    LifeSpec
    StopCompletes
    QueueDrains

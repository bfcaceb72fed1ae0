\* Two logging threads, the worker and the destructor.  No symmetry: it would
\* not be sound for the liveness properties.
SPECIFICATION FairSpec
CONSTANTS
    Producers = {p1, p2}
    MaxEntries = 5
INVARIANTS
    Inv
    ExactlyOnceInOrder
    FlushedBeforeExit
PROPERTIES
    DestructorReturns

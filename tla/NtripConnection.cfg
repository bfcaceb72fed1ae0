\* On a loop that runs ready handlers before any timer can expire, and on a
\* late one.
SPECIFICATION FairSpec
CONSTANTS
    HeaderLen = 2
    MaxBytes = 4
    MaxRead = 3
    MaxAttempts = 4
    Loops = {FALSE, TRUE}
    MinDelay = 1
    MaxDelay = 6
INVARIANTS
    Inv
    CleanStream
PROPERTIES
    AttemptsWait
    TriesAgain

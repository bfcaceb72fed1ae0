\* Everything except the back-off; the loop is prompt.
SPECIFICATION FairSpec
CONSTANTS
    HeaderLen = 2
    MaxBytes = 4
    MaxRead = 2
    MaxAttempts = 3
    Loops = {FALSE}
    MaxDelay = 3
    MaxCredentials = 5
INVARIANTS
    Inv
    CleanUntilRejected
    CredentialsEncoded
PROPERTIES
    TriesAgain

\* The back-off that the comment of reconnect() announces.
SPECIFICATION Spec
CONSTANTS
    HeaderLen = 2
    MaxBytes = 4
    MaxRead = 2
    MaxAttempts = 3
    Loops = {FALSE}
    MaxDelay = 30
    MaxCredentials = 0
PROPERTIES
    AttemptsWait

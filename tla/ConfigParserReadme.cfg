\* The example of the README, line by line.
SPECIFICATION ReadmeSpec
CONSTANTS
    Lines <- MCLines
    MaxLines = 20
INVARIANTS
    ReadmeAccepted
CHECK_DEADLOCK FALSE

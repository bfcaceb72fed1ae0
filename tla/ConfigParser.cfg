\* Every file of up to seven lines, for both programs.
SPECIFICATION ParserSpec
CONSTANTS
    Lines <- MCLines
    MaxLines = 7
INVARIANTS
    AsWritten
    AcceptedIsUsable
\* The parser stops at the end of the file or at the first bad line.
CHECK_DEADLOCK FALSE

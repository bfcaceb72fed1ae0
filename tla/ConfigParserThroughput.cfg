\* The unit of throughput_log_kb.
SPECIFICATION ParserSpec
CONSTANTS
    Lines <- ThroughputLines
    MaxLines = 5
INVARIANTS
    ThroughputAsConfigured
CHECK_DEADLOCK FALSE

\* Every kind of message, whole and cut off.
SPECIFICATION Spec
CONSTANTS
    Payloads <- MCPayloads
INVARIANTS
    TypeOK
    ErrorIffTruncated
    ReportExact
    NamedIffParsed

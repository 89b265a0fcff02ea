CONSTANTS
    Keys <- KeysMixed
    UpperOf <- MCUpperOf
    Escaped <- NoEscaped
    MaxMembers = 2
SPECIFICATION Spec
INVARIANTS
    TypeOK
    ParsedFollowsContract
    ReportFromParsed

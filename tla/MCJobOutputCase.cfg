CONSTANTS
    Keys <- KeysCase
    UpperOf <- MCUpperOf
    Escaped <- NoEscaped
    MaxMembers = 2
SPECIFICATION Spec
INVARIANT
    ReportKeepsEveryEntry

CONSTANTS
    Keys <- KeysEscaped
    UpperOf <- MCUpperOf
    Escaped <- EscapedOne
    MaxMembers = 2
SPECIFICATION Spec
INVARIANT
    ParseFailsOnlyOnMalformed

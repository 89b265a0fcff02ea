CONSTANTS
    CloneRetries = 3
    LoginRetries = 4
SPECIFICATION Spec
INVARIANT TypeOK
INVARIANT CleanupAfterClone
PROPERTY BuildTerminates

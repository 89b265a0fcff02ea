CONSTANTS
    n1 = n1
    n2 = n2
    Nodes <- MCNodes
    MaxOps = 3
    ClassPollLimit = 3
    PodWaitRetries = 2
    ExpectedPods = 2
SYMMETRY MCSymmetry
SPECIFICATION Spec
INVARIANT PausedAfterPause

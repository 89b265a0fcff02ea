CONSTANTS
    p1 = p1
    p2 = p2
    p3 = p3
    jOther = jOther
    jSelf = jSelf
    NoPod = NoPod
    Pods <- MCPods
    MaxNbRestart = 2
    BackoffLimit = 2
    JobMaxDuration = 20
    Jobs <- MCJobs
    ThisJob = jSelf
    LifecycleJobs <- MCLifecycleJobsOtherFirst
SPECIFICATION Spec
SYMMETRY MCSymmetry
INVARIANTS
    TypeOK
    NoDuplicateOutput
    FailureAfterFullBudget

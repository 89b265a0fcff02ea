SPECIFICATION Spec
INVARIANT OutcomeOnSuccess
INVARIANT ForceResultPropagated

SPECIFICATION Spec
INVARIANT ScheduleRemovedWhenNotInstalled

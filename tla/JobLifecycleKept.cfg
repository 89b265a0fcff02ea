SPECIFICATION Spec
INVARIANT ScheduleKeptWhenInstalled

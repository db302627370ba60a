SPECIFICATION ShutdownSpec
CONSTANTS
    None = None
    MaxItems = 2
INVARIANT RunningPlanFinishes
CHECK_DEADLOCK FALSE

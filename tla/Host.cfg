SPECIFICATION FairSpec
CONSTANTS
    MaxPlans = 2
    MaxPauses = 2
    DeviceCalls = TRUE
    None = None
INVARIANTS
    PlanNotRefused
    OutcomeWithIdle
PROPERTIES
    PlanAnswered
CHECK_DEADLOCK FALSE

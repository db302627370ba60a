\* The database always answers, threads are fair; the process may die once.
SPECIFICATION FairSpec
CONSTANTS
    Items = {i1, i2}
    Exits = {"success", "abort", "fail"}
    RequireSynced = FALSE
    MaxOutages = 0
    MaxRestarts = 1
    None = None
PROPERTIES
    ImplementsContract
    StopHonoured
    EveryRunIsRecorded
    AutostartTakesItems
CHECK_DEADLOCK FALSE

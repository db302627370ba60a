SPECIFICATION FairMonitorSpec
CONSTANTS
    Items = {i1}
    Exits = {"success", "fail"}
    RequireSynced = FALSE
    MaxOutages = 0
    MaxRestarts = 0
    None = None
INVARIANTS
    AnnouncedIsShown
PROPERTIES
    IdleIsTrue
    EndedItemGoes
CHECK_DEADLOCK FALSE

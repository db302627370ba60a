\* The database goes down and comes back between any two steps, the experiment
\* comes and goes, the process may die.
SPECIFICATION Spec
CONSTANTS
    Items = {i1, i2}
    Exits = {"success", "fail"}
    RequireSynced = TRUE
    MaxOutages = 2
    MaxRestarts = 1
    None = None
SYMMETRY ItemSymmetry
INVARIANTS
    HandedOutOnce
    RunsOnlyWhenAuthorised
    StopTakesEffect
    HistoryIsTheRunOrder
CHECK_DEADLOCK FALSE

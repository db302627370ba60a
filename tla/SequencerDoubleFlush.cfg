SPECIFICATION Spec
CONSTANTS
    Items = {i1, i2, i3}
    Exits = {"success", "fail"}
    RequireSynced = FALSE
    MaxOutages = 2
    MaxRestarts = 0
    None = None
SYMMETRY ItemSymmetry
INVARIANT OutcomeNotLost
CHECK_DEADLOCK FALSE

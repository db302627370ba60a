SPECIFICATION QsctlSpec
CONSTANTS
    None = None
    MaxTries = 2
    MaxChanges = 2
INVARIANT OkMeansDone
CHECK_DEADLOCK FALSE

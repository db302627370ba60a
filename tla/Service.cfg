SPECIFICATION MCSpec
CONSTANTS
    None = None
    MaxLines = 2
    MaxItems = 2
    Exceptions = {e1, e2, e3}
    MaxPublished = 3
    MaxWaiting = 2
    MaxTries = 2
    MaxChanges = 2
INVARIANTS
    ServesOnlyWhenBuilt
    LoadsAsIPythonDoes
    OffersWhatIsThere
    OnlyLongPlansAreCut
    CauseAndLineAreNamed
    BothAnswerAlike
    ProgressArrivesInOrder
    RepeatedOnlyInDoubt
PROPERTIES
    StartEnds
    StopEnds
    LeavesNoTrace
CHECK_DEADLOCK FALSE

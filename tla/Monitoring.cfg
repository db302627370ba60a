SPECIFICATION MCSpec
CONSTANTS
    Writers = {w1, w2}
    MaxFeeds = 2
    MaxMessages = 2
    MaxQueue = 1
    Statuses = {s1, s2}
    None = None
    StallAfter = 2
    MaxClock = 6
    MaxEvents = 2
SYMMETRY MCSymmetry
INVARIANTS
    NothingLostOrDoubled
    LinesOfATextInOrder
    NewestIsSent
    QuietPlanIsReported
    OneWarningPerQuiet
PROPERTY DoneStaysDone
CHECK_DEADLOCK FALSE

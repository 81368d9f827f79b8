\* Nothing is copied, only a hang-up or its answer may be lost.
SPECIFICATION FairSpec
CONSTANTS
    MayLose <- HangUp
    MayCopy = {}
    OldCopies = FALSE
    DueTimers = {}
    MaxLegs = 2
PROPERTIES CallerEndsForBoth AnswerConnects NobodyTalksAlone
CHECK_DEADLOCK FALSE

\* Any message may be copied or late, and the phone may ring twice.
SPECIFICATION Spec
CONSTANTS
    MayLose = {}
    MayCopy <- AnyMessage
    OldCopies = TRUE
    DueTimers = {"B", "F", "H"}
    MaxLegs = 2
INVARIANTS ReceiverDiesOnlyByStrays MuteSessionExplained
PROPERTIES Promise
CHECK_DEADLOCK FALSE

\* Two calls that are challenged, beside each other.
SPECIFICATION Spec
CONSTANTS
    Calls = {c1, c2}
    CodecCalls = {c1}
    RacingCalls = {}
    AppThreads = {u1}
    Codes = {180, 200, 407, 486}
    DueTimers = {}
    MaxAttempts = 2
    HasPassword = TRUE
    None = None
INVARIANTS
    ClosedCallNotForgotten
    ByeFollowsFinal
    ChallengeIsAnswered
    SessionOfEndedCallHasReason
CHECK_DEADLOCK FALSE

\* One call whose timer tasks may overtake the responses.
SPECIFICATION FairSpec
CONSTANTS
    Calls = {c1}
    CodecCalls = {c1}
    RacingCalls = {c1}
    AppThreads = {u1}
    Codes = {180, 200, 486}
    DueTimers = {"A", "B", "D"}
    MaxAttempts = 1
    HasPassword = TRUE
    None = None
INVARIANTS
    ReceiverDiesOnlyAfterRevival
PROPERTIES
    RetransmissionsEnd
    ClosedCallEnds
CHECK_DEADLOCK FALSE

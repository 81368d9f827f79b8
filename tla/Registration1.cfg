\* Three REGISTER requests and their refresh timers, every kind of answer.
SPECIFICATION Spec
CONSTANTS
    Timers = {"r1", "r2", "r3"}
    Codes = {"ok", "okNoContact", "okShort", "challenge", "basic", "nat", "refused"}
    HasPassword = TRUE
    MaxRequests = 3
    None = "none"
INVARIANTS
    ChallengedHasReason
    UnregisterSticks
    RegisteredIsRefreshed
PROPERTIES
    RegisterIsAnswered
CHECK_DEADLOCK FALSE

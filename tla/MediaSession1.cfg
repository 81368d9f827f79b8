\* One application thread beside the receiver thread: two sessions, two
\* sockets, two calls of stopSession, receives that may fail.
SPECIFICATION Spec
CONSTANTS
    Sockets = {k1, k2}
    Sessions = {s1, s2}
    AppThreads = {u1}
    ReadFails = TRUE
    MaxStops = 2
    None = None
INVARIANTS
    ThreadsDieOnlyInARace
    CaptureStops
    NoSocketLeaks
PROPERTIES
    StopReturns
CHECK_DEADLOCK FALSE

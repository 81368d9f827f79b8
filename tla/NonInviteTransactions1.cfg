\* One request served by this program, whose tasks may run late, and one that
\* a peer of another make serves.
SPECIFICATION Spec
CONSTANTS
    Requests = {bye, reg}
    OwnPeers = {bye}
    RacingRequests = {bye}
    Codes = {100, 200, 405}
    MaxRetrans <- RetransOfRacing
    MaxReports = 2
    None = None
INVARIANTS ActiveHasDeadline OutcomesAgree
PROPERTIES Promise
CHECK_DEADLOCK FALSE

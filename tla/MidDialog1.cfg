\* One call that the agent makes or receives, a second one beside it.
SPECIFICATION FairSpec
CONSTANTS
    Calls = {"c1", "c2"}
    Incoming = {"c1"}
    Made = {"c1", "c2"}
    Talkers = {"c1"}
    Reordered = {"c1"}
    LateOffers = {"c1"}
    MayCopy = {"ACK", "OPTIONS", "INVITE", "BYE"}
    MaxCSeq = 3
INVARIANTS SilentAfterBye ReceiverDiesExplained SessionFollowsAnswer
PROPERTIES ReinviteTakesEffect
CHECK_DEADLOCK FALSE

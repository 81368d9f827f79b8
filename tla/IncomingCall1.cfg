\* One call: copies of the INVITE and of the ACK, a peer that may be impatient.
SPECIFICATION FairSpec
CONSTANTS
    Calls = {c1}
    CodecCalls = {c1}
    MuteCalls = {c1}
    ImpatientCalls = {c1}
    LossyCalls = {c1}
    AppThreads = {u1}
    None = None
    MaxTasks = 2
INVARIANTS
    AnsweredCallLeavesEarly
    EstablishedCallIsReal
    ReceiverDiesOnlyInARace
    RingingCallIsInTheTables
PROPERTIES
    DialogRevivedOnlyByCrossedCancel
    AnsweredCallGetsFinal
CHECK_DEADLOCK FALSE

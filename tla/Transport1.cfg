\* One peer, two threads that send, one of them also after the closing.
SPECIFICATION FairSpec
CONSTANTS
    Threads = {t1, t2}
    LateThreads = {t1}
    Peers = {p1}
    MaxJobs = 3
INVARIANTS OneThreadHears CloseIsFinal
PROPERTIES ReceiversEnd
CHECK_DEADLOCK FALSE

\* A keep-alive from the second peer.
CONSTANTS
  Threads = {t1}
  LateThreads = {}
  Peers = {p1, p2}
  MaxJobs = 3
SPECIFICATION Spec
INVARIANTS EchoGoesBack
CHECK_DEADLOCK FALSE

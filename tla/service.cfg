CONSTANTS
  Pids = {p1, p2, p3}
  None = None
  MaxFaults = 2
SPECIFICATION FairSpec
INVARIANTS FilesNameTheNode StopReachesNode
PROPERTIES NodeComesBack
CHECK_DEADLOCK FALSE

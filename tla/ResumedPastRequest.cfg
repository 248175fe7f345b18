CONSTANTS
  Worker = {w1, w2}
  Run = {r1}
  NoRun = NoRun
  Second = 2
  MaxRequests = 3
  MaxApprovals = 2
  MaxFaults = 0
SPECIFICATION Spec
INVARIANTS RunningImpliesCleared
CHECK_DEADLOCK FALSE

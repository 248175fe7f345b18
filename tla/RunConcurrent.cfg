CONSTANTS
  Worker = {w1, w2}
  Run = {r1}
  NoRun = NoRun
  Second = 2
  MaxRequests = 4
  MaxApprovals = 3
  MaxFaults = 1
SPECIFICATION Spec
SYMMETRY WorkerSymmetry
INVARIANTS TypeOK TrailBacked TrailOrdered GapAccounted ReplayMatches
PROPERTIES CanceledSettled GateHolds DecisionSettled RequestSettled ImplementsRunFeed
\* The bound on requests ends every behaviour.
CHECK_DEADLOCK FALSE

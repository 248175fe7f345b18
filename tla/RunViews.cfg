CONSTANTS
  Worker = {w1}
  Run = {r1}
  NoRun = NoRun
  Second = 4
  MaxRequests = 5
  MaxApprovals = 2
  MaxFaults = 1
SPECIFICATION ViewSpec
INVARIANTS ViewEvidenced ControlsAccepted
PROPERTIES ImplementsRunPolicy EventuallyEvidenced
\* The bound on requests ends every behaviour.
CHECK_DEADLOCK FALSE

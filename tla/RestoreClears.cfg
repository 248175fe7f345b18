CONSTANTS
  Operations = {}
  MaxSessions = 1
  MaxCalls = 2
  MaxOut = 2
  MaxFaults = 0
  MaxReloads = 1
SPECIFICATION Spec
PROPERTIES SessionRestored
\* The bounds on requests and sign-ins end every behaviour.
CHECK_DEADLOCK FALSE

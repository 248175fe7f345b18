CONSTANTS
  Workers = {w1, w2}
  Names = {ann}
  MaxSessions = 2
  MaxWork = 1
  MaxFaults = 1
SPECIFICATION Spec
SYMMETRY IdentitySymmetry
INVARIANTS OneTenant UsernamesUnique SignInsRecorded
PROPERTIES RevokedDrains BootstrapDrains
\* The bound on sessions ends behaviours.
CHECK_DEADLOCK FALSE

CONSTANTS
  Workers = {w1, w2}
  Names = {ann, bob}
  MaxSessions = 1
  MaxWork = 1
  MaxFaults = 0
SPECIFICATION Spec
PROPERTIES AdminOnlyAfterFirst
\* The bound on sessions ends behaviours.
CHECK_DEADLOCK FALSE

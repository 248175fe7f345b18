CONSTANTS
  Caller = {c1, c2, c3}
  Op = {o1, o2}
  Tool = {t1, t2}
  Malformed = {2}
  MaxRequests = 5
  MaxFaults = 2
SPECIFICATION Spec
SYMMETRY ToolSymmetry
INVARIANTS TypeOK AnswersAgree RerunOnlyOverlapping EffectsAccounted
\* The bound on requests ends every behaviour.
CHECK_DEADLOCK FALSE

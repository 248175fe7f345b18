CONSTANTS
  Thread = {t1, t2, t3}
  Limit = 2
  Window = 3
  MaxLag = 2
  MaxTime = 8
  MaxCalls = 6
SPECIFICATION Spec
SYMMETRY ThreadSymmetry
INVARIANTS LimitWithinLag
PROPERTIES RefusalJustified
\* The bounds on the clock and the calls end every behaviour.
CHECK_DEADLOCK FALSE

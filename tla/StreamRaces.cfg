CONSTANTS
  Writer = {w1, w2}
  Limit = 2
  MaxEvents = 5
  MaxConnects = 2
  Second = 3
SPECIFICATION FairSpec
INVARIANTS TypeOK DeliveredInOrder LossAccounted
PROPERTIES EventuallyDelivered
\* The bound on rows and connections ends every behaviour.
CHECK_DEADLOCK FALSE

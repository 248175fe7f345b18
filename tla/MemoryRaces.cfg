CONSTANTS
  Writer = {w1, w2, w3}
  Key = {k1, k2}
  MaxStores = 5
  MaxFaults = 1
  Second = 3
SPECIFICATION Spec
SYMMETRY Symmetry
INVARIANTS IdentityKept NeverRevived ListedNewestFirst
\* The bound on upserts ends every behaviour.
CHECK_DEADLOCK FALSE

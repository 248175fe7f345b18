CONSTANTS
  Runs = {r1, r2}
  NoRun = NoRun
  QueueLimit = 1
  MaxChanges = 1
  MaxChoices = 3
  MaxLists = 2
  MaxFaults = 1
SPECIFICATION Spec
INVARIANTS ChosenIsShown CatchesUp QueueCatchesUp
\* The bounds on changes and choices end every behaviour.
CHECK_DEADLOCK FALSE

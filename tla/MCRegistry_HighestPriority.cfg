SPECIFICATION Spec
CONSTANTS
  NumPools = 3
  Providers = {1, 2}
  Models = {m1}
  FirstConfig <- MCFirstConfig
  Edited <- MCEdited
  Day = 1
  MaxTime = 3
  NoRow = NoRow
  NotSynced = NotSynced
CHECK_DEADLOCK FALSE
INVARIANTS
  HighestPrioritySelected

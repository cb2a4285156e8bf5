SPECIFICATION Spec
CONSTANTS
  NF = {n1}
  MaxTasks = 1
  MaxStarts = 2
  MaxLives = 3
  MaxFaults = 1
CHECK_DEADLOCK FALSE
INVARIANTS AllDeregistered

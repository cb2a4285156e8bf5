SPECIFICATION Spec
CONSTANTS
  NF = {n1, n2}
  MaxTasks = 2
  MaxStarts = 2
  MaxLives = 2
  MaxFaults = 1
CHECK_DEADLOCK FALSE
SYMMETRY Symmetry
INVARIANTS CountCovers AnsweredStored UriListed

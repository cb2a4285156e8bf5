SPECIFICATION FairSpec
CONSTANTS
  NF = {n1}
  MaxTasks = 2
  MaxStarts = 2
  MaxLives = 2
  MaxFaults = 1
CHECK_DEADLOCK FALSE
PROPERTIES RegistrationEnds

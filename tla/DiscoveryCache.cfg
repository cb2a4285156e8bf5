SPECIFICATION FairSpec
CONSTANTS
  Caller = {c1, c2}
  Instance = {n1, n2}
  TTL = 2
  Delay = 2
  MaxChanges = 3
  MaxErrors = 1
INVARIANTS StaleBound FoundInTime
PROPERTIES RetryEnds

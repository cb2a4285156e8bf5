SPECIFICATION Spec
CONSTANTS
  Caller = {c1, c2}
  Instance = {n1, n2}
  TTL = 2
  Delay = 1
  MaxChanges = 3
  MaxErrors = 1
INVARIANTS EmptyAskedAgain

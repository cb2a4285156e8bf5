CONSTANTS
    Attempt = {a1, a2}
    SqnMod = 6
    Ind = 0
    MaxStarts = 3
    FirstMs = {4}
    None = None
SPECIFICATION FairSpec
INVARIANTS KeyOfOwnVector RejectedOnlyIfOverlapped
CHECK_DEADLOCK FALSE
PROPERTY AttemptEnds

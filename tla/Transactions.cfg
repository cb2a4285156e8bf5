CONSTANTS
    T = 3
    N = 2
    Delay = 2
    PeerSeq = {7}
    MaxTx = 1
    TrCap = 1
SPECIFICATION FairSpec
INVARIANTS AtMostOnce OneTimerEach EndsOnce GivenUpLast
PROPERTY TransactionsEnd

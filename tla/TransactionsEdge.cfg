CONSTANTS
    T = 1
    N = 255
    Delay = 0
    PeerSeq = {7}
    MaxTx = 0
    TrCap = 1
SPECIFICATION Spec
INVARIANT AtMostOnce

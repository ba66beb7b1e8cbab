SPECIFICATION FairSpec
CONSTANTS
    Conn = {c1, c2}
    None = None
    SndBuf = 1
    MaxReset = 1
    MaxIn = 1
    Sizes = {2}
    MaxOut = 4
    MaxPost = 1
    MaxTick = 1
INVARIANTS
    ArrayIndexed SentInOrder EndsOnce AbortsOnlyOnReset
PROPERTIES
    ClosedPeerIsDeleted

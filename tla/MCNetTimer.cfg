SPECIFICATION Spec
CONSTANTS
    Conn = {c1, c2}
    None = None
    SndBuf = 1
    MaxIn = 0
    Sizes = {1}
    MaxReset = 0
    MaxOut = 0
    MaxPost = 0
    MaxTick = 1
INVARIANT
    DestroyedIsLast

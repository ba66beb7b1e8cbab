SPECIFICATION Spec
CONSTANTS
    Bg = {b1}
    Conn = {c1, c2}
    Id = {i1, i2}
    sMaxTeamNum = 1
    sMaxIFlowerNum = 0
    maxJoinTimes = 1
    NoId = NoId
    MaxEnter = 3
    MaxPlant = 0
INVARIANTS JoinLimit

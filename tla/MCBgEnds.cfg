SPECIFICATION FairSpec
CONSTANTS
    Bg = {b1}
    Conn = {c1, c2}
    Id = {i1, i2}
    sMaxTeamNum = 2
    sMaxIFlowerNum = 0
    maxJoinTimes = 1
    NoId = NoId
    MaxEnter = 2
    MaxPlant = 1
INVARIANTS FreshStart
PROPERTIES BattlesEnd

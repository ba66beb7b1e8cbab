SPECIFICATION Spec
CONSTANTS
    Bg = {b1, b2}
    Conn = {c1, c2}
    Id = {i1, i2}
    sMaxTeamNum = 5
    sMaxIFlowerNum = 5
    maxJoinTimes = 5
    NoId = NoId
    MaxEnter = 3
    MaxPlant = 2
SYMMETRY Symmetry
INVARIANTS FlowerIdsUnique

SPECIFICATION PartsSpec
CONSTANTS
    Bg = {b1, b2}
    Conn = {c1, c2}
    Id = {i1, i2}
    sMaxTeamNum = 1
    sMaxIFlowerNum = 0
    maxJoinTimes = 1
    NoId = NoId
    MaxEnter = 3
    MaxPlant = 0
    BaseCapacity <- Rooms
    ListCapacity <- ListRooms
    MaxBaseId = 3
    Contents <- TableContents
    Viewer = {v1}
    Uid = {u1, u2, u3}
    LongName = {u3}
    InitBossHp = 4
    AwardMin = 2
    MaxTopNum = 2
    Blow = {1, 3}
    MaxBlows = 3
    CfgBlock <- Blocks
    CfgName <- Names
    CfgValue = {"yes", "3306"}
    HashWidth = 65536
    MaxTokens = 7
    Process = {r1, r2}
    CommandLine <- CommandLines
    MaxPid = 3
    LogKind = {"normal", "recover"}
    MaxLines = 2
    MaxLogged = 4
    MaxSeconds = 1
    MaxStarts = 2
SYMMETRY Symmetry
INVARIANTS
    TeamsCounted
    SceneIsBattle
    SettledRight
    BasesAreFound
    PrizesRight
    
    StartsInOrder
    LinesAreKept
PROPERTIES
    Promise
CHECK_DEADLOCK FALSE

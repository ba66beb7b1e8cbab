SPECIFICATION Spec
CONSTANTS
    NW = 2
    NT = 1
    Uid = {1}
    Table = {"pet"}
    ParseTable = {"pet"}
    Conn = {"c"}
    ConId = {0}
    MaxCmd = 3
    MaxPing = 0
    MaxFault = 1
    MaxCrash = 1
    Requests <- MCSetRead
INVARIANTS
    TypeOK
    NoStaleRead
PROPERTIES
    SameLaneInOrder

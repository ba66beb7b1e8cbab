SPECIFICATION FairSpec
CONSTANTS
    NW = 2
    NT = 2
    Uid = {1}
    Table = {"pet"}
    ParseTable = {}
    Conn = {"c"}
    ConId = {0}
    MaxCmd = 2
    MaxPing = 1
    MaxFault = 1
    MaxCrash = 0
    Requests <- MCSet
INVARIANTS
    GracefulStopDrains
PROPERTIES
    StopTerminates
    Promise

SPECIFICATION FairSrvSpec
CONSTANTS
    NW = 2
    NT = 1
    Uid = {1}
    Table = {"pet"}
    ParseTable = {"pet"}
    Conn = {c1, c2, c3}
    ConIdLimit = 2
    ConId <- MCConId
    NoCon = NoCon
    NoId = NoId
    Requests <- MCRequests
    MaxCmd = 2
    MaxPing = 0
    MaxFault = 0
    MaxCrash = 1
INVARIANTS RepliesReachTheAsker
PROPERTIES EveryRequestAnswered

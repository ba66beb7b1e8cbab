SPECIFICATION FairSpec
CONSTANTS
    InitRetryDelay = 1
    MaxRetryDelay = 3
    SlowHandlers = FALSE
    MaxFaults = 2
    MaxFlips = 4
    MaxCloses = 2
    Timer = {t1, t2}
    Other = {o}
    Loop = loop
    MaxDelay = 2
    ChunkSize = 2
    Chunk = {m1, m2, m3, m4}
    MaxWrites = 4
    Putter = {q1, q2}
    Starter = q1
    Taker = w1
    MaxPuts = 2
    MaxWakes = 1
    Trans = {x1, x2}
    Bind = {b1}
    Query = {query1}
    SyncConns = 1
    AsyncThreads = 2
    MaxLost = 1
    MaxRefused = 2
    Peer = {p1, p2}
    IdleLimit = 1
    Second = 1
    MinLimit = 1
    MaxLimit = 2
    TimerPeriod = 1
    MaxLag = 1
    MaxTold = 1
    Codecs = {"kabu", "db"}
    CheapPrepend = 4
    InitialSize = 2
    ExtraBuf = 4
    HeaderLen <- Headers
    MinMessageLen <- MinLens
    MaxMessageLen = 3
    MaxFrames = 2
    Argument <- Arguments
    StringRoom = {2, 3}
    MaxArgs = 3
    Generated <- CompiledTypes
    Imported <- ImportedTypes
    TypeName <- TypeNames
    Body <- Bodies
    SigThread = {s1, s2}
    MaxSignals = 2
    MaxWork = 1
    MaxMsg = 3
    MaxUd = 2
    MaxRequests = 2
INVARIANTS
    OneAttempt
    TimersWatched
    PipeDelivers
    QueueHandsOver
    TransAtomic
    IdleAreClosed
    BytesIntact
    SignalsEndIt
    
PROPERTIES
    ClientReconnects
    EveryTimerRuns
    PhpServesUntilStop
CHECK_DEADLOCK FALSE

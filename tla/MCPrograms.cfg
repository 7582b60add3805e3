CONSTANTS
    FSM_AUTH_RETRY = 2
    FSM_KEEPALIVE = 1
    FSM_TIMEOUT = 3
    Strays = TRUE
    Programs = {"server", "client"}
    MaxFd = 9
    Gens = {"keygen1", "keygen2"}
    Starts = {"server", "client"}
    ConfigFiles <- MCConfigFiles
    MaxKeys = 3
    StartIp = 6
    PoolSize = 6
    LastByteMod = 8
    IpMod = 64
    Vip <- MCVip
    Sid <- MCSid
    Addr = {a1}
    Shards = {0, 1}
    ShardOf <- MCShardOf
    Obj <- MCObj
    MaxIdle = 2
    RandomIsFresh = TRUE
    ProbeIdle = 1
    DeadIdle = 2
    MaxBatch = 2
    o1 = o1
    o2 = o2
    o3 = o3
    a1 = a1
    a2 = a2
SPECIFICATION MCSpec
CHECK_DEADLOCK FALSE
INVARIANTS
    DescriptorsOwned
    ReportedKeyKept
    HoldsKeyOfFile
    ServerTypeOK
    PoolMatchesSessions
    GrantsResolve
PROPERTIES
    ClientReconnects
    SilenceNoticed
    ConnectionKept
    SignalHalts
    SilentReclaimed

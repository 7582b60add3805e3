CONSTANTS
    StartIp = 6
    PoolSize = 6
    LastByteMod = 8
    IpMod = 64
    Vip <- MCVip
    Sid <- MCSid
    Addr = {a1, a2}
    Shards = {0, 1}
    ShardOf <- MCShardOf
    Obj <- MCObj
    MaxIdle = 2
    RandomIsFresh = TRUE
    ProbeIdle = 1
    DeadIdle = 2
    MaxBatch = 3
    o1 = o1
    o2 = o2
    o3 = o3
    a1 = a1
    a2 = a2
SPECIFICATION ServerSpec
INVARIANT NoAddressLost

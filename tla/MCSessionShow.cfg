CONSTANTS
    Vip <- MCVip
    Sid <- MCSid
    Addr <- MCAddr
    Shards <- MCShards
    ShardOf <- MCShardOf
    Obj <- MCObj
    MaxIdle = 0
    RandomIsFresh = TRUE
    Half = 4
    ShardBits = 2
    WordOf <- MCWordOf
    ShardCount = 4
    MaxAdded = 5
    o1 = o1
    o2 = o2
    o3 = o3
    a1 = a1
SYMMETRY CellSymmetry
SPECIFICATION ThreadsSpec
CHECK_DEADLOCK FALSE
INVARIANT NoDanglingReference

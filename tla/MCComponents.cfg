CONSTANTS
    StartIp <- MCStartIp
    PoolSize <- MCPoolSize
    LastByteMod <- MCLastByteMod
    IpMod <- MCIpMod
    Vip <- MCVip
    Sid <- MCSid
    Addr <- MCAddr
    Shards <- MCShards
    ShardOf <- MCShardOf
    Obj <- MCObj
    MaxIdle = 0
    RandomIsFresh = TRUE
    Half = 4
    ShardBits = 2
    WordOf <- MCWordOf
    ShardCount = 4
    MaxAdded = 5
    o1 = o1
    o2 = o2
    o3 = o3
    a1 = a1
    Base = 128
    KeyWords <- MCKeyWords
    Messages <- MCMessages
    MaxWords = 9
    BUF_SIZE = 2048
    VPN_TNL_HLEN = 20
    CRYPTO_NONCE_SIZE = 24
    CRYPTO_TAG_SIZE = 16
    MaxPad = 32
    Margin = 32
    PayloadLengths <- PacketLengths
    Byte = 4
    HeaderWords <- MCHeaderWords
    Salt <- MCSalt
    Preamble <- MCPreamble
    SealNonce = 3
    SealTag = 2
    PrefixSize = 2
    ChaChaBlock = 2
    PolyBlock = 2
    Keys = {1, 2}
    Lengths = {0, 1, 2, 3, 5}
    MaxMessages = 2
SYMMETRY CellSymmetry
SPECIFICATION MCSpec
CHECK_DEADLOCK FALSE
INVARIANTS
    PoolTypeOK
    ExactAccounting
    IndexesAgree
    CountPlausible
    GeneratorExact
    RoundTrip
    TableSound
    EditorSound
    RefreshFits
    OpensInPlace
    PadsSpentOnce
    TagCorrect
PROPERTIES
    RefinesAllocator
    HintNears
    KeepsTokens
    NavigationKeepsText
    RefusesDamaged

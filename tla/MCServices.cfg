SPECIFICATION ServicesSpec
CONSTANTS
    Users = {u1}
    AccessLife = 1
    RefreshLife = 2
    IdLife = 1
    ApiLife = 4
    MaxGenerations = 2
    GenerateLimit = 1
    RefreshLimit = 2
    Window = 0
    MaxJwts = 4
    MaxJwtTime = 4
    Clients = {c1}
    Scopes = {"openid"}
    CodeLife = 1
    TokenLife = 1
    RenewLife = 1
    RotateRefresh = TRUE
    MaxCodes = 1
    MaxGrants = 4
    MaxOAuthTime = 2
    MinuteLimit = 3
    BurstLimit = 1
    MinuteSpan = 1
    BurstSpan = 0
    KeyLife = 1
    Grace = 1
    MaxKeysPerUser = 1
    HistoryCap = 2
    MaxKeys = 2
    MaxUses = 3
    MaxKeyTime = 2
    Holders = {h1, h2, h3}
    MaxSize = 2
    MinSize = 1
    MaxCreated = 5
    CacheKeys = {k1, k2}
    Ttls = {2}
    MinTtl = 1
    MemoryLimit = 1
    MaxInFlight = 2
    MaxWrites = 2
    MaxCacheTime = 3
    Calls = {c1, c2}
    Queries = {q1, q2}
    DefaultTtl = 1
    MaxEntries = 1
    MaxSlowLog = 1
    MaxDbTime = 3
    Durations = {1, 2, 3}
    Heaps = {0, 1, 2, 4}
    Percents = {50, 95}
    Retention = 4
    MinSnapshots = 3
    LeakWindow = 3
    LeakThreshold = 1000
    MaxSamples = 3
INVARIANTS
    TokenChainsSound
    PoolSound
    CachesSound
    ProfilerRight
    LeaksFound
PROPERTIES
    TokensImplementContract
    KeysSound
CHECK_DEADLOCK FALSE

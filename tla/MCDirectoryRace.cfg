SPECIFICATION DirSpec
CONSTANTS
    s1 = s1
    s2 = s2
    s3 = s3
    root = root
    a = a
    b = b
    NULL = NULL
    Servers <- MCServers
    Threads <- MCServers
    Paths <- MCPaths
    MAX_STORAGE_SERVERS = 2
    MAX_PATHS = 2
    Buckets <- MCBuckets
    Bucket <- MCBucket
    HASH_BKT_CAPACITY_THRESH = 2
    MountPaths <- MCMountPaths
    Boot <- NoBoot
    BootChains <- NoChains
INVARIANTS
    AckMeansIndexed
CHECK_DEADLOCK FALSE

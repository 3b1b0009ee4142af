SPECIFICATION NSFairSpec
CONSTANTS
    s1 = s1
    s2 = s2
    s3 = s3
    c1 = c1
    c2 = c2
    root = root
    a = a
    f = f
    b1 = b1
    b2 = b2
    f1 = f1
    f2 = f2
    NULL = NULL
    Servers <- ThreeServers
    Clients <- OneClient
    MaxRequests = 1
    Commands <- AllCommands
    Threads <- MCThreads
    Paths <- OneNewFile
    Root = root
    Dirs <- MCDirs
    Ancestors <- MCAncestors
    Backup <- MCBackup
    MAX_STORAGE_SERVERS = 3
    MAX_PATHS = 8
    Buckets <- MCBuckets
    Bucket <- MCBucket
    HASH_BKT_CAPACITY_THRESH = 10
    MountPaths <- MCMountPaths
    Boot <- TwoBooted
    BootChains <- TwoBootedChains
    MaxFaults = 2
INVARIANTS
    IndexedServersHaveSlots
    ReplicasApart
PROPERTIES
    AnsweredUnlessKnown
    ReplicasAreMade
    ImplementsCatalogue
CHECK_DEADLOCK FALSE

SPECIFICATION NSSpec
CONSTANTS
    s1 = s1
    s2 = s2
    s3 = s3
    c1 = c1
    c2 = c2
    root = root
    a = a
    f = f
    b1 = b1
    b2 = b2
    f1 = f1
    f2 = f2
    NULL = NULL
    Servers <- ThreeServers
    Clients <- TwoClients
    MaxRequests = 1
    Commands <- RacingCommands
    Threads <- MCThreads
    Paths <- OneNewFile
    Root = root
    Dirs <- MCDirs
    Ancestors <- MCAncestors
    Backup <- MCBackup
    MAX_STORAGE_SERVERS = 3
    MAX_PATHS = 9
    Buckets <- MCBuckets
    Bucket <- MCBucket
    HASH_BKT_CAPACITY_THRESH = 10
    MountPaths <- MCMountPaths
    Boot <- ThreeBooted
    BootChains <- ThreeBootedChains
    MaxFaults = 0
SYMMETRY ClientsSymmetry
INVARIANTS
    NSTypeOK
    CreateAckedLocatable
    DataIsIndexed
PROPERTIES
    ImplementsCatalogue
CHECK_DEADLOCK FALSE

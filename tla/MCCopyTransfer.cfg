SPECIFICATION FairSpec
CONSTANTS
    k1 = k1
    k2 = k2
    s1 = s1
    s2 = s2
    long = long
    brief = brief
    lost = lost
    dir1 = dir1
    dir2 = dir2
    nowhere = nowhere
    NONE = NONE
    Copies <- TwoCopies
    Jobs <- MCJobs
    Servers <- TwoServers
    Location <- MCLocation
    Indexed <- MCIndexed
    Base <- MCBase
    Listed <- MCListed
    Length <- MCLength
    Room = 1
    Descriptors = 4
    MaxFaults = 1
INVARIANTS
    TypeOK
    
    DamageNeedsSharing
    
    CopiesCleanUp
PROPERTIES
    CopyIsAnswered
CHECK_DEADLOCK FALSE

SPECIFICATION FairSpec
CONSTANTS
    r1 = r1
    r2 = r2
    p1 = p1
    p2 = p2
    Root = Root
    EMPTY = EMPTY
    NOBODY = NOBODY
    Refreshes <- TwoRefreshes
    Paths <- TwoPaths
    FirstPaths <- BothAtFirst
    Deleted <- SecondDeleted
    Volatile <- FirstVolatile
    Garbage <- MCGarbage
    MaxChanges = 2
INVARIANTS
    TypeOK
    
    LoneRefreshIsHarmless
PROPERTIES
    LoneRefreshEnds
CHECK_DEADLOCK FALSE

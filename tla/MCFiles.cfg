SPECIFICATION FairReadSpec
CONSTANTS
    w1 = w1
    w2 = w2
    rd = rd
    gs = gs
    cr = cr
    dl = dl
    dd = dd
    other = other
    x = x
    y = y
    z = z
    NONE = NONE
    FAILED = FAILED
    Requests <- AllRequests
    Op <- MCOp
    Payload <- MCPayload
    Size <- MCSize
    FirstBytes <- MCFirstBytes
    MaxCallers = 3
    MaxFaults = 1
INVARIANTS
    TypeOK
    UndisturbedWriteSurvives
    EndedWritesAreSeen
    AnsweredCreateStands
PROPERTIES
    RequestsAreServed
    
CHECK_DEADLOCK FALSE

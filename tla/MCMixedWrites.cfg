SPECIFICATION ReadSpec
CONSTANTS
    w1 = w1
    w2 = w2
    rd = rd
    gs = gs
    cr = cr
    dl = dl
    dd = dd
    other = other
    x = x
    y = y
    z = z
    NONE = NONE
    FAILED = FAILED
    Requests <- TwoWriters
    Op <- MCOp
    Payload <- MCPayload
    Size <- MCSize
    FirstBytes <- MCFirstBytes
    MaxCallers = 2
    MaxFaults = 0
INVARIANTS
    OneWriterAtATime
CHECK_DEADLOCK FALSE

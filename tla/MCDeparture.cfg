SPECIFICATION Spec
CONSTANTS
    c1 = c1
    c2 = c2
    NOBODY = NOBODY
    SERVER = SERVER
    Clients <- TwoClients
    Kinds <- AllKinds
    MaxCommands = 2
    MaxDepartures = 1
    MaxFds = 4
    Copies <- OriginalAndCopy
INVARIANTS
    NamingServerStays
CHECK_DEADLOCK FALSE

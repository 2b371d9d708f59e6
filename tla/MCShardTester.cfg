SPECIFICATION GSpec
CONSTANTS
    NoServer = NoServer
    NoEnd = NoEnd
    NoPersister = NoPersister
    Mck = Mck
    Clerks = {ck1}
    NGroups = 2
    N = 1
    NCtrlers = 1
    Servers <- ServerNames
    Ends <- EndNames
    Calls = {c1}
    MaxServers = 5
    MaxStarts = 2
INVARIANTS
    GroupAckedPersisted
PROPERTIES
    ShutdownSilences
CHECK_DEADLOCK FALSE

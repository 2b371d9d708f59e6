SPECIFICATION KSpec
CONSTANTS
    NoServer = NoServer
    NoEnd = NoEnd
    NoPersister = NoPersister
    ck1 = ck1
    Clerks = {ck1}
    Servers <- TwoServers
    Ends <- EndNames
    Calls = {c1}
    MaxServers = 3
    MaxStarts = 2
INVARIANTS
    AckedPersisted
    PartitionExact
PROPERTIES
    OldInstanceSilent
CHECK_DEADLOCK FALSE

SPECIFICATION LFairSpec
CONSTANTS
    NoServer = NoServer
    NoEnd = NoEnd
    Calls = {c1}
    Ends = {e1, e2}
    Servers = {s1}
    MaxServers = 2
PROPERTIES
    ImplementsService
    FailsForAReason
    CallReturns
    HandlersEnd
CHECK_DEADLOCK FALSE

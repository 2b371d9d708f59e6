SPECIFICATION SFairSpec
CONSTANTS
    Clerks = {c1}
    Admin = Admin
    Gids = {1, 2}
    key = 3
    NShards = 1
    NCtrlers = 2
    NServers = 2
    MaxOps = 2
    MaxFails = 1
    MaxConfigs = 2
INVARIANTS
    TwiceOnlyAfterLoss
    ConfigRenewed
PROPERTIES
    OperationExecuted
    OperationReturns
CHECK_DEADLOCK FALSE

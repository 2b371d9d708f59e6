SPECIFICATION PFairSpec
CONSTANTS
    w1 = w1
    w2 = w2
    w3 = w3
    NoID = NoID
    Workers = {w1, w2}
    WorkerID <- Distinct2
    NMap = 1
    NReduce = 1
PROPERTIES
    CoordinatorExits
CHECK_DEADLOCK FALSE

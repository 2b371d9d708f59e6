SPECIFICATION Spec
CONSTANTS
    w1 = w1
    w2 = w2
    NoID = NoID
    Workers = {w1, w2}
    WorkerID <- Distinct2
    NMap = 1
    NReduce = 1
    NChunks = 1
    MaxCrashes = 0
INVARIANTS
    FinishedOutputFinal
CHECK_DEADLOCK FALSE

SPECIFICATION PSpec
CONSTANTS
    w1 = w1
    w2 = w2
    w3 = w3
    NoID = NoID
    Workers = {w1, w2, w3}
    WorkerID <- Distinct3
    NMap = 1
    NReduce = 1
SYMMETRY Interchangeable
INVARIANTS
    SequentialRegistrationSafe
CHECK_DEADLOCK FALSE

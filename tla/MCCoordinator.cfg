SPECIFICATION CSpec
CONSTANTS
    w1 = w1
    w2 = w2
    w3 = w3
    NoID = NoID
    Workers = {w1, w2, w3}
    WorkerID <- Distinct3
    NMap = 2
    NReduce = 1
SYMMETRY Interchangeable
INVARIANTS
    PhaseMatchesTasks
    UpdateNeverSaysFinished
PROPERTIES
    TaskLifecycle
    ImplementsJob
CHECK_DEADLOCK FALSE

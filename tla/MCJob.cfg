SPECIFICATION FairSpec
CONSTANTS
    w1 = w1
    w2 = w2
    NoID = NoID
    Workers = {w1, w2}
    WorkerID <- Distinct2
    NMap = 2
    NReduce = 2
    NChunks = 2
    MaxCrashes = 1
INVARIANTS
    TypeOK
    ExclusiveTask
    HolderIsOwner
    PendingHasHolder
    ReducerReadsCompleteInput
    DoneOutputComplete
PROPERTIES
    IntermediateFrozen
    FinishesUnlessAbandoned
    JobFinishes
CHECK_DEADLOCK FALSE

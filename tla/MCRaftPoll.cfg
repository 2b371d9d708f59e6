SPECIFICATION Spec
CONSTANTS
    N = 2
    MaxTerm = 2
    MaxLog = 2
    MaxIters = 2
    MaxRounds = 2
INVARIANTS
    LeaderPollExact
    OneCommitted
    SubmittedOnce
    WaitExact
CHECK_DEADLOCK FALSE

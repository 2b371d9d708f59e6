SPECIFICATION PFairSpec
CONSTANTS
    k1 = k1
    k2 = k2
    Keys <- TwoKeys
    Histories <- SmallHistories
INVARIANTS
    VerdictRight
    ListExact
    PartialsLongest
    NoRaceOnLongest
PROPERTIES
    CheckReturns
CHECK_DEADLOCK FALSE

SPECIFICATION RSpec
CONSTANTS
    s1 = s1
    s2 = s2
    Servers = {s1, s2}
    MaxStarts = 2
    MaxIndex = 3
    MaxFaults = 1
    MaxCrashes = 1
    SnapShotInterval = 2
SYMMETRY SameServers
INVARIANTS
    NoFalseAlarm
    DisagreementCaught
    GapsCaught
    SnapshotExact
CHECK_DEADLOCK FALSE

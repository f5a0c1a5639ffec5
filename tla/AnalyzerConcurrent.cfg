\* Two requests interleaved statement by statement, either of which may fail.
CONSTANTS
    w1 = w1
    w2 = w2
    s1 = s1
    s2 = s2
    v1 = v1
    v2 = v2
    Workers = {w1, w2}
    Segments = {s1, s2}
    ScanOrder <- MCScanOrder
    Vehicles = {v1, v2}
    Scenario = {v2}
    Speeds = {10}
    Limit = 50
    Capacity = 2
    Ages = {0}
    Rulebooks <- MCRulebooks
    BootRules <- DefaultRules
    Windows = {1, 2}
    BootWindow = 1
    MaxTime = 1
    MaxFixes = 2
    MaxRequests = 3
    MaxBoots = 1
    CanFail = TRUE
    NoRow = NoRow
    NoFix = NoFix
SYMMETRY WorkerSymmetry
CONSTRAINT OneRoad
SPECIFICATION SettledSpec
INVARIANTS
    TypeOK
    NoWaitCycle
    SettledCountsAll
    SettledHasNoGhost
    SettledFollowsRules
PROPERTIES
    BoardSpec
    OwnFixCounted

\* Two requests overlap: an older computation overwrites a newer one.
CONSTANTS
    w1 = w1
    w2 = w2
    s1 = s1
    s2 = s2
    v1 = v1
    v2 = v2
    Workers = {w1, w2}
    Segments = {s1, s2}
    ScanOrder <- MCScanOrder
    Vehicles = {v1, v2}
    Scenario = {v2}
    Speeds = {10}
    Limit = 50
    Capacity = 2
    Ages = {0}
    Rulebooks <- OneRulebook
    BootRules <- DefaultRules
    Windows = {1}
    BootWindow = 1
    MaxTime = 0
    MaxFixes = 2
    MaxRequests = 2
    MaxBoots = 0
    CanFail = FALSE
    NoRow = NoRow
    NoFix = NoFix
SPECIFICATION Spec
INVARIANT EveryFixCounted

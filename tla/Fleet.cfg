\* Two callers reconfigure the fleet while it ticks, under fair threads.
CONSTANTS
    c1 = c1
    c2 = c2
    None = None
    Callers = {c1, c2}
    Counts <- MCCounts
    MaxFleet = 2
    MaxConfigs = 3
SPECIFICATION FairSpec
INVARIANTS
    TypeOK
    FleetCapped
PROPERTIES
    RetiredForGood
    FollowsTarget
    DisabledFallsSilent

\* Two requests of any kind interleaved statement by statement, with a reset,
\* and either of them may fail.
CONSTANTS
    w1 = w1
    w2 = w2
    Workers = {w1, w2}
    Numbers <- ThreeNumbers
    Scenario <- MCScenario
    Segments <- MCSegments
    Singles <- MCSingles
    Batches <- MCBatches
    Crawls <- MCCrawls
    Registered <- MCRegistered
    MaxTime = 2
    MaxRequests = 3
    MaxResets = 1
    CanFail = TRUE
    NoSegment = NoSegment
SYMMETRY WorkerSymmetry
SPECIFICATION Spec
INVARIANTS
    TypeOK
    DetailMatchesType
    PositionHasRawFix
    FixBelongsToSender
    OkMeansStored

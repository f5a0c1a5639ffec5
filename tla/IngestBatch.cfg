\* One batch of a single car, alone.
CONSTANTS
    w1 = w1
    w2 = w2
    Workers = {w1}
    Numbers <- MCNumbers
    Scenario <- MCScenario
    Segments <- MCSegments
    Singles = {}
    Batches <- CarBatches
    Crawls = {}
    Registered = {}
    MaxTime = 1
    MaxRequests = 1
    MaxResets = 0
    CanFail = FALSE
    NoSegment = NoSegment
SPECIFICATION Spec
INVARIANT ValidBatchAccepted

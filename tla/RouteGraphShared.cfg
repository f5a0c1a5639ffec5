\* Two requests that share the graph while the traffic changes.
CONSTANTS
    w1 = w1
    w2 = w2
    Workers = {w1, w2}
    Routes <- MCRoutes
    Km <- MCKm
    Legs <- MCLegs
    Traffic <- NearTies
    TTL = 1
    MaxTime = 3
    MaxRequests = 2
    None = None
SYMMETRY WorkerSymmetry
SPECIFICATION Spec
INVARIANTS TypeOK AnsweredIsStored SavedMinIsClose
PROPERTY HitsAreYoung

\* A graph replaced between the two searches of a request.
CONSTANTS
    w1 = w1
    w2 = w2
    Workers = {w1, w2}
    Routes <- MCRoutes
    Km <- MCKm
    Legs <- MCLegs
    Traffic <- FarApart
    TTL = 1
    MaxTime = 3
    MaxRequests = 2
    None = None
SYMMETRY WorkerSymmetry
SPECIFICATION Spec
INVARIANT SavedMinNotNegative

\* Every choice of weights on three networks, with and without a route.
CONSTANTS
    Nodes = {1, 2, 3, 4, 5}
    Segments <- MCSegments
    Networks <- MCNetworks
    Weights = {1, 2, 4}
    Trips <- MCTrips
SPECIFICATION FairSpec
INVARIANT VisitedAreFinal
PROPERTIES SearchSpec SearchEnds

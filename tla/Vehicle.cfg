\* Every way to drive a small network, with plans and without.
CONSTANTS
    Nodes = {1, 2, 3, 4}
    Segments = {1, 2, 3, 4, 5}
    Ends <- MCEnds
    Length <- MCLength
    MaxAdvance = 2
    MaxDwell = 3
    MaxDepth = 2
SPECIFICATION FairSpec
INVARIANTS TypeOK TripLeadsOn
PROPERTIES NoUTurn LegsAreEntered

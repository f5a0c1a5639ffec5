\* A leg entered at its end b starts at its end a.
CONSTANTS
    Nodes = {1, 2, 3, 4}
    Segments = {1, 2, 3, 4, 5}
    Ends <- MCEnds
    Length <- MCLength
    MaxAdvance = 2
    MaxDwell = 3
    MaxDepth = 2
SPECIFICATION Spec
PROPERTY LegsStartAtNode

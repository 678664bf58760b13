SPECIFICATION ClientsSpec
CONSTANTS
    p1 = p1
    p2 = p2
    o1 = o1
    o2 = o2
    Clients <- MCProcs
    Ops <- MCOps
    MaxEpoch = 3
SYMMETRY Symmetry
INVARIANTS RefusalsGenuine
PROPERTIES MarkMonotone RowsAtTheMark GuardSound

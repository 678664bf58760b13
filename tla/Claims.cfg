SPECIFICATION Spec
CONSTANTS
    x = x
    y = y
    o1 = o1
    o2 = o2
    MaxClaims = 3
    MaxEvents = 1
    Obs = {o1}
    Values = {x, y}
    Froms = {1, 2}
    MergeDemoted = FALSE
    CorrectForgotten = FALSE
    Overlap = FALSE
INVARIANTS  SupersessionEnds
PROPERTIES DemotionSticks 

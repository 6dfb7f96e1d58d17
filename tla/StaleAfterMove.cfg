CONSTANTS
    NoId = NoId
    Top = Top
    Nodes = {x, y}
    Names = {m, n}
    Workers = {w1, w2}
    Ops <- MoveRaces
    MaxCalls = 3
    MaxFaults = 0
    MaxForeign = 0
SYMMETRY Symmetry
SPECIFICATION Spec
PROPERTIES MovedOutOfReach

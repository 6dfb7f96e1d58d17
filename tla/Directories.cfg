CONSTANTS
    NoId = NoId
    Top = Top
    Nodes = {x, y, z}
    Names = {m, n}
    Workers = {w1}
    Ops <- AllOps
    MaxCalls = 3
    MaxFaults = 0
    MaxForeign = 0
SYMMETRY Symmetry
SPECIFICATION Spec
INVARIANTS CacheCurrent
PROPERTIES ActsOnPath

CONSTANTS
    None = None
    Callers = {c1, c2}
    Operations <- EveryFileOp
    MaxId = 6
    MaxBegun = 3
    MaxLost = 1
    MaxOthers = 2
    NoId = NoId
    Top = Top
    Nodes = {x, y}
    Names = {m, n}
    Files = {f, g}
    Workers = {w1}
    Ops <- Relocations
    MaxCalls = 2
    MaxFaults = 0
    MaxForeign = 1
SYMMETRY Symmetry
SPECIFICATION FilesSpec
INVARIANTS TypesOK NoStrayCopy
PROPERTIES ReplacesNamed CopyReplacesNothing DeletesExpected LandsThere

CONSTANTS
    NoId = NoId
    Top = Top
    Nodes = {x, y}
    Names = {m, n}
    Workers = {w1, w2}
    Ops <- Mixed
    MaxCalls = 2
    MaxFaults = 1
    MaxForeign = 1
SPECIFICATION FairSpec
PROPERTIES EveryCallReturns MkdirsAgree

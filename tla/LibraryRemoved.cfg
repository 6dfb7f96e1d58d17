CONSTANTS
    Libraries = {l1}
    Dirs = {d1, d2}
    Files = {f1}
    Segments = {n1, n2}
    NoId = NoId
    MaxDepth = 3
    MaxFailures = 0
    MaxOthers = 0
SPECIFICATION RootSpec
INVARIANT LibrariesStay

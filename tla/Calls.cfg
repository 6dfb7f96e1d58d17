CONSTANTS
    Half = 12
    Default = 2
    MaxFile = 5
    DocIds = {i1, i2}
    Revisions = {r1, r2}
    Empty = Empty
    NotGiven = NotGiven
    Uploads <- MCUploads
    Downloads <- MCDownloads
    Libraries = {l1}
    Dirs = {x1, x2}
    Files = {f1}
    Segments = {g1, g2}
    NoId = NoId
    MaxDepth = 3
    MaxFailures = 2
    MaxOthers = 1
    Callers = {c1}
    DirIds = {d1, d2}
    Names = {n1, n2}
    Sizes = {1, 2}
    Gone = Gone
    None = None
    NoRev = NoRev
    MaxId = 5
    MaxCalls = 3
    MaxFaults = 1
    MaxForeign = 2
SYMMETRY Symmetry
SPECIFICATION CallsSpec
INVARIANTS TypesOK CompletesWhole KeepsLimits SignsMissing GoesAsAsked RefusesForReason ForwardsRest SameAnswer LibrariesKept ReadsVersion ReadsOwnWrites
PROPERTIES MovesThere ReplacesBase

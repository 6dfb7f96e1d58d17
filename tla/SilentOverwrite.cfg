CONSTANTS
    None = None
    Callers = {c1}
    Operations <- Updates
    MaxId = 6
    MaxBegun = 2
    MaxLost = 0
    MaxOthers = 1
SYMMETRY Symmetry
SPECIFICATION FileSpec
PROPERTIES NoSilentOverwrite

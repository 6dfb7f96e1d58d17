CONSTANTS
    None = None
    Procs = {p1, p2}
    Parts = {k1, k2}
    Bytes = {a, b}
    Stamps = {s1}
    MaxId = 6
    MaxFaults = 1
    MaxChanges = 1
SYMMETRY Symmetry
SPECIFICATION Spec
INVARIANTS TypeOK ClaimedPartsExist
PROPERTIES CommitsSource NoLostUpdate KeepsProgress Implements

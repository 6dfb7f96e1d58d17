CONSTANTS
    None = None
    Procs = {p1, p2}
    Parts = {k1}
    Bytes = {a, b}
    Stamps = {s1}
    MaxId = 6
    MaxFaults = 1
    MaxChanges = 1
SPECIFICATION FairSpec
PROPERTIES EveryCopyEnds

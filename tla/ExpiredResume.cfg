CONSTANTS
    None = None
    Procs = {p1}
    Parts = {k1, k2}
    Bytes = {a}
    Stamps = {s1}
    MaxId = 4
    MaxFaults = 2
    MaxChanges = 0
SPECIFICATION Spec
PROPERTIES ExpiredUploadRestarts

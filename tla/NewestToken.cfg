CONSTANTS
    Block = 16
    Header = 7
    Keys = {"token", "signedIn"}
    Other = "other"
    Lengths = {2, 5, 12, 20}
    Contents <- SomeContents
    MaxBatches = 3
    MaxLogs = 2
SPECIFICATION WalSpec
INVARIANTS FindsNewest

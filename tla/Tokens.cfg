SPECIFICATION TokensSpec
CONSTANTS
    c1 = c1
    c2 = c2
    s1 = s1
    s2 = s2
    None = None
    Callers = {c1, c2}
    Sources = {s1, s2}
    SourceOf <- OwnSources
    MaxTries = 2
    MaxTokens = 8
    MaxFaults = 1
    MaxEnds = 1
    MaxForeign = 1
    ReadAttempts = 2
    MaxCalls = 2
    Unset = Unset
    Readers = {c1, c2}
    MaxToken = 2
    MaxLog = 2
    MaxReads = 2
    MaxReadFaults = 1
    Block = 16
    Header = 7
    Keys = {"token", "signedIn"}
    Other = "other"
    Lengths = {2, 5, 20}
    Contents <- SomeContents
    MaxBatches = 3
    MaxLogs = 2
INVARIANTS TypesOK AppliedOnce ReadsLogs
PROPERTIES ConfigMovesOn SubmittedOnce RefreshesOnlySpent EveryCallEnds ReadsCurrent RefusesSignedOut CachedMovesOn
\* Calls and logs end; EveryCallEnds says that nothing else stops.
CHECK_DEADLOCK FALSE

SPECIFICATION Spec
CONSTANTS
    MaxEpoch = 2
    MaxSeq = 3
    MaxRuns = 3
    DoublesignProtection = 8
    YoungNetwork = FALSE
    Timely = TRUE
    EarlyServe = TRUE
CHECK_DEADLOCK FALSE
INVARIANTS
    NoDoublesign

SPECIFICATION Spec
CONSTANTS
    MaxEpoch = 2
    MaxSeq = 3
    MaxRuns = 3
    DoublesignProtection = 8
    YoungNetwork = TRUE
    Timely = TRUE
    EarlyServe = FALSE
CHECK_DEADLOCK FALSE
INVARIANTS
    NoDoublesign

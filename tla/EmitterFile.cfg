SPECIFICATION Spec
CONSTANTS
    MaxEpoch = 2
    MaxSeq = 3
    MaxRuns = 3
    DoublesignProtection = 8
    YoungNetwork = FALSE
    Timely = FALSE
    EarlyServe = FALSE
CHECK_DEADLOCK FALSE
INVARIANTS
    TypeOK NoDoublesign

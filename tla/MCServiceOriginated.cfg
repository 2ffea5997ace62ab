SPECIFICATION Spec
CONSTANTS
    Event <- MCShortEvent
    Ev <- MCShortEv
    GasPowerUsed <- MCGas
    Validator = {1, 2}
    Sender = {"a"}
    NoSender = "none"
    Me = 1
    GenesisValidators = {1, 2}
    ValidatorSets <- MCValidatorSets
    MaxEpochGas = 6
    MaxEpochDuration = 6
    MaxEmptyBlockSkipPeriod = 3
    MaxBlockGas = 3
    MaxAdvanceEpochs = 1
    MaxFrames = 2
INVARIANT
    OriginatedKnown

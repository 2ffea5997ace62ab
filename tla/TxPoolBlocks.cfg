SPECIFICATION Spec
CONSTANTS
  a = a
  b = b
  c = c
  Account = {a, b}
  Tx <- MCTx
  Prices = {1, 2}
  PriceLimit = 1
  Balance = {1, 2}
  InitBalance = 2
  Sources = {FALSE}
  AccountSlots = 1
  GlobalSlots = 2
  AccountQueue = 2
  GlobalQueue = 1
  PriceBump = 10
  MaxBlocks = 1
  MaxRestarts = 0
INVARIANTS TypeOK PoolConsistent PendingProcessable NoGapInFront RemotesPriced QueuedHaveBeats PendingAnnounced
PROPERTIES LimitsAfterReorg FullStaysFull

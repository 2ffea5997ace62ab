SPECIFICATION Spec
CONSTANTS
  a = a
  b = b
  c = c
  Account = {a, b}
  Tx <- LocalTx
  Prices = {1, 2}
  PriceLimit = 1
  Balance = {2}
  InitBalance = 2
  Sources = {FALSE, TRUE}
  AccountSlots = 1
  GlobalSlots = 1
  AccountQueue = 2
  GlobalQueue = 1
  PriceBump = 10
  MaxBlocks = 0
  MaxRestarts = 0
INVARIANT LocalsWhitelisted

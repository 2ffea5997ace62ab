SPECIFICATION Spec
CONSTANTS
  a = a
  b = b
  c = c
  Account = {a, b, c}
  Tx <- FairTx
  Prices = {1}
  PriceLimit = 1
  Balance = {2}
  InitBalance = 2
  Sources = {FALSE}
  AccountSlots = 1
  GlobalSlots = 3
  AccountQueue = 2
  GlobalQueue = 2
  PriceBump = 10
  MaxBlocks = 0
  MaxRestarts = 0
 
PROPERTIES FairTruncation LimitsAfterReorg

SPECIFICATION Spec
CONSTANTS
  w1 = w1 w2 = w2
  Wallet = {w1, w2}
  Gap = 2
  Batch = 1
  Lookahead = 1
  Paid <- MCPaid
  PaidLater <- MCPaidLater
  Faults = {"indexer", "storage", "noConfig"}
  MaxGen = 2
  MaxRev = 2
  MaxIndex = 2
  FirstHeld <- MCFirstHeld
  Nil = Nil
INVARIANTS ScreenIsOfOpenWallet AtRestOpenIsActive PaidIsWatched IndexIsOwn OnePollChain
PROPERTIES LockHolds OpenWalletComesUp
CHECK_DEADLOCK FALSE

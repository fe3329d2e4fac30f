SPECIFICATION Spec
CONSTANTS
  w1 = w1 w2 = w2 k1 = k1 k2 = k2 k3 = k3 f = f
  Wallet = {w1, w2}
  KeysOf <- MCKeysOf
  Genesis <- MCGenesis
  NetName = "testnet"
  Recipients <- MCRecipients
  DdRecipients <- MCDdRecipients
  SendAmounts = {145}
  TransferAmounts = {2, 3}
  Minted <- MCMinted
  Mints <- MCMints
  Quotes <- MCQuotes
  Coin = 10 MaxMoney = 100000 BpsScale = 4
  LockTiers <- MCTiers
  Buffer = 0 MinFee = 100 MinOutput = 2 Fold = 5 FeeRate = 20 OneByteCount = 1
  FlowFee = 120 MinMint = 3 MaxMint = 10 BetaCap = 10
  MaxElsewhere = 1
  MaxTxs = 4 MaxTip = 2
  Nil = Nil
INVARIANTS NeverInvalid BalancesAreAsMeant SupplyIsBacked NothingIsStranded ValueStaysSpendable
CHECK_DEADLOCK FALSE

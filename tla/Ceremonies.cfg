SPECIFICATION Spec
CONSTANTS
  p1 = p1 mm = mm mpc = mpc a = a b = b
  Nil = Nil Other = Other Decoy = Decoy
  Host = "localhost"
  Order = 3
  Entry = {mm, mpc}
  KindOf <- MCKindOf
  AccountOf <- MCAccountOf
  Steady = {mm}
  Plain = {p1}
  Typed <- MCTyped
  Starts <- MCStarts
  MaxWallets = 2 MaxDrift = 1 MaxPopups = 2
INVARIANTS NoFalseAccusation StoredIsDerivable PendingIsOnScreen WordsAreOfTheOpenWallet
PROPERTIES MainnetIsNotSkipped WordsAreHidden
CHECK_DEADLOCK FALSE

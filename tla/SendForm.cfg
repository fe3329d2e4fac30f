SPECIFICATION FormSpec
CONSTANTS
  r1 = r1 r2 = r2
  Dgb = 10
  Price = {2, 3}
  Amount = {2}
  Balance = {9}
  Slot = {r1, r2}
  MissLimit = 2
  Nil = Nil

INVARIANTS PlansWhatWasShown DigitsKeepTheirCurrency
SYMMETRY Symmetry
CHECK_DEADLOCK FALSE

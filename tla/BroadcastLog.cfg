SPECIFICATION Spec
CONSTANTS
  x1 = x1 x2 = x2 x3 = x3 p1 = p1 p2 = p2 k1 = k1 k2 = k2 t1 = t1 t2 = t2
  Tab = {t1, t2}
  Tx = {x1, x2, x3}
  Payment = {p1, p2}
  Coin = {k1, k2}
  PaysFor <- MCPaysFor
  Spends <- MCSpends
  Faults = {"lost", "crash", "quota"}
  MaxRecords = 1
SYMMETRY Symmetry
INVARIANTS PaidOnce FailedIsUnsent TraceIsKept
CHECK_DEADLOCK FALSE

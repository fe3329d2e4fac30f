SPECIFICATION Spec
CONSTANTS
  a1 = a1 a2 = a2 a3 = a3 i1 = i1 i2 = i2 q1 = q1 q2 = q2
  Claim = {q1, q2}
  Address = {a1, a2, a3}
  Foreign = {a3}
  Ip = {i1, i2}
  Faults = {"lost", "crash", "disk"}
  Cooldown = 2
  MaxClock = 5
  MaxPayouts = 2
  Torn = Torn
SYMMETRY Symmetry
INVARIANTS AnsweredIsHonoured LedgerIsEarned
CHECK_DEADLOCK FALSE

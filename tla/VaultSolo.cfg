SPECIFICATION Spec
CONSTANTS
  s1 = s1 s2 = s2 s3 = s3
  n1 = n1 n2 = n2 n3 = n3
  t1 = t1 t2 = t2
  c1 = c1 c2 = c2
  Tab = {t1, t2}
  Call = {c1}
  Seed = {s1, s2, s3}
  Name = {n1, n2}
  UserOps = {"add", "restore", "derive", "rename", "remove", "removeLast", "setActive", "backUp", "receive", "lock"}
  Faults = {"fail", "restart"}
  Listeners = 0
  Start = {"vault"}
  MaxRev = 3
  MaxSalt = 1
  MaxIndex = 1
  Nil = Nil
SYMMETRY Symmetry
INVARIANTS ListedIsHeld
PROPERTIES DeletesOnlyWhatItSaw ImplementsStore
CHECK_DEADLOCK FALSE

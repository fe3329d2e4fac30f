SPECIFICATION FairSpec
CONSTANTS
  s1 = s1 s2 = s2 s3 = s3
  n1 = n1 n2 = n2 n3 = n3
  t1 = t1 t2 = t2
  c1 = c1 c2 = c2
  Tab = {t1, t2}
  Call = {c1}
  Seed = {s1}
  Name = {n1}
  UserOps = {"create", "erase", "receive"}
  Faults = {"restart"}
  Listeners = 1
  Start = {"empty", "v1", "interrupted"}
  MaxRev = 2
  MaxSalt = 2
  MaxIndex = 1
  Nil = Nil
INVARIANTS SessionFitsCopy
PROPERTIES TabsCatchUp SomethingOpens
CHECK_DEADLOCK FALSE

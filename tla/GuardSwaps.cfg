SPECIFICATION FairSpec
CONSTANTS
  main = main test = test r1 = r1
  Chain = {main, test}
  Expected = main
  Request = {r1}
  Down = Down
  Unknown = Unknown
  Failed = Failed
  MaxUpsets = 2
  MaxPoints = 1
INVARIANTS LeakTakesASwap
PROPERTIES FailsClosed GuardAgrees

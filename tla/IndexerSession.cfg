SPECIFICATION FairSpec
CONSTANTS
  Kinds <- MCKinds
  MaxRequest = 2
  Mint = Mint
  Redeem = Redeem
  Funding = Funding
  Ttl = 1
  CallTimeout = 2
  CacheMax = 2
  MaxClock = 2
  MaxSession = 2 MaxWire = 2
  Nil = Nil
INVARIANTS OpenWasOpen FailsWithItsSession NoFailureIsReplayed
PROPERTIES EveryRequestEnds
CHECK_DEADLOCK FALSE

SPECIFICATION FairSpec
CONSTANTS
  Threads = {t1, t2, t3}
  Lifetime = 6
  Margins = {2, 3}
  MaxStall = 1
  MaxTime = 10
INVARIANTS
  TokenInv
PROPERTIES
  HandedOutTokenIsValid
  OneRefresh
  LockIsReleased

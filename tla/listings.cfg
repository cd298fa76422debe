SPECIFICATION FairSpec
CONSTANTS
  Records = {1, 2, 3}
  PageSizes = {1, 2}
  Kinds = {"counted", "memberships"}
INVARIANTS
  TypeOK
  NothingMissed
  NothingTwice
PROPERTIES
  EveryWalkEnds

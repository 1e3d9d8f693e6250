SPECIFICATION MemorySpec
CONSTANTS
  Plans <- SmallPlans
  Limit = 2
  EntityLimit = 1
  MaxSize = 6
  SummarySize = 2
  MaxRemoved = 1
  MaxRevision = 3
INVARIANTS
  MemoryBounded
  LatestWordOnField
  RemovedGone
PROPERTIES
  ConfirmedVerified
  ActiveCarriedOn

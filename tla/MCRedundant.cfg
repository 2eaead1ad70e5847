SPECIFICATION LoadSpec
CONSTANTS
  Kind <- Kinds
  MaxId = 9
  MaxWidth = 1
  Circuits <- Redundant
  Modules <- Chained
INVARIANTS TypeOK SameFunction NothingDeadIsLeft LoadedReadsItsSources

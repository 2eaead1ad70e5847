SPECIFICATION FairSpec
CONSTANTS
  Kind <- Kinds
  MaxId = 5
  MaxWidth = 1
  Circuits <- ClockedByPorts
  Fresh = {0, 1, 2}
INVARIANTS TypeOK StaleCellsArePending Settled
PROPERTIES ImplementsSync UpdateReturns
CHECK_DEADLOCK FALSE

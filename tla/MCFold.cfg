SPECIFICATION Spec
CONSTANTS
  Kind <- Kinds
  MaxId = 9
  MaxWidth = 1
  Circuits <- Folded
INVARIANTS TypeOK SameFunction FoldedStateIsFrozen NoLostCandidate ClosingCheckPasses
PROPERTY Terminates
CHECK_DEADLOCK FALSE

SPECIFICATION Spec
CONSTANTS
  Kind <- Kinds
  MaxId = 6
  MaxWidth = 1
  Circuits <- ConstantMemory
INVARIANT ClosingCheckPasses
CHECK_DEADLOCK FALSE

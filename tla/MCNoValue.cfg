SPECIFICATION Spec
CONSTANTS
  Kind <- Kinds
  MaxId = 10
  MaxWidth = 1
  Circuits <- Selecting
INVARIANT ValuesAreFound
CHECK_DEADLOCK FALSE

SPECIFICATION Spec
CONSTANTS
  Kind <- Kinds
  MaxId = 5
  MaxWidth = 1
  Circuits <- Ripple
  Fresh = {0, 1}
INVARIANT NoLostEvent
CHECK_DEADLOCK FALSE

SPECIFICATION Spec
CONSTANTS
  Kind <- Kinds
  MaxId = 10
  MaxWidth = 1
  Circuits <- Folded
INVARIANTS TypeOK LabelsAreSound LabelsAreSettled SameFunction
PROPERTIES LabelsOnlyRise Terminates
CHECK_DEADLOCK FALSE

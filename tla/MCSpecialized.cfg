SPECIFICATION SpecializeSpec
CONSTANTS
  Kind <- Kinds
  MaxId = 12
  MaxWidth = 1
  Circuits <- Specialized
  Fresh = {0, 1}
INVARIANTS SpecializeTypeOK ShowsTheOriginal SpecializationSucceeds
CHECK_DEADLOCK FALSE

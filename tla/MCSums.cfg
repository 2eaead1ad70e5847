SPECIFICATION Spec
CONSTANTS
  Kind <- Arithmetic
  MaxId = 6
  MaxWidth = 1
  Circuits <- Sums
  Fresh = {0, 1}
  MaxGroups = 8
INVARIANT ReadsTheSynchronousValue

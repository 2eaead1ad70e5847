SPECIFICATION Spec
CONSTANTS
  Kind <- Logic
  MaxId = 6
  MaxWidth = 1
  Circuits <- WithMemory
  Fresh = {0, 1}
  MaxGroups = 8
INVARIANT ReadsTheSynchronousValue

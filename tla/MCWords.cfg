SPECIFICATION Spec
CONSTANTS
  Width = 4
  MaxShift = 12
INVARIANTS BinaryWordsAreNumbers KnownBitsAreRight
CHECK_DEADLOCK FALSE

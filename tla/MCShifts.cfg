SPECIFICATION Spec
CONSTANTS
  Width = 4
  MaxShift = 12
INVARIANT ShiftsAreNumeric
CHECK_DEADLOCK FALSE

SPECIFICATION Spec
CONSTANTS
  Without = {}
  Plans = {"organization"}
  MaxLate = 0
CHECK_DEADLOCK FALSE
INVARIANT RefusedOnlyByLateRows

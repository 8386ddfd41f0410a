SPECIFICATION Spec
CONSTANTS
  Workers = {w1, w2, w3}
  Limit = 3
INVARIANTS Inv OneLimitEach
CHECK_DEADLOCK FALSE

SPECIFICATION FairSpec
CONSTANTS
  None = None
  savings = savings
  Workers = {w1, w2}
  Three = {w1, w2, w3}
  Conns = {c1, c2, c3}
  MaxAsks = 2
CHECK_DEADLOCK FALSE
INVARIANTS
  PoolInv NoStandstill
PROPERTIES
  EventuallyVerified EventuallyDeleted EveryRequestEnds

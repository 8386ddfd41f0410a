SPECIFICATION Spec
CONSTANTS
  None = None
  rice = rice
  depot = depot
  shop = shop
  ref1 = ref1
  ref2 = ref2
  Workers = {w1, w2, w3}
  One = {w1}
  Two = {w1, w2}
SYMMETRY MCSymmetry
CHECK_DEADLOCK FALSE
INVARIANTS
  StockKept CountsDoNotAdd ReceivablesKept AmountsAgree
PROPERTIES
  RowsStand DepotQuota

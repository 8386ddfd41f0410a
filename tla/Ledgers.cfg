SPECIFICATION Spec
CONSTANTS
  None = None
  ref1 = ref1
  ref2 = ref2
  savings = savings
  till = till
  prt1 = prt1
  prt2 = prt2
  Workers = {w1, w2}
  One = {w1}
  Two = {w1, w2}
SYMMETRY MCSymmetry
CHECK_DEADLOCK FALSE
INVARIANTS
  PayablesKept  OrdersAgree BankingKept BooksKept
PROPERTIES
  BankingHeals

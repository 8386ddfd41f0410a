SPECIFICATION SalesSpec
CONSTANTS
  ann = ann  bob = bob  olu = olu  main = main  r1 = r1  r2 = r2
  depot = depot  rice = rice  fitting = fitting  cus = cus
  None = None
  Workers = {w1, w2}
  Staff <- MCStaff
  Owners <- MCOwners
  Admins <- MCNoStaff
  Branches <- MCBranches
  Manages <- MCManages
  Registers <- MCRegisters
  InitialRegisters <- MCInitialRegisters
  WarehouseOf <- MCWarehouseOf
  Warehouses = {depot}
  Products <- MCProducts
  Goods <- MCGoods
  Net <- MCNet
  Tax <- MCTax
  Costs <- MCOneCost
  RestockQuantities = {1}
  OpeningCost <- MCOpeningCost
  OpeningHome <- MCOpeningHome
  OpeningStock <- MCOpeningStock
  Customers = {cus}
  CreditLimit <- MCCreditLimit
  Checkouts <- TillCheckouts
  MaxSales = 3
  MaxReturns = 0
  MaxRestocks = 1
CHECK_DEADLOCK FALSE
INVARIANTS ReceiptNumbers OneSalePerKey NoOversell
PROPERTIES NeverDeleted

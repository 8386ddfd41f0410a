SPECIFICATION Spec
CONSTANTS
  ann = ann  bob = bob  olu = olu  main = main  r1 = r1  r2 = r2
  depot = depot  rice = rice  fitting = fitting  cus = cus
  None = None
  Workers = {w1}
  Staff <- MCStaff
  Owners <- MCOwners
  Admins <- MCNoStaff
  Branches <- MCBranches
  Manages <- MCManages
  Registers <- MCOneRegister
  InitialRegisters <- MCOneInitial
  WarehouseOf <- MCOneWarehouse
  Warehouses = {depot}
  Products <- MCProducts
  Goods <- MCGoods
  Net <- MCNet
  Tax <- MCTax
  Costs <- MCOneCost
  RestockQuantities = {1}
  OpeningCost <- MCOpeningCost
  OpeningHome <- MCOpeningHome
  OpeningStock <- MCOpeningStock
  Customers = {cus}
  CreditLimit <- MCCreditLimit
  Checkouts <- DrawerCheckouts
  MaxSales = 2
  MaxReturns = 2
  MaxRestocks = 0
  Floats <- MCFloats
  MaxShifts = 2
CHECK_DEADLOCK FALSE
INVARIANTS LimitsKept
PROPERTIES DrawerAgreesWithLedger

SPECIFICATION Spec
CONSTANTS
  ann = ann  bob = bob  olu = olu  main = main  r1 = r1  r2 = r2
  depot = depot  rice = rice  fitting = fitting  cus = cus
  None = None
  Workers = {w1, w2}
  Staff <- MCTwoStaff
  Owners <- MCNoStaff
  Admins <- MCNoStaff
  Branches <- MCBranches
  Manages <- MCTwoManage
  Registers <- MCOneRegister
  InitialRegisters <- MCOneInitial
  WarehouseOf <- MCOneWarehouse
  Warehouses = {depot}
  Products <- MCProducts
  Goods <- MCGoods
  Net <- MCNet
  Tax <- MCTax
  Costs <- MCOneCost
  RestockQuantities = {1}
  OpeningCost <- MCOpeningCost
  OpeningHome <- MCOpeningHome
  OpeningStock <- MCOpeningStock
  Customers = {cus}
  CreditLimit <- MCCreditLimit
  Checkouts <- ShiftCheckouts
  MaxSales = 1
  MaxReturns = 0
  MaxRestocks = 0
  Floats <- MCNoFloat
  MaxShifts = 1
CHECK_DEADLOCK FALSE
INVARIANTS InactiveHasNoOpenShift

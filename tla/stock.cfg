SPECIFICATION WSpec
CONSTANTS
  i1 = i1
  i2 = i2
  c1 = c1
  Items = {i1, i2}
  Claims = {c1}
  Loss = Loss
  Intakes <- MCIntakes
  SaleQty <- MCSaleQty
  MaxQty = 3
  MaxBatches = 2
  MaxRefunds = 1
  MaxAdjusts = 1
  Opening = 1
  AllowOutOfStock = FALSE
CHECK_DEADLOCK FALSE
INVARIANTS WarrantyTypeOK BatchesBalance LineAccounted ShelfHolds UnitsAccounted RefundsAccounted

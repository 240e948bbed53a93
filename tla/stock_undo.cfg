SPECIFICATION WSpec
CONSTANTS
  i1 = i1
  i2 = i2
  Items = {i1, i2}
  Claims = {}
  Loss = Loss
  Intakes <- MCIntakes
  SaleQty <- MCSaleQty
  MaxQty = 3
  MaxBatches = 2
  MaxRefunds = 1
  MaxAdjusts = 0
  Opening = 0
  AllowOutOfStock = FALSE
CHECK_DEADLOCK FALSE
INVARIANT UndoIsExact

\* The strategy thread checks while the I/O thread books.
SPECIFICATION Spec
CONSTANTS
  Symbols    = {s1}
  OrderIds   <- TwoOrders
  Prices     = {1}
  Quantities = {1, 2}
  MaxSymbols = 1
  MaxOrders  = 3
  MaxOrderQty        = 2
  MaxOrderNotional   = 10
  MaxNetPosition     = 2
  MaxLoss            = 1
  AllowPositionCross = FALSE
  StrategySides = {"Buy"}
  MaxEvents     = 6
  SameThread    = FALSE
  ResetOnLogon  = FALSE
  None          = None
  MaxCrashes    = 0
INVARIANT
  WithinLimit
CHECK_DEADLOCK FALSE

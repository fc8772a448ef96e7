\* A death between the log and the end of onMessage().
SPECIFICATION Spec
CONSTANTS
  Symbols    = {s1}
  OrderIds   <- OneOrder
  Prices     = {1}
  Quantities = {1, 2}
  MaxSymbols = 1
  MaxOrders  = 3
  MaxOrderQty        = 2
  MaxOrderNotional   = 10
  MaxNetPosition     = 2
  MaxLoss            = 1
  AllowPositionCross = FALSE
  StrategySides = {"Buy", "Sell"}
  MaxEvents     = 6
  SameThread    = FALSE
  ResetOnLogon  = FALSE
  None          = None
  MaxCrashes    = 1
INVARIANT
  NoFillTwice
CHECK_DEADLOCK FALSE

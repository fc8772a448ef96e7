\* A death, then an order with an id that was used before.
SPECIFICATION Spec
CONSTANTS
  Symbols    = {s1}
  OrderIds   <- TwoOrders
  Prices     = {1}
  Quantities = {1}
  MaxSymbols = 1
  MaxOrders  = 3
  MaxOrderQty        = 2
  MaxOrderNotional   = 10
  MaxNetPosition     = 2
  MaxLoss            = 1
  AllowPositionCross = FALSE
  StrategySides = {"Buy", "Sell"}
  MaxEvents     = 6
  SameThread    = FALSE
  ResetOnLogon  = FALSE
  None          = None
  MaxCrashes    = 1
INVARIANT
  LiveOrdersKnown
CHECK_DEADLOCK FALSE

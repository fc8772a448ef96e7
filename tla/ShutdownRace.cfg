\* The handler runs cancel_all() itself, on either thread.
SPECIFICATION ShutdownSpec
CONSTANTS
  Symbols    = {s1}
  OrderIds   <- Ids
  Prices     = {1}
  Quantities = {1}
  MaxSymbols = 1
  MaxOrders  = 2
  MaxOrderQty        = 2
  MaxOrderNotional   = 10
  MaxNetPosition     = 2
  MaxLoss            = 1
  AllowPositionCross = FALSE
  StrategySides = {"Buy"}
  MaxEvents     = 3
  SameThread    = FALSE
  ResetOnLogon  = FALSE
  None          = None
  MaxCrashes    = 0
INVARIANT
  NothingLeftOpen
CHECK_DEADLOCK FALSE

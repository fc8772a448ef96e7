\* Two threads, two deaths at any point, a log that fills up.
SPECIFICATION Spec
CONSTANTS
  Symbols    = {s1}
  OrderIds   <- TwoOrders
  Prices     = {1}
  Quantities = {1, 2}
  MaxSymbols = 1
  MaxOrders  = 3
  MaxOrderQty        = 2
  MaxOrderNotional   = 10
  MaxNetPosition     = 2
  MaxLoss            = 1
  AllowPositionCross = FALSE
  StrategySides = {"Buy"}
  MaxEvents     = 5
  SameThread    = FALSE
  ResetOnLogon  = FALSE
  None          = None
  MaxCrashes    = 2
INVARIANTS
  TypeOK
  LogBeforeExchange
  NoFillLost
CHECK_DEADLOCK FALSE

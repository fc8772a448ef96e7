\* Two threads, as long as the process lives.
SPECIFICATION Spec
CONSTANTS
  Symbols    = {s1, s2}
  OrderIds   <- TwoOrders
  Prices     = {1}
  Quantities = {1, 2}
  MaxSymbols = 2
  MaxOrders  = 3
  MaxOrderQty        = 2
  MaxOrderNotional   = 10
  MaxNetPosition     = 2
  MaxLoss            = 1
  AllowPositionCross = FALSE
  StrategySides = {"Buy", "Sell"}
  MaxEvents     = 6
  SameThread    = FALSE
  ResetOnLogon  = FALSE
  None          = None
  MaxCrashes    = 0
INVARIANTS
  ReplayRebuilds
  FillsBookedOnce
  LiveOrdersKnown
  OverloadsAgree
CHECK_DEADLOCK FALSE

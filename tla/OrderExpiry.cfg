\* A day order expires.
SPECIFICATION Spec
CONSTANTS
  Symbols    = {s1, s2}
  OrderIds   = {o1, o2}
  Prices     = {5}
  Quantities = {1, 2}
  MaxOrders  = 2
SYMMETRY Symmetry
INVARIANT
  ExposureOfLiveOrders
CHECK_DEADLOCK FALSE

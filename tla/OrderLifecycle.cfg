\* Three orders in two symbols compete for two slots.
SPECIFICATION Spec
CONSTANTS
  Symbols    = {s1, s2}
  OrderIds   = {o1, o2, o3}
  Prices     = {5}
  Quantities = {1, 2}
  MaxOrders  = 2
SYMMETRY Symmetry
INVARIANTS
  TypeOK
  MirrorsExchange
  AvgFillFaithful
  OpenHasRemainder
  ExposureIsLeaves
PROPERTIES
  ForwardOnly
CHECK_DEADLOCK FALSE

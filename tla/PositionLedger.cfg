CONSTANTS
  Symbols = {s1, s2}
  OrderIds = {o1}
  Prices = {1, 2, 4}
  Quantities = {0, 1, 2}
  MaxSymbols = 1
  MaxFills = 4
SPECIFICATION Spec
SYMMETRY SymbolSymmetry
INVARIANTS
  TypeOK
  FillsAccounted
  RoundingBounded
  FlatIsClean
  UnrealizedInSync
  AvgWithinTraded

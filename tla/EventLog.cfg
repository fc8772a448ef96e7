SPECIFICATION Spec
CONSTANTS
  Payloads  = {a, b}
  MaxEvents = 3
  Writers   = {io}
  Readers   = {r1, r2}
  Zero      = Zero
  Torn      = Torn
  MaxFaults = 3
INVARIANTS
  TypeOK
  ReturnedSurvives
  ReadersSeeLog
  DurablePrefix
  RefusedHoldsNothing
PROPERTIES
  ImplementsAppendLog

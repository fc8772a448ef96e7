\* send_order() appends on the strategy thread, onMessage() on the I/O thread.
SPECIFICATION Spec
CONSTANTS
  Payloads  = {a, b}
  MaxEvents = 3
  Writers   = {io, strategy}
  Readers   = {}
  Zero      = Zero
  Torn      = Torn
  MaxFaults = 0
INVARIANT
  ReturnedSurvives

\* An answer overtakes the increment in start(): the result lacks imports.
CONSTANTS
  r0 = r0
  a = a
  b = b
  File = {r0, a, b}
  Root = r0
  Symbol = Symbol
  Servers <- FaultlessServers
SPECIFICATION Spec
INVARIANTS CompleteResult
CHECK_DEADLOCK FALSE

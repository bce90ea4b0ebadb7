\* Several files in one answer, an import left out.
CONSTANTS
  r0 = r0
  a = a
  b = b
  File = {r0, a, b}
  Root = r0
  Symbol = Symbol
  Servers <- OmittingServers
SPECIFICATION Spec
INVARIANTS AllReceived
CHECK_DEADLOCK FALSE

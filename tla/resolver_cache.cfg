\* The descriptor cache that is never filled.
CONSTANTS
  r0 = r0
  a = a
  b = b
  File = {r0, a, b}
  Sets <- CompleteSets
  MaxDepth = 4
SPECIFICATION Spec
INVARIANTS BuiltOnce
CHECK_DEADLOCK FALSE

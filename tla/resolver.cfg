\* All descriptor sets of three files, complete or not, valid or not.
CONSTANTS
  r0 = r0
  a = a
  b = b
  File = {r0, a, b}
  Sets <- AnySets
  MaxDepth = 4
SPECIFICATION FairSpec
INVARIANTS TypeOK ResultExact OutcomeFixed
PROPERTIES Terminates
CHECK_DEADLOCK FALSE

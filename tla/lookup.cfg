\* Any server, slow or overtaking start(), losing nothing or anything.
CONSTANTS
  r0 = r0
  a = a
  b = b
  File = {r0, a, b}
  Root = r0
  Symbol = Symbol
  Servers <- AnyServers
SPECIFICATION FairSpec
INVARIANTS TypeOK OrderlyComplete ResultOfService NoticesEnd NoUseAfterHalfClose
PROPERTIES AsksOnce KeepsPromise Settles Succeeds
CHECK_DEADLOCK FALSE

\* Registrations and calls against every server, one that says nothing included.
CONSTANTS
  s1 = s1
  s2 = s2
  Service = {s1, s2}
  All = All
  Goals <- AnyGoal
  Lists <- AnyList
  Deadline = 2
SPECIFICATION FairSpec
INVARIANTS TypeOK ResolveExact TimeBound
PROPERTIES KeepsPromise Returns
CHECK_DEADLOCK FALSE

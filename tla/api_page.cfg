\* Documents overtaking resolutions, and calls overtaking each other.
CONSTANTS
  u1 = u1
  u2 = u2
  Url = {u1, u2}
  Unresolvable = {u2}
  p1 = p1
  p2 = p2
  Operation = {p1, p2}
  t1 = t1
  t2 = t2
  Tag = {t1, t2}
  TagOf <- OwnTag
  Schemes = Schemes
  Slot = {1, 2}
  Visits <- ManyVisits
SPECIFICATION FairSpec
INVARIANTS TypeOK NothingLost AddressOfText CallsSettle
PROPERTIES StaleOnlyIfOvertaken OpenResolves
CHECK_DEADLOCK FALSE

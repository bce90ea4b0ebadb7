\* A listed service whose document has expired.
CONSTANTS
  s1 = s1  s2 = s2  health = health
  e1 = e1  e2 = e2
  t1 = t1  t2 = t2
  Service = {s1, s2, health}
  Endpoint = {e1, e2}
  Host = {h1, h2}
  DefaultHost = default
  Thread = {t1, t2}
  Blocked = {health}
  Offers <- TwoServers
  Setups <- ExpiringSetups
  MaxRegistrations = 2
SPECIFICATION Spec
INVARIANTS Documented
CHECK_DEADLOCK FALSE

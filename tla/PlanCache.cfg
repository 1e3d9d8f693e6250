SPECIFICATION CacheSpec
CHECK_DEADLOCK FALSE
CONSTANTS
  s1 = s1
  s2 = s2
  k1 = k1
  k2 = k2
  k3 = k3
  Sessions = {s1, s2}
  Keys = {k1, k2, k3}
  CacheLimit = 2
  Expiry <- ExpiryOf
  MaxTime = 2
  MaxPlans = 4
SYMMETRY Symmetry
INVARIANTS
  ReplaysOwnLatest
PROPERTIES
  NoReplayAfterExpiry


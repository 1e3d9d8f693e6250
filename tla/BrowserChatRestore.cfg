SPECIFICATION Spec
CHECK_DEADLOCK FALSE
CONSTANTS
  left = left
  right = right
  Tabs = {left, right}
  NoBackend = 0
  MaxStored = 2
  MaxMessages = 3
  MaxSends = 3
  MaxClock = 2
  MaxReloads = 1
INVARIANT StoredIsRestored

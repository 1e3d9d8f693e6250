SPECIFICATION IndexSpec
CONSTANTS
  j1 = j1
  j2 = j2
  v1 = v1
  blue = blue
  green = green
  active = active
  docs = docs
  Products = {blue, green}
  Active = active
  Docs = docs
  Releases = {1, 2}
  LastItem = 2
  ItemsOf <- GrowingReleases
  Targets <- BlueGreen
  Calibrated = {2}
  Jobs = {j1, j2}
  Servers = {v1}
  None = None
SYMMETRY Symmetry
INVARIANTS
  AliasComplete
  ReadyBacked
  RerunRepairs

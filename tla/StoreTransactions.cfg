SPECIFICATION Spec
CONSTANTS
  s1 = s1
  r1 = r1
  r2 = r2
  r3 = r3
  Sessions = {s1}
  Runs = {r1, r2, r3}
  SessionOf <- OneSession
  NoRun = NoRun
  NoContext = NoContext
  MaxExchanges = 1
INVARIANTS
  OneRunning
  DenseSequence
  TurnsContiguous
  SnapshotCurrent
PROPERTY
  ImplementsStore
CHECK_DEADLOCK FALSE

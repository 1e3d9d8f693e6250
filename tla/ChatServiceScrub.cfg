SPECIFICATION FairSpec
CONSTANTS
  s1 = s1
  s2 = s2
  r1 = r1
  r2 = r2
  r3 = r3
  w1 = w1
  w2 = w2
  Sessions = {s1}
  Runs = {r1, r2}
  Workers = {w1, w2}
  SessionOf <- Pair
  WorkerOf <- PairWorkers
  NoRun = NoRun
  NoContext = NoContext
  MaxExchanges = 1
  HistoryLimit = 2
  Faults = {"crash", "database", "lostAck", "provider"}
PROPERTIES
  ContextFinallyScrubbed
  RequestsEnd

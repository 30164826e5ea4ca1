SPECIFICATION LongFairSpec
CONSTANTS
  t1 = t1
  t2 = t2
  k1 = k1
  k2 = k2
  NoThread = NoThread
  NoKey = NoKey
  Keys <- BothKeys
  WideKeys <- WideKey
  Threads <- MCThreads
  MaxHandle = 4
  MaxCalls = 2
  Opened <- OneConnection
  Pooled = {}
  Ops <- CloserOps
  Careful = TRUE
  Faults = FALSE
  Libl = TRUE
INVARIANTS
  NothingOrphaned
PROPERTIES
  CallsReturn

SPECIFICATION FairSpec
CONSTANTS
  t1 = t1
  t2 = t2
  NoThread = NoThread
  NoKey = NoKey
  k1 = k1
  Keys <- MCKeys
  WideKeys = {}
  Threads <- MCThreads
  MaxHandle = 5
  MaxCalls = 2
  Opened <- TwoConnections
  Pooled = {4}
  Ops <- EveryOp
  Careful = TRUE
  Faults = TRUE
INVARIANTS
  NothingHeldAfterReturn
PROPERTIES
  CallsReturn

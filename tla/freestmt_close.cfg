SPECIFICATION Spec
CONSTANTS
  t1 = t1
  t2 = t2
  NoThread = NoThread
  NoKey = NoKey
  k1 = k1
  Keys = {}
  WideKeys = {}
  Threads <- MCThreads
  MaxHandle = 4
  MaxCalls = 3
  Opened <- SharedConnection
  Pooled = {}
  Ops <- CloseOps
  Careful = TRUE
  Faults = FALSE
INVARIANTS
  OneCallPerConnection

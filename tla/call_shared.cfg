SPECIFICATION Spec
CONSTANTS
  t1 = t1
  t2 = t2
  NoThread = NoThread
  NoKey = NoKey
  k1 = k1
  Keys <- MCKeys
  WideKeys = {}
  Threads <- MCThreads
  MaxHandle = 5
  MaxCalls = 3
  Opened <- TwoConnections
  Pooled = {4}
  Ops <- AllOps
  Careful = TRUE
  Faults = TRUE
SYMMETRY MCSymmetry
INVARIANTS
  TypeOK
  OneCallPerConnection
  NothingHeldAfterReturn
  TableAgreesWithDb2
  KnownHandlesAreLive
PROPERTIES
  ImplementsSessions

SPECIFICATION TidySpec
CONSTANTS
  t1 = t1
  t2 = t2
  k1 = k1
  k2 = k2
  NoThread = NoThread
  NoKey = NoKey
  Keys <- MCKeys
  WideKeys = {}
  Threads <- MCThreads
  MaxHandle = 4
  MaxCalls = 3
  Opened <- OneConnection
  Pooled = {}
  Ops <- PersistentOps
  Careful = TRUE
  Faults = TRUE
  Libl = TRUE
SYMMETRY MCSymmetry
INVARIANTS
  NothingHeldAfterReturn
  KnownHandlesAreLive
  KeyedByThreads
  KeyedIsConnected
PROPERTIES
  ImplementsVisits
  OnlyPCloseCloses

SPECIFICATION AsyncFairSpec
CONSTANTS
  main = main
  c1 = c1
  c2 = c2
  k1 = k1
  NoThread = NoThread
  NoKey = NoKey
  Keys <- MCKeys
  WideKeys = {}
  Threads <- MCThreads
  Main = main
  MaxHandle = 4
  MaxCalls = 2
  Opened <- TwoConnections
  Pooled = {4}
  Ops <- AllAsyncOps
  Careful = TRUE
  Faults = FALSE
  JoinFlags <- Both
INVARIANTS
  CallbackHoldsNothing
  CallbackRan
PROPERTIES
  JobsExit
  JoinsReturn

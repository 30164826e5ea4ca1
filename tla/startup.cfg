SPECIFICATION FairSpec
CONSTANTS
  t1 = t1
  t2 = t2
  NoThread = NoThread
  NoKey = NoKey
  Threads <- MCThreads
  Keys = {}
  WideKeys = {}
  MaxHandle = 2
  PaseCcsid = 37
  Dirs = 2
  Programs <- MCPrograms
INVARIANTS
  GlobalLockExclusive
  OneCcsid
  ConnectionsAfterEnvironment
  DirectoriesListed
PROPERTIES
  StartupReturns

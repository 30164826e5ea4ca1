\* One call of any exported function beside a call of another thread.
CONSTANTS
  t1 = t1
  t2 = t2
  NoThread = NoThread
  NoKey = NoKey
  MaxHandle = 3
  Threads <- MCThreads
  Keys = {}
  WideKeys = {}
  Conns = {2, 3}
  Settings <- MCSettings
  MaxCalls = 1
  MaxTodo = 8
SPECIFICATION FairSpec
INVARIANTS
  PathTypeOK
  OnlyUnserialisedOverlap
  OneThreadPerConverter
  ConvertersBounded
  TextReachesDb2
  GeneratedFilesAgree
  NothingLeftBehind
PROPERTY CallsReturn

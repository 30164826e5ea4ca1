SPECIFICATION Spec
CONSTANTS
  Threads = {}
  NoThread = NoThread
  Keys = {}
  WideKeys = {}
  NoKey = NoKey
  MaxHandle = 6
  MaxRows = 2
  Documents <- MCDocuments
  Scripts <- MCScripts
INVARIANTS
  OutputNests
  ConnectionsReturned
  StatementsReported
  ReadWhereWritten
  ArgumentsApart
  EveryElementRuns
  ValuesComeBack

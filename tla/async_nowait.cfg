SPECIFICATION AsyncSpec
CONSTANTS
  main = main
  c1 = c1
  c2 = c2
  k1 = k1
  NoThread = NoThread
  NoKey = NoKey
  Keys <- MCKeys
  WideKeys = {}
  Threads <- OneChild
  Main = main
  MaxHandle = 3
  MaxCalls = 2
  Opened <- OneConnection
  Pooled = {}
  Ops <- PollOps
  Careful = TRUE
  Faults = FALSE
  JoinFlags <- Polls
INVARIANTS
  NoWaitDoesNotBlock

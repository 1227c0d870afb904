CONSTANTS
  t1 = t1
  t2 = t2
  Threads <- TwoThreads
  Sources <- Failing
  Answer <- MCAnswer
  MaxHandles = 2
SPECIFICATION FairSpec
INVARIANTS OneParsePerEngine
PROPERTIES Linearizable EveryCallReturns

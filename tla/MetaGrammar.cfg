CONSTANTS
  Inputs <- MCInputs
  DeferDecode = FALSE
  MaxAny = 2
  MaxBody = 4
  MaxDeep = 6
SPECIFICATION FairSpec
INVARIANTS TypeOK StackShape VerdictExact YieldExact HeapIsForest
PROPERTY Terminates

CONSTANTS
  Inputs <- MCInputs
  DeferDecode = TRUE
  MaxGroupDepth = 9
  MaxNestDepth = 3
  MaxBody = 4
  MaxDeep = 7
  MaxFirst = 4
SPECIFICATION RustSpec
INVARIANTS NestExact DepthBounded RustVerdictExact StackBounded

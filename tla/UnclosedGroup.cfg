CONSTANTS
  Inputs <- MCInputs
  DeferDecode = FALSE
  MaxAny = 1
  MaxBody = 3
  MaxDeep = 0
SPECIFICATION Spec
INVARIANT UnbalancedParenRefused

CONSTANTS
  Grammars <- MCGrammars
  Callable <- MCCallable
  Emissions <- MCEmissions
  MaxCalls = 3
  MaxMembers = 2
  Points <- MCPoints
SPECIFICATION Spec
INVARIANTS EagerExactly CompilerHeard AnsweredAlone InstanceExact

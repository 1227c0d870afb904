\* The three tools stop when they are done.
CHECK_DEADLOCK FALSE
CONSTANTS
  Bad = Bad
  Missing = Missing
  NoRepo = NoRepo
  Org <- MCOrg
  Dotted <- MCDotted
  NpmRepo <- MCNpmRepo
  CrateRepo <- MCCrateRepo
  Repos <- MCRepos
  From2024 <- MCFrom2024
  Documents <- MCDocuments
  MaxRuns = 3
  None = None
  Trees <- MCTrees
  Edits <- MCEdits
  Alc <- MCAlc
  Base <- MCBase
  NoPart = NoPart
  MaxEmbeds = 3
SPECIFICATION ToolsSpec
INVARIANTS
  TextKept
  NoDependencyLost
  VerdictSound
  CheckExact
  WrittenExact
  CopiesAgree
PROPERTY InlineClosed

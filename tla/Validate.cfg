CONSTANTS
  Names = {root, a, b}
  Root = root
  Ports = {"ts", "go", "rs"}
  Grammars <- MCGrammars
  MaxLong = 3
  MaxWide = 2
SYMMETRY Symmetry
SPECIFICATION Spec
INVARIANTS VerdictExact Compilable OrderKept

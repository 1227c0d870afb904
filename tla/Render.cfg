CONSTANTS
  Legal = {"root", "x", "y"}
  Illegal = {"a b"}
  Root = "root"
  NoStart = NoStart
  Infinity = 100
  Cased <- MCCased
  Cases <- MCCases
  Alphabet <- MCAlphabet
  MaxLength = 3
  MaxBody = 3
  Kinds = {"terminals", "structures", "others"}
SPECIFICATION Spec
INVARIANTS RefusedExactly LanguageKept FixedPoint

CONSTANTS
  Threads = {t1, t2}
  Objects = {g, h}
  Shared = {g}
  Fronts = {f1, f2}
  Engines = {e1, e2}
  FrontPaths = {None, f2, e1}
  EnginePaths = {None, e2, f1}
  DefaultFront = f1
  DefaultEngine = e1
  None = None
SYMMETRY Symmetry
SPECIFICATION Spec
INVARIANT MissingLibraryNamed

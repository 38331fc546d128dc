SPECIFICATION Spec
CONSTANTS
  r1 = r1
  r2 = r2
  f1 = f1
  f2 = f2
  a1 = a1
  a2 = a2
  None = None
  Requests = {r1, r2}
  Filenames = {f1, f2}
  Archives = {a1, a2}
  Dirs = {1, 2}
  SystemDir = 1
  DirOf <- MCDirOf
  NChunks = 1
  SharedNames = FALSE
  Faults = FALSE
SYMMETRY Symmetry
VIEW View
INVARIANT IndexCurrentWhenQuiet

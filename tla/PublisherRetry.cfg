SPECIFICATION ClientSpec
CONSTANTS
  r1 = r1
  r2 = r2
  f1 = f1
  a1 = a1
  a2 = a2
  a3 = a3
  None = None
  Requests = {r1, r2}
  Filenames = {f1}
  Archives = {a1, a2}
  Dirs = {1, 2}
  SystemDir = 1
  DirOf <- MCDirOf
  NChunks = 2
  SharedNames = TRUE
  Faults = FALSE
  MayBreak = TRUE
  BuiltAfter <- MCForward
VIEW View
PROPERTY SkippedIsStored

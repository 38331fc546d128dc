SPECIFICATION FairClientSpec
CONSTANTS
  r1 = r1
  r2 = r2
  f1 = f1
  a1 = a1
  a2 = a2
  a3 = a3
  None = None
  Requests = {r1}
  Filenames = {f1}
  Archives = {a1, a2, a3}
  Dirs = {1, 2}
  SystemDir = 1
  DirOf <- MCDirOf
  NChunks = 2
  SharedNames = FALSE
  Faults = TRUE
  MayBreak = TRUE
  BuiltAfter <- MCForward
INVARIANT ClientTypeOK
INVARIANT ToldIsStored
PROPERTY GetsThrough

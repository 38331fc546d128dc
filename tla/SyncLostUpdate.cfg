SPECIFICATION FairSpec
CONSTANTS
  h1 = h1
  h2 = h2
  p1 = p1
  p2 = p2
  None = None
  Hooks = {h1}
  Paths = {p1, p2}
  MaxCommit = 2
  Bad = {}
  BootOverlaps = TRUE
  MayCancel = FALSE
  MaxFaults = 0
PROPERTY CatchUp

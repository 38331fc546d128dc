SPECIFICATION FairSpec
CONSTANTS
  h1 = h1
  h2 = h2
  p1 = p1
  p2 = p2
  None = None
  Hooks = {h1, h2}
  Paths = {p1, p2}
  MaxCommit = 3
  Bad = {2}
  BootOverlaps = FALSE
  MayCancel = TRUE
  MaxFaults = 2
INVARIANT TypeOK
INVARIANT TriggeredSyncsExclusive
INVARIANT CatalogFromOneCommit
INVARIANT LastCommitNotAhead
INVARIANT LoggedSyncIsShown
PROPERTY ImplementsCatalog
PROPERTY CatchUpUnlessStuck

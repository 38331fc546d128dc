SPECIFICATION FairSpec
CONSTANTS
  u1 = u1
  u2 = u2
  u3 = u3
  Absent = Absent
  Empty = Empty
  Rebuilds = {u1, u2, u3}
  MaxFaults = 2
INVARIANT TypeOK
INVARIANT OneKey
INVARIANT SignedHasPublic
PROPERTY FirstUseCompletes

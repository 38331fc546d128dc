SPECIFICATION Spec
CONSTANTS
  None = None
  Spellings = {"amd64", "x86_64", "any"}
  Canonical <- MCCanonical
  ArchRank <- MCArchRank
  Channels <- MCChannels
  ChannelRank <- MCChannelRank
  Slots = {0, 1}
  Versions <- MCVersions
  Filenames = {1, 2}
  Sources <- MCSources
  Uploads <- MCUploads
  MaxTime = 2
INVARIANT TypeOK
INVARIANT MissingMeansNoBuild
INVARIANT BuiltMeansBuilt
INVARIANT OrphanNeverBehind
INVARIANT ReceiptAgreesWithPage
PROPERTY OldRebuildKeepsStates

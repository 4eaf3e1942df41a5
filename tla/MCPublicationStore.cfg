SPECIFICATION MCSpec
CONSTANTS
  Chunks = {c1, c2}
  Manifests = {signed, unsigned}
  None = None
INVARIANTS
  TypeOK
  MarkerMeansVerified
  ReceiptsAreDurable
  ListedIfHeld
PROPERTIES
  DownloadNotLost
  ImplementsVerifiedStore

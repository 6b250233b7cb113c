CONSTANTS
  Peers = {p, q}
  Hashes = {h1, h2}
  h1 = h1
  h2 = h2
  Fate <- MCFate
  MaxTxAnnounces = 2
  MaxTxRetrievals = 2
  MaxNotices = 2
  MaxBroadcasts = 1
  MaxDrops = 1
  None = None
SPECIFICATION FairSpec
INVARIANTS
  OneStage
  FetchedIsRequested
PROPERTY NothingStuck
CHECK_DEADLOCK FALSE

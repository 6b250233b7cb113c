CONSTANTS
  a = a
  b = b
  c = c
  m1 = m1
  m2 = m2
  Live = {a, b}
  Epoch = 2
  Gap = 1
  Rounds <- MCRounds
  Masternodes <- MCMasternodes
  Candidates <- MCMasternodes
  CertNum = 667
  CertDen = 1000
  TimeoutSyncThreshold = 2
  MaxRound = 3
  SameHead <- MCSameHead
  LowHead <- MCLowHead
  OneCollector = {a}
  NoCollector = {}
  Nodes = {a, b, c}
  Links <- MCLinks
  Msgs = {m1, m2}
  Author <- MCAuthor
  BlockOf <- MCBlockOf
  Size <- MCSize
  Start <- MCStart
  Tip = 5
  MaxBlockDist = 1
  MaxQueuedMsgs = 2
  MaxQueuedBytes = 2
  MaxQueuedMsgSize = 2
  MaxSyncs = 1
  MaxStops = 1
SPECIFICATION FairSpec
INVARIANT
  GossipIsSound
PROPERTIES
  RoundsEnd
  EveryNodeHandles
  VoteReturnsAfterStop
CHECK_DEADLOCK FALSE

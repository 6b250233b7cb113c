CONSTANTS
  m1 = m1
  m2 = m2
  Masternodes = {m1, m2}
  Faulty = {m2}
  CertThreshold = 667
  MaxRound = 3
  Forks = 1
  MasternodeList <- List2
  Epoch = 900
  TimeoutSyncThreshold = 1
  PoolHygieneRound = 0
SPECIFICATION Spec
INVARIANT
  CommitIsThreeChain
PROPERTIES
  EngineNeverRegresses
  EarlyVotesAreKept
  ImplementsSafeVoting
CHECK_DEADLOCK FALSE

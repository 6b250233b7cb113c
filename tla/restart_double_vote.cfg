CONSTANTS
  m1 = m1
  m2 = m2
  Masternodes = {m1, m2}
  Faulty = {m2}
  CertThreshold = 667
  MaxRound = 2
  Forks = 2
  MasternodeList <- List2
  Epoch = 900
  TimeoutSyncThreshold = 2
  PoolHygieneRound = 5
SPECIFICATION RestartSpec
INVARIANT OneVotePerRound
CHECK_DEADLOCK FALSE

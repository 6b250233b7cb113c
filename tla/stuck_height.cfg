CONSTANTS
  m1 = m1
  m2 = m2
  Masternodes = {m1, m2}
  Faulty = {}
  CertThreshold = 667
  MaxRound = 3
  Forks = 1
  MasternodeList <- List2
  Epoch = 900
  TimeoutSyncThreshold = 1
  PoolHygieneRound = 5
SPECIFICATION Spec
INVARIANT NextProposalIsHandled
CHECK_DEADLOCK FALSE

CONSTANTS
  m1 = m1
  m2 = m2
  m3 = m3
  m4 = m4
  Masternodes = {m1, m2, m3, m4}
  Faulty = {m4}
  CertThreshold = 667
  MaxRound = 1
  Forks = 1
  Params <- MCParams
  MaxInt = 127
  MaxPower = 20
  UpperBound = 4
  LastRound = 7
  Addrs = {acc}
  Keys = {slot}
  TwoAddrs = {acc, acc2}
  TwoKeys = {slot, slot2}
  Codes = {code}
  Vals = {0, 1}
  MaxBalance = 1
  None = None
  Unset = Unset
  ann = ann
  bob = bob
  mia = mia
  r1 = r1
  r2 = r2
  Users = {ann, bob}
  Relayers = {r1, r2}
  Relayer <- MCRelayer
  Owner <- MCOwner
  Prices = {20, 30}
  Quantities = {1, 3}
  MaxOrders = 3
  FeeRate <- MCFeeRate
  BaseFee = 10
  DefaultFeeRate = 1
  RelayerFee = 1
  RelayerCancelFee = 1
  Locked = 3
  BaseDecimal = 2
  QuoteDecimal = 2
  QuotePrice = 3
  Funds <- MCFunds
  Deposit <- MCDeposit
SPECIFICATION Spec
INVARIANT FeesArrive
CHECK_DEADLOCK FALSE

\* Handlers and the callbacks of the countdown change rounds under x.lock, and
\* StopTimer stops the countdown that the next Reset starts again.
CONSTANTS
  Free = Free
  Off = Off
  x1 = x1
  x2 = x2
  b1 = b1
  b2 = b2
  Handlers = {x1, x2}
  Callbacks = {b1, b2}
  LockedStarters = {s1}
  LazyStarters = {}
  Stoppers = {q1}
  MaxRound = 3
  Starters = {"s1"}
  MaxSyncs = 1
  MaxFlips = 2
  MaxWork = 1
SPECIFICATION FairSpec
INVARIANTS
  CountsCurrentRound
  OneLoopWhenMining
  NothingSealsWhenStopped
PROPERTIES
  ImplementsRoundTimer
  EveryResetReturns
  KeepsCallingBack
  LockIsReleased
  ResumesAfterSync
CHECK_DEADLOCK FALSE

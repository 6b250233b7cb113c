\* initial() from the startup path, under x.lock, and from verifyHeader.
CONSTANTS
  Free = Free
  Off = Off
  Handlers = {x1}
  Callbacks = {b1}
  LockedStarters = {s1}
  LazyStarters = {z1}
  Stoppers = {}
  MaxRound = 1
SPECIFICATION TimerSpec
INVARIANT OneTimer
CHECK_DEADLOCK FALSE

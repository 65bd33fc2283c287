\* A second start() finds the notification of the first stop().
SPECIFICATION Spec
CONSTANTS
  Threads = {owner, other}
  Owner = owner
  Callbacks = {f}
  NoFunc = NoFunc
  MaxId = 3
  IdSets <- ValidIdSets
  BusIds = {1}
  Fds = {5}
  EventFd = 4
  MaxFrames = 1
  MaxWakeups = 1
INVARIANT NoPhantomCallback
CHECK_DEADLOCK FALSE

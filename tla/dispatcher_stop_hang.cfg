\* A stop() that meets the reading of a stale notification.
SPECIFICATION FairSpec
CONSTANTS
  Threads = {owner, other}
  Owner = owner
  Callbacks = {f}
  NoFunc = NoFunc
  MaxId = 3
  IdSets <- ValidIdSets
  BusIds = {1}
  Fds = {5}
  EventFd = 4
  MaxFrames = 1
  MaxWakeups = 2
PROPERTY StopReturns
CHECK_DEADLOCK FALSE

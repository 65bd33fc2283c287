\* A registration with an id outside the table.
SPECIFICATION FairSpec
CONSTANTS
  Threads = {owner, other}
  Owner = owner
  Callbacks = {f}
  NoFunc = NoFunc
  MaxId = 3
  IdSets <- AllIdSets
  BusIds = {1}
  Fds = {5}
  EventFd = 4
  MaxFrames = 1
  MaxWakeups = 1
PROPERTY DispatchProgress
CHECK_DEADLOCK FALSE

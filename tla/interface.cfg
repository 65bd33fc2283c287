\* Both types of interface, one thread, one descriptor number, a device that is
\* created twice.
SPECIFICATION InterfaceFairSpec
CONSTANTS
  Threads = {owner}
  Owner = owner
  Callbacks = {f}
  NoFunc = NoFunc
  MaxId = 3
  IdSets <- ValidIdSets
  BusIds = {1, 3}
  Fds = {5}
  EventFd = 4
  MaxFrames = 1
  MaxWakeups = 2
  Kinds <- TwoKinds
  MaxIndex = 2
INVARIANTS InterfaceTypeOK UpMeansReceiving DownMeansQuiet AtMostOnePhantom StopNotLost
PROPERTIES CleanStopCompletes Drained
CHECK_DEADLOCK FALSE

\* Two application threads and two descriptor numbers, one of them 0: a new socket
\* gets the number of the old one or not, and a socket numbered 0 stays open.  The
\* frames have an id outside the table, the notification's count is one inside.
SPECIFICATION Spec
CONSTANTS
  Threads = {owner, other}
  Owner = owner
  Callbacks = {f}
  NoFunc = NoFunc
  MaxId = 2
  IdSets <- AllIdSets
  BusIds = {2}
  Fds = {0, 5}
  EventFd = 4
  MaxFrames = 2
  MaxWakeups = 1
INVARIANTS TypeOK MutualExclusion QuietAfterStop
PROPERTIES InOrder StopAdvances Implements
CHECK_DEADLOCK FALSE

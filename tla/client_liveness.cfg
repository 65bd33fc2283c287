\* One thread, whose abandoned connections fill the backlog; the signal arrives
\* where the main thread holds no lock.
SPECIFICATION ClientFairSpec
CONSTANTS
  proc1 = proc1  thr1 = thr1  thr2 = thr2
  Pids = {proc1}
  NoPid = NoPid
  Clients = {thr1}
  PidOf <- OneThread
  Backlog = 0
  SignalPcs = {"check", "accept", "recv", "lock"}
  SpawnFails = FALSE
  MaxDials = 4
  MaxStarts = 2
PROPERTIES CallReturns ShutdownCompletes DeadClientCleaned
CHECK_DEADLOCK FALSE

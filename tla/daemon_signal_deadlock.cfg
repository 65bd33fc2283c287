\* The signal may also arrive while the main thread holds sessions_mutex_.
SPECIFICATION FairSpec
CONSTANTS
  proc1 = proc1  proc2 = proc2  thr1 = thr1  thr2 = thr2
  Pids = {proc1}
  NoPid = NoPid
  Clients = {thr1}
  PidOf <- OneThread
  Backlog = 0
  SignalPcs = {"check", "accept", "recv", "lock", "lookup", "spawn", "reply"}
  SpawnFails = FALSE
  MaxDials = 1
  MaxStarts = 1
PROPERTY ShutdownCompletes
CHECK_DEADLOCK FALSE

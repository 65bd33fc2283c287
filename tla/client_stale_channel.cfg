\* A client that outlives its session.
SPECIFICATION ClientSpec
CONSTANTS
  proc1 = proc1  thr1 = thr1  thr2 = thr2
  Pids = {proc1}
  NoPid = NoPid
  Clients = {thr1}
  PidOf <- OneThread
  Backlog = 0
  SignalPcs = {"check", "accept", "recv", "lock"}
  SpawnFails = FALSE
  MaxDials = 3
  MaxStarts = 1
PROPERTY RecoversAfterRefusal
CHECK_DEADLOCK FALSE

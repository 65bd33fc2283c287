\* Two threads of one process, whose number may be reused; the daemon ends by a crash
\* and is started again.
SPECIFICATION ClientSpec
CONSTANTS
  proc1 = proc1  thr1 = thr1  thr2 = thr2
  Pids = {proc1}
  NoPid = NoPid
  Clients = {thr1, thr2}
  PidOf <- OneProcess
  Backlog = 1
  SignalPcs = {}
  SpawnFails = TRUE
  MaxDials = 3
  MaxStarts = 2
SYMMETRY ThreadSymmetry
INVARIANTS ClientTypeOK ResponseMeansProcessed ProcessedOnce
CHECK_DEADLOCK FALSE

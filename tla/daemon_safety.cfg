\* Two client processes, every place for the signal, a crash and a restart.
SPECIFICATION Spec
CONSTANTS
  proc1 = proc1  proc2 = proc2  thr1 = thr1  thr2 = thr2
  Pids = {proc1, proc2}
  NoPid = NoPid
  Clients = {thr1, thr2}
  PidOf <- TwoProcesses
  Backlog = 1
  SignalPcs = {"check", "accept", "recv", "lock", "lookup", "spawn", "reply"}
  SpawnFails = TRUE
  MaxDials = 2
  MaxStarts = 2
INVARIANTS TypeOK SessionsGuarded NoUseAfterFree ShutdownClean OneDeadlock
PROPERTY ShutdownAdvances
CHECK_DEADLOCK FALSE

SPECIFICATION MCSpec
CONSTANTS
  KeepAliveTTL = 3
  KeepAliveInterval = 2
  RPCTimeout = 2
  InitTTL = 3
  MaxClock = 14
  MaxTerm = 2
  WorkerTimeoutDuration = 6
  WorkerTimeoutGracefulDuration = 2
  WorkerHeartbeatInterval = 2
  Nodes = {n1, n2}
  MaxNow = 10
  MaxEpoch = 2
  MaxInFlight = 1
SYMMETRY NodeSymmetry
CONSTRAINT WorkerAlive
INVARIANT
  ExpiredMeansStopped
PROPERTIES
  TimeoutAfterSuicide
  WaitOutlivesOldLease
CHECK_DEADLOCK FALSE

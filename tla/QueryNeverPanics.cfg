SPECIFICATION Spec
CONSTANTS
  j1 = j1
  e1 = e1
  e2 = e2
  NoEntry = NoEntry
  WorkerID <- MCWorkerID
  Entry <- MCEntry
  IdOf <- MCIdOf
  QueueCap = 2
  MaxEpoch = 1
INVARIANT QueryNeverPanics
CONSTRAINT NoPause
CHECK_DEADLOCK FALSE

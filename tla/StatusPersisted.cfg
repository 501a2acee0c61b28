SPECIFICATION MCSpec
CONSTANTS
  w1 = w1
  w2 = w2
  e1 = e1
  e2 = e2
  NoEntry = NoEntry
  WorkerID <- MCWorkerID
  Entry <- MCEntry
  IdOf <- MCIdOf
  QueueCap = 2
  MaxEpoch = 2
INVARIANT
  StatusPersisted
CHECK_DEADLOCK FALSE

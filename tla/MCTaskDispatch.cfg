SPECIFICATION MCSpec
CONSTANTS
  t1 = t1
  t2 = t2
  r1 = r1
  r2 = r2
  r3 = r3
  r4 = r4
  d1 = d1
  d2 = d2
  NoContainer = NoContainer
  NoDispatch = NoDispatch
  Task <- MCTask
  Container <- MCContainer
  TaskOf <- MCTaskOf
  Dispatch <- MCDispatch
  WorkerOf <- MCWorkerOf
  InQueueSize = 1
  InitConcurrency = 1
INVARIANTS
  EntryOwned
  QuotaHeldByInit
  CountMatches
  QuietAfterRun
  MapsAgree
  AbortedNeverRuns
  AtMostOneLaunch
  SuccessIsAccepted
  NoDuplicateRequest
PROPERTIES
  RunTerminates
  DispatchKept
  PendingDrains

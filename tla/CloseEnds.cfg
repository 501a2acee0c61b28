SPECIFICATION MCSpec
CONSTANTS
  x1 = x1
  x2 = x2
  Worker = {w1, w2, w3}
  Exec = {x1, x2}
  Resource <- MCResource
  Task = {"s1"}
  JobName = "job"
  None = None
  MaxLostReplies = 1
  MaxFaults = 1
  MaxRestarts = 1
PROPERTY
  CloseEnds
CHECK_DEADLOCK FALSE

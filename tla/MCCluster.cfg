SPECIFICATION MCSpec
CONSTANTS
  s1 = s1
  s2 = s2
  e1 = e1
  e2 = e2
  Server = {s1, s2}
  NoServer = NoServer
  MaxFaults = 4
  Manager = {s1, s2}
  Exec = {e1, e2}
  Resource = {r1, r2}
  None = None
  MaxTerms = 2
  MaxLost = 1
INVARIANTS
  ForwardsToLeader
  KnownHasCapacity
  PlacedWithData
PROPERTIES
  LeadershipKept
  LedWhileSessionsHold
  UpIsKnown
CHECK_DEADLOCK FALSE

CONSTANTS
  a = a
  b = b
  d = d
  s1 = s1
  s2 = s2
  Tasks = {a, b, d}
  CPUs = {0, 1}
  Leaders = {a}
  Spaces = {s1, s2}
  Space <- SpaceAB
  Weights = {0, 3}
  Pinnable = TRUE
  Nesting = TRUE
  Idle = Idle
  NoCpu = NoCpu
SPECIFICATION Spec
INVARIANTS
  QueueConsistent
  OneCpuPerTask
  RequestDelivered
  KillDelivered
  NoIdleWithWork
  NoLostWakeup
  LoadConsistent
PROPERTIES
  MovesImproveBalance
  PinnedStays
CONSTRAINT OneApart
CHECK_DEADLOCK TRUE

CONSTANTS
  a = a
  b = b
  d = d
  s1 = s1
  s2 = s2
  Tasks = {a, b}
  CPUs = {0, 1}
  Leaders = {a}
  Spaces = {s1, s2}
  Space <- SpaceOf2
  Weights = {1}
  Pinnable = FALSE
  Nesting = TRUE
  Idle = Idle
  NoCpu = NoCpu
SPECIFICATION FairSpec
PROPERTIES
  RequestServed

CHECK_DEADLOCK TRUE

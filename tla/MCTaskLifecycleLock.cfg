CONSTANTS
  CPUs = {c0, c1}
  c0 = c0
  c1 = c1
  Slots = {1, 2, 3}
  MaxGen = 1
  MaxDepth = 2
  Idle = Idle
  NoCpu = NoCpu
SPECIFICATION FairSpec
INVARIANTS
  GroupLockOwned
CHECK_DEADLOCK TRUE
PROPERTIES
  TerminationCompletes

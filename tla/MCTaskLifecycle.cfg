CONSTANTS
  CPUs = {c0, c1}
  c0 = c0
  c1 = c1
  Slots = {1, 2, 3}
  MaxGen = 2
  MaxDepth = 0
  Idle = Idle
  NoCpu = NoCpu
SPECIFICATION Spec
INVARIANTS
  StackSafe
  NoSlotLost
  LeaderOutlives
  JoinerHasTarget
  DeferredHasThread
  ParentLives
SYMMETRY Symmetry
CHECK_DEADLOCK TRUE

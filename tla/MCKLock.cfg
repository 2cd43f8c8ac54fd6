CONSTANTS
  t1 = t1
  t2 = t2
  t3 = t3
  t4 = t4
  Tasks = {t1, t2, t3, t4}
  NULL = NULL
  Killable = {"blocked"}
SPECIFICATION FairSpec
INVARIANTS
  ListShape
  NoStrandedWaiter
PROPERTIES
  FreeLockTaken
  ImplementsWaitQueue
CHECK_DEADLOCK TRUE

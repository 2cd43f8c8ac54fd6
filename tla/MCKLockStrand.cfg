CONSTANTS
  t1 = t1
  t2 = t2
  t3 = t3
  t4 = t4
  Tasks = {t1, t2, t3}
  NULL = NULL
  Killable = {"blocked", "runnable"}
SPECIFICATION Spec
INVARIANTS
  NoStrandedWaiter
CHECK_DEADLOCK TRUE

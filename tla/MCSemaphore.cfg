CONSTANTS
  Threads = {t1, t2, t3}
  Addresses = {word}
  Word = word
  NULL = null
  MaxTime = 1
  ValueMax = 3
  Limits = {1}
SPECIFICATION FairSpec
CHECK_DEADLOCK FALSE
INVARIANTS TypeOK NoStrandedWaiter
PROPERTIES
  TokensTaken

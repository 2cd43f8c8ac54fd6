CONSTANTS
  Threads = {t1, t2, t3}
  Addresses = {word}
  Word = word
  NULL = null
  MaxTime = 2
  MutexTypes = {"normal", "recursive", "errorcheck"}
  MaxDepth = 2
  Limits = {1, 2}
SPECIFICATION FairSpec
CHECK_DEADLOCK FALSE
INVARIANTS MutualExclusion OwnerIsHolder NoStrandedSleeper
PROPERTIES
  FreeMutexTaken

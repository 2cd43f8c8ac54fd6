CONSTANTS
  a = a
  b = b
  Tasks = {a, b}
  MaxGen = 2
  Capacity = 1
  MaxCalls = 2
  Ticks = {1}
  CallTicks = {1}
  Any = Any
SPECIFICATION FairSpec
INVARIANTS
  BlockedForCause
  RecordOnStack
  AnswerIsForCall
PROPERTIES
  CallReturns
CHECK_DEADLOCK FALSE

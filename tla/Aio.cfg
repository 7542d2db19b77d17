CONSTANTS
  t1 = t1
  t2 = t2
  t3 = t3
  Tasks = {t1, t2, t3}
  None = None
  Dead = Dead
  MaxCancels = 2
  MaxValue = 2
  maxsize = 1
  MaxPuts = 3
SPECIFICATION Spec
INVARIANTS TaskScheduled Exclusive NoWakeupLost ItemsKept
CHECK_DEADLOCK FALSE

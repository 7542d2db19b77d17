CONSTANTS
  t1 = t1
  t2 = t2
  t3 = t3
  i1 = i1
  Threads = {t1, t2, t3}
  Items = {i1}
  maxsize = 2
  PutItem <- DequeAppend
  GetItem <- DequePopLeft
  Disciplined = TRUE
  MaxTasks = 6
  MaxLost = 1
SPECIFICATION FairSpec
INVARIANTS IInv NoLostItem
PROPERTIES JoinMeansDone CallersServed JoinReturns
CHECK_DEADLOCK FALSE

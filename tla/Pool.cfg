CONSTANTS
  f1 = f1
  f2 = f2
  c1 = c1
  c2 = c2
  w1 = w1
  w2 = w2
  None = None
  Futures = {f1, f2}
  Clients = {c1, c2}
  Executors = {w1, w2}
  MaxCalls = 2
  Programs <- AllPrograms
SPECIFICATION FairSpec
INVARIANTS CallbacksOnce WaiterWillWake AnswersTrue ShutdownMeansDone
PROPERTIES ImplementsFutures EveryCallReturns
CHECK_DEADLOCK FALSE

CONSTANTS
  t1 = t1
  t2 = t2
  t3 = t3
  None = None
  Threads = {t1, t2, t3}
  Uses <- Everyone
  MaxDepth = 2
SPECIFICATION FairSpec
INVARIANTS WaitersSound
PROPERTIES ImplementsMonitor NotifiedReturns
CHECK_DEADLOCK FALSE

CONSTANTS
  t1 = t1
  t2 = t2
  t3 = t3
  a = a
  b = b
  None = None
  Threads = {t1, t2}
  Locks = {a, b}
  MaxImports = 2
SPECIFICATION FairSpec
PROPERTIES AcquireReturns

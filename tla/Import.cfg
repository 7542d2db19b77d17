CONSTANTS
  a = a
  b = b
  t1 = t1
  t2 = t2
  t3 = t3
  None = None
  Dead = Dead
  LockIds <- Locks
  Threads = {t1, t2, t3}
  Names = {a, b}
  Programs <- AllPrograms
SPECIFICATION Spec
INVARIANTS  LocksKept 
SYMMETRY Symmetry
CHECK_DEADLOCK FALSE

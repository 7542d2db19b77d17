CONSTANTS
  t1 = t1
  t2 = t2
  t3 = t3
  a = a
  b = b
  c = c
  None = None
  Threads = {t1, t2, t3}
  Locks = {a, b, c}
  MaxImports = 2
SPECIFICATION Spec
INVARIANTS IInv NoCircle
PROPERTIES RefusedBetween
SYMMETRY Symmetry

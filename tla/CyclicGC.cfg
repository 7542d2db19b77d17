CONSTANTS
  a = a
  b = b
  c = c
  wr = wr
  Objects = {a, b, c}
  Weakrefs = {wr}
  Nodes = {a, b, c, wr}
  None = None
  MaxWork = 4
  MaxCollects = 1
  MaxEdges = 3
  MaxRoots = 1
  MaxOdd = 2
  MaxLive = 3
SYMMETRY Symmetry
SPECIFICATION MCSpec
INVARIANT RefcountsTrue
INVARIANT TrashIsTrash
INVARIANT PythonSeesWhole
INVARIANT CalledOnce
PROPERTY Reclaims

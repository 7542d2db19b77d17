CONSTANTS
  m = m
  t1 = t1
  t2 = t2
  None = None
  AllThreads = {m, t1, t2}
  Main = m
  Daemons = {}
  StarterSets <- MainOrAll
  MaxCalls <- FewCalls
SPECIFICATION FairLifeSpec
INVARIANT EndsAreTrue
CHECK_DEADLOCK FALSE
PROPERTY CallsReturn

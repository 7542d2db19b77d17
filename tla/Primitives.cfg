CONSTANTS
  t1 = t1
  t2 = t2
  t3 = t3
  t4 = t4
  Threads = {t1, t2, t3, t4}
  MaxValue = 2
  Parties = 3
SPECIFICATION FairSpec
INVARIANTS NoLostWakeup PermitsKept CyclesApart
PROPERTIES TripIsFinal Drains
CHECK_DEADLOCK FALSE

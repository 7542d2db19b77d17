--------------------------- MODULE MCImportLocks ---------------------------
(* Instances of ImportLocks for TLC: which programs run.                   *)
EXTENDS ImportLocks, TLC

CONSTANTS a, b, t1, t2

\* More than the threads' imports can refer to at a time.
Locks == 1..(Cardinality(Threads) * (Cardinality(Names) + 1))

NoNames == [n \in Names |-> None]
Chain == [n \in Names |-> IF n = a THEN b ELSE None]
EachThread(k) == [t \in Threads |-> k]
TwoThreads(k) == [t \in Threads |-> IF t \in {t1, t2} THEN k ELSE 0]

\* a imports b.
StraightProgram(mayFail, asks) ==
  [parent |-> NoNames, imports |-> Chain, mayFail |-> mayFail, asks |-> asks]

\* a imports b and b imports a.
CircularProgram(asks) ==
  [parent |-> NoNames, imports |-> (a :> b) @@ (b :> a), mayFail |-> FALSE, asks |-> asks]

\* b is a submodule of the package a, whose body imports it.
PackageProgram(mayFail, asks) ==
  [parent |-> [n \in Names |-> IF n = b THEN a ELSE None], imports |-> Chain,
   mayFail |-> mayFail, asks |-> asks]

AllPrograms ==
  {StraightProgram(FALSE, EachThread(1)), StraightProgram(TRUE, TwoThreads(2)),
   CircularProgram(TwoThreads(2)),
   PackageProgram(FALSE, TwoThreads(2)), PackageProgram(TRUE, TwoThreads(1))}

OnlyFailing == {StraightProgram(TRUE, TwoThreads(1))}

Symmetry == Permutations({t1, t2})
=============================================================================

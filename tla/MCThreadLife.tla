---------------------------- MODULE MCThreadLife ----------------------------
(* Instances of ThreadLife for TLC: who starts threads.                    *)
EXTENDS ThreadLife, TLC

CONSTANTS m, t1, t2

MainOrAll == {{Main}, AllThreads}
All == {AllThreads}
FewCalls == [t \in AllThreads |-> IF t = m THEN 2 ELSE 1]
=============================================================================

---------------------------- MODULE MCCondition ----------------------------
(* Instances of Condition for TLC; the constants are in the .cfg files.    *)
EXTENDS Condition, TLC

\* Over an RLock anybody may call; over a plain Lock all callers hold it.  One
\* of the threads is the main thread.
Everyone ==
  LET main == CHOOSE t \in Threads : TRUE IN
  {[reentrant |-> TRUE, undisciplined |-> Threads, main |-> main],
   [reentrant |-> FALSE, undisciplined |-> {}, main |-> main]}
=============================================================================

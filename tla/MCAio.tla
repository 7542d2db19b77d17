------------------------------- MODULE MCAio -------------------------------
(***************************************************************************)
(* Tasks of one event loop that share a lock with a condition, a           *)
(* semaphore, or a queue.                                                  *)
(***************************************************************************)
EXTENDS AioLocks, AioQueue

vars == <<tvars, kvars, qvars>>

NoLock ==
  /\ kind = "none" /\ initial = 0 /\ value = 0
  /\ waiters = <<>> /\ cwaiters = <<>> /\ inside = {} /\ bare = FALSE /\ missed = FALSE

Init == TasksInit /\ QueueInit /\ (LocksInit \/ NoLock)

Next ==
  \/ kind # "none" /\ LocksNext /\ UNCHANGED qvars
  \/ kind = "none" /\ QueueNext /\ UNCHANGED kvars
  \/ /\ \E t \in Tasks :
          \/ Continue(t) \/ Yield(t) \/ Cancel(t)
          \/ Return(t) /\ t \notin inside
     /\ UNCHANGED <<kvars, qvars>>

Spec == Init /\ [][Next]_vars

\* Type invariant, and the promise of each object that no wake-up is lost.
NoWakeupLost ==
  TasksTypeOK /\ LocksTypeOK /\ SomebodyWillRelease /\ NobodyBesideIt

\* What is true between any two steps: of the tasks, and of the object in use.
IInv ==
  /\ TasksSound
  /\ kind # "none" => LocksSound /\ QueueInit
  /\ kind = "none" => QueueSound /\ NoLock
=============================================================================

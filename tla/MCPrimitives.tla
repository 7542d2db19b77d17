--------------------------- MODULE MCPrimitives ---------------------------
(***************************************************************************)
(* The objects of threading.py that are built on one condition, each on    *)
(* its own: which of them it is never changes.                             *)
(***************************************************************************)
EXTENDS Signals, Barrier

vars == <<object, lvars, svars, bvars>>

IdleBarrier ==
  /\ state = 0 /\ count = 0
  /\ place = [t \in Threads |-> "out"]
  /\ index = [t \in Threads |-> 0]
  /\ cohort = {} /\ passed = {}

IdleSignal == value = 0 /\ initial = 0 /\ taken = 0

Init ==
  /\ LineInit
  /\ \/ SignalsInit /\ IdleBarrier
     \/ BarrierInit /\ IdleSignal

Next ==
  /\ UNCHANGED object
  /\ \/ object # "barrier" /\ SignalsNext /\ UNCHANGED bvars
     \/ object = "barrier" /\ BarrierNext /\ UNCHANGED svars
     \/ /\ \E t \in Threads : Expire(t) \/ RemoveSelf(t)
        /\ UNCHANGED <<svars, bvars>>

\* A thread that was woken, or whose wait() timed out, gets to run.
Resume(t) ==
  /\ UNCHANGED object
  /\ \/ object # "barrier" /\ Back(t) /\ SignalsResume(t) /\ UNCHANGED bvars
     \/ object = "barrier" /\ BarrierResume(t) /\ UNCHANGED svars
     \/ RemoveSelf(t) /\ UNCHANGED <<svars, bvars>>

Spec == Init /\ [][Next]_vars
FairSpec == Spec /\ \A t \in Threads : WF_vars(Resume(t))

\* Type invariant, and the promise of each object that no wake-up is lost.
NoLostWakeup ==
  LineTypeOK /\ SignalsTypeOK /\ BarrierTypeOK /\ NoLostPermit /\ NobodyStranded

\* What is true between any two steps.
IInv ==
  /\ object \in Semaphores \cup {"event", "barrier"}
  /\ LineSound /\ NoLostWakeup
  /\ object = "event" => value \in {0, 1}
  /\ PermitsKept /\ BarrierSound /\ CyclesApart
=============================================================================

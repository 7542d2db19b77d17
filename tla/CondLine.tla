----------------------------- MODULE CondLine -----------------------------
(***************************************************************************)
(* The waiters of one threading.Condition, for objects that use a single   *)
(* condition and hold its lock from end to end of every method, except in  *)
(* wait().  A step is one stretch under that lock; Condition.tla has the   *)
(* steps inside wait() and notify() and shows that they add up to these.   *)
(* One of them is that notify() raises: a wait() that timed out takes its  *)
(* waiter off without the lock, perhaps while notify() copies the list.    *)
(***************************************************************************)
EXTENDS Integers, FiniteSets, SequencesExt

CONSTANT Threads

ASSUME FiniteThreads == IsFiniteSet(Threads)

VARIABLES
  object, \* what the condition belongs to
  line,   \* Condition._waiters, oldest first
  phase,  \* how far each thread's wait() got
  timed,  \* has that wait() a timeout?
  missed  \* history: who sleeps since before a notify() that raised

lvars == <<line, phase, timed, missed>>

\* "asleep": blocked and listed; "expired": timed out, perhaps still listed;
\* "notified" and "left": not listed, on the way to the lock.
Phases == {"run", "asleep", "expired", "notified", "left"}

LineTypeOK ==
  /\ line \in Seq(Threads)
  /\ phase \in [Threads -> Phases]
  /\ timed \in [Threads -> BOOLEAN]
  /\ missed \subseteq Threads

LineInit ==
  /\ line = <<>>
  /\ phase = [t \in Threads |-> "run"]
  /\ timed = [t \in Threads |-> FALSE]
  /\ missed = {}

Asleep == {t \in Threads : phase[t] = "asleep"}
Back(t) == phase[t] \in {"notified", "left"}

\* t runs on, or leaves its method, after waking those of S who sleep, the
\* phases being p.
Wake(t, S, p) ==
  /\ phase' = [u \in Threads |->
                 CASE u = t -> "run"
                   [] u \in S /\ p[u] = "asleep" -> "notified"
                   [] OTHER -> p[u]]
  /\ timed' = [timed EXCEPT ![t] = FALSE]
  /\ missed' = missed \ S

NotifyNobody(t) == Wake(t, {}, phase) /\ UNCHANGED line

\* Whose remove() changes the deque l, so that an iterator over it raises: one
\* that finds its waiter there, or that turns the deque in search of it.
Disturbers(l, p) ==
  {u \in Threads : p[u] = "expired" /\ (u \in ToSet(l) \/ Len(l) > 1)}

\* notify() with the waiters l and the phases p raises and wakes nobody: a
\* wait() that timed out is through with its remove().
NotifyRaises(t, l, p) ==
  \E u \in Disturbers(l, p) :
    /\ line' = RemoveFirst(l, u)
    /\ phase' = [p EXCEPT ![u] = "left", ![t] = "run"]
    /\ timed' = [timed EXCEPT ![t] = FALSE]
    /\ missed' = Asleep

NotifyOne(t) ==
  \/ /\ Wake(t, IF line = <<>> THEN {} ELSE {Head(line)}, phase)
     /\ line' = IF line = <<>> THEN line ELSE Tail(line)
  \/ NotifyRaises(t, line, phase)

WakeAll(t, l, p) == Wake(t, ToSet(l), p) /\ line' = <<>>

NotifyAllFrom(t, l, p) == WakeAll(t, l, p) \/ NotifyRaises(t, l, p)

NotifyAll(t) == NotifyAllFrom(t, line, phase)

\* wait(timeout), up to the point where it blocks.
Sleep(t, hasTimeout) ==
  /\ line' = Append(line, t)
  /\ phase' = [phase EXCEPT ![t] = "asleep"]
  /\ timed' = [timed EXCEPT ![t] = hasTimeout]
  /\ UNCHANGED missed

\* The time is up: waiter.acquire(True, timeout) gives False.
Expire(t) ==
  /\ phase[t] = "asleep" /\ timed[t]
  /\ phase' = [phase EXCEPT ![t] = "expired"]
  /\ missed' = missed \ {t}
  /\ UNCHANGED <<line, timed>>

\* Without the lock: wait() takes its waiter off the list, if it is there.
RemoveSelf(t) ==
  /\ phase[t] = "expired"
  /\ line' = RemoveFirst(line, t)
  /\ phase' = [phase EXCEPT ![t] = "left"]
  /\ UNCHANGED <<timed, missed>>

\* Each thread is listed once; who sleeps is listed, and who is listed sleeps or
\* has just timed out.
LineSound ==
  /\ missed \subseteq Asleep
  /\ \A t \in Threads : phase[t] = "expired" => timed[t]
  /\ IsInjective(line)
  /\ \A t \in Threads : phase[t] = "asleep" => t \in ToSet(line)
  /\ \A t \in ToSet(line) : phase[t] \in {"asleep", "expired"}
=============================================================================

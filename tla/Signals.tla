------------------------------ MODULE Signals ------------------------------
(***************************************************************************)
(* threading.Semaphore, BoundedSemaphore and Event: a value, or a flag,    *)
(* and one condition.                                                      *)
(***************************************************************************)
EXTENDS CondLine

CONSTANT MaxValue \* bound on a semaphore's value
ASSUME MaxValuePositive == MaxValue \in Nat \ {0}

VARIABLES
  value,   \* Semaphore._value, or Event._flag as 0 or 1
  initial, \* the value the semaphore was made with
  taken    \* history: successful acquire() calls, less release() calls

svars == <<value, initial, taken>>

Semaphores == {"semaphore", "bounded"}

SignalsTypeOK ==
  /\ value \in 0..MaxValue
  /\ initial \in 0..MaxValue
  /\ taken \in -MaxValue..MaxValue

SignalsInit ==
  /\ object \in {"semaphore", "bounded", "event"}
  /\ initial \in IF object = "event" THEN {0} ELSE 0..MaxValue
  /\ value = initial
  /\ taken = 0

-----------------------------------------------------------------------------
(* Semaphore                                                               *)

\* MUTANT: `if` for `while`: who was woken does not look again.
SeenPositive(t) == value > 0 \/ Back(t)

Positive(t) == value > 0

AcquireNow(t) ==
  /\ object \in Semaphores
  /\ phase[t] = "run" \/ Back(t)
  /\ Positive(t)
  /\ value' = value - 1 /\ taken' = taken + 1
  /\ NotifyNobody(t)
  /\ UNCHANGED initial

\* The counter is 0: the call blocks, or blocks again with what is left of
\* its timeout.
AcquireWait(t, timeout) ==
  /\ object \in Semaphores
  /\ phase[t] = "run" \/ (Back(t) /\ timeout = timed[t])
  /\ ~Positive(t)
  /\ Sleep(t, timeout)
  /\ UNCHANGED svars

\* The counter is 0 and the time is up.
AcquireFails(t) ==
  /\ object \in Semaphores
  /\ Back(t) /\ timed[t]
  /\ ~Positive(t)
  /\ NotifyNobody(t)
  /\ UNCHANGED svars

\* release(); a BoundedSemaphore at its initial value raises ValueError.
Release(t) ==
  /\ object \in Semaphores
  /\ phase[t] = "run"
  /\ object = "bounded" => value < initial
  /\ value < MaxValue \* bound
  /\ value' = value + 1 /\ taken' = taken - 1
  /\ NotifyOne(t)
  /\ UNCHANGED initial

-----------------------------------------------------------------------------
(* Event: with the flag set, wait() returns at once and changes nothing.   *)

EventWait(t, timeout) ==
  /\ object = "event"
  /\ phase[t] = "run" /\ value = 0
  /\ Sleep(t, timeout)
  /\ UNCHANGED svars

\* wait() returns what Condition.wait() gave and does not look at the flag.
EventReturn(t) ==
  /\ object = "event"
  /\ Back(t)
  /\ NotifyNobody(t)
  /\ UNCHANGED svars

Set(t) ==
  /\ object = "event"
  /\ phase[t] = "run"
  /\ value' = 1
  /\ NotifyAll(t)
  /\ UNCHANGED <<initial, taken>>

Clear(t) ==
  /\ object = "event"
  /\ phase[t] = "run"
  /\ value' = 0
  /\ NotifyNobody(t)
  /\ UNCHANGED <<initial, taken>>

-----------------------------------------------------------------------------
SignalsResume(t) ==
  \/ AcquireNow(t) \/ AcquireWait(t, timed[t]) \/ AcquireFails(t)
  \/ EventReturn(t)

SignalsNext ==
  \E t \in Threads :
    \/ AcquireNow(t) \/ AcquireFails(t) \/ Release(t)
    \/ \E timeout \in BOOLEAN : AcquireWait(t, timeout) \/ EventWait(t, timeout)
    \/ EventReturn(t) \/ Set(t) \/ Clear(t)

-----------------------------------------------------------------------------
(* Who is on the way out of a wait() and no longer listed.                 *)
Coming == {t \in Threads : phase[t] \in {"expired", "notified", "left"}
                           /\ t \notin ToSet(line)}

\* Permits are neither forged nor lost: the value is always the initial one
\* less the acquire() calls that succeeded plus the release() calls, it is
\* never negative, and a BoundedSemaphore stays within its bound, whatever
\* newcomer takes the permit a woken thread was woken for.
PermitsKept ==
  object \in Semaphores =>
    /\ value >= 0
    /\ value = initial - taken
    /\ object = "bounded" => value <= initial

\* No wake-up is lost but by a notify() that raised: while anybody sleeps in
\* acquire() who was not asleep then, every free permit has a thread coming
\* for it, also when release() spent its notify() on a thread that had timed
\* out; and nobody else sleeps in Event.wait() while the flag is set.
NoLostPermit ==
  /\ object \in Semaphores /\ ~(Asleep \subseteq missed) =>
       value <= Cardinality(Coming)
  /\ object = "event" /\ value = 1 => Asleep \subseteq missed
=============================================================================

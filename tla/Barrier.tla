------------------------------ MODULE Barrier ------------------------------
(***************************************************************************)
(* threading.Barrier.  It fills until Parties threads are inside, then     *)
(* drains: nobody is let in before the last one has left.  reset() drains  *)
(* it with an exception, abort(), a timeout or a failing action breaks it. *)
(***************************************************************************)
EXTENDS CondLine

CONSTANT Parties
ASSUME PartiesPositive == Parties \in Nat \ {0}

VARIABLES
  state,  \* 0 filling, 1 draining, -1 resetting, -2 broken
  count,  \* the threads inside
  place,  \* "out", "enter" (asleep in _enter()) or "wait" (inside)
  index,  \* the index wait() will return
  cohort, \* history: who has arrived since the barrier last was ready
  passed  \* history: who of them has returned from wait() normally

bvars == <<state, count, place, index, cohort, passed>>

Inside == {t \in Threads : place[t] = "wait"}

BarrierTypeOK ==
  /\ state \in {-2, -1, 0, 1}
  /\ count \in 0..Cardinality(Threads)
  /\ place \in [Threads -> {"out", "enter", "wait"}]
  /\ index \in [Threads -> 0..Parties]
  /\ passed \subseteq cohort /\ cohort \subseteq Threads

BarrierInit ==
  /\ object = "barrier"
  /\ state = 0 /\ count = 0
  /\ place = [t \in Threads |-> "out"]
  /\ index = [t \in Threads |-> 0]
  /\ cohort = {} /\ passed = {}

-----------------------------------------------------------------------------
(* Pieces of wait().                                                       *)

\* t is at the top of _enter(): it calls wait(), or was woken in _enter().
AtEntry(t) == \/ place[t] = "out" /\ phase[t] = "run"
              \/ place[t] = "enter" /\ Back(t)

\* t was woken inside, in _wait().
Woken(t) == place[t] = "wait" /\ Back(t)

Goes(t) ==
  /\ place' = [place EXCEPT ![t] = "out"]
  /\ index' = [index EXCEPT ![t] = 0]

\* A new cycle begins when the state becomes 0 again.
History(arrived, gone) ==
  IF state' = 0 /\ state # 0
    THEN cohort' = {} /\ passed' = {}
    ELSE cohort' = cohort \cup arrived /\ passed' = passed \cup gone

\* `finally`: the count goes down to n, and the last one out of a barrier in
\* state s opens it again.
Exit(t, s, n) ==
  /\ count' = n
  /\ IF n = 0 /\ s \in {-1, 1}
       THEN state' = 0 /\ NotifyAll(t)
       ELSE state' = s /\ NotifyNobody(t)

\* MUTANT: only a draining barrier is opened, not one that was reset.
ExitOpensDraining(t, s, n) ==
  /\ count' = n
  /\ IF n = 0 /\ s = 1
       THEN state' = 0 /\ NotifyAll(t)
       ELSE state' = s /\ NotifyNobody(t)

Leave(t, s, n) == Exit(t, s, n)

\* MUTANT: a draining barrier lets threads in.
ClosedIfResetting == state = -1

Closed == state \in {-1, 1}

-----------------------------------------------------------------------------
(* wait()                                                                  *)

\* The barrier drains: block in _enter(), without the timeout.
EnterBlocks(t) ==
  /\ AtEntry(t) /\ Closed
  /\ Sleep(t, FALSE)
  /\ place' = [place EXCEPT ![t] = "enter"]
  /\ UNCHANGED <<state, count, index, cohort, passed>>

\* The barrier is broken: BrokenBarrierError.
EnterBroken(t) ==
  /\ AtEntry(t) /\ ~Closed /\ state < 0
  /\ NotifyNobody(t)
  /\ Goes(t)
  /\ UNCHANGED <<state, count, cohort, passed>>

\* Not the last one: block in _wait().
Arrive(t, timeout) ==
  /\ AtEntry(t) /\ ~Closed /\ state >= 0
  /\ count + 1 # Parties
  /\ count' = count + 1
  /\ index' = [index EXCEPT ![t] = count]
  /\ place' = [place EXCEPT ![t] = "wait"]
  /\ Sleep(t, timeout)
  /\ cohort' = cohort \cup {t}
  /\ UNCHANGED <<state, passed>>

\* The last one runs the action and releases the others; if the action raises,
\* or notify_all(), _break() breaks the barrier and notifies once more.
Trip(t, actionFails) ==
  /\ AtEntry(t) /\ ~Closed /\ state >= 0
  /\ count + 1 = Parties
  /\ count' = count
  /\ \/ /\ ~actionFails
        /\ state' = IF count = 0 THEN 0 ELSE 1
        /\ WakeAll(t, line, phase)
     \/ /\ ~actionFails
        /\ state' = -2
        /\ \E u \in Disturbers(line, phase) :
             NotifyAllFrom(t, RemoveFirst(line, u), [phase EXCEPT ![u] = "left"])
     \/ /\ actionFails
        /\ state' = -2
        /\ NotifyAll(t)
  /\ Goes(t)
  /\ cohort' = IF state' = 0 THEN {} ELSE cohort \cup {t}
  /\ passed' = IF state' = 1 THEN passed \cup {t} ELSE passed

\* Woken inside, and the state is not 0: return the index, or raise.
WaitReturns(t) ==
  /\ Woken(t) /\ state # 0
  /\ Leave(t, state, count - 1)
  /\ Goes(t)
  /\ History({}, IF state = 1 THEN {t} ELSE {})

\* wait_for(): the predicate is false and time is left.
WaitAgain(t) ==
  /\ Woken(t) /\ state = 0
  /\ Sleep(t, timed[t])
  /\ UNCHANGED bvars

\* MUTANT: a wait that expired breaks the barrier without a look at it.
OutOfTimeUnlooked(t) == Woken(t) /\ phase[t] = "left"

OutOfTime(t) == Woken(t) /\ state = 0 /\ timed[t]

\* wait_for() gives False: break the barrier and raise.
WaitTimesOut(t) ==
  /\ OutOfTime(t)
  /\ state' = -2
  /\ count' = count - 1
  /\ NotifyAll(t)
  /\ Goes(t)
  /\ UNCHANGED <<cohort, passed>>

-----------------------------------------------------------------------------
(* reset() and abort()                                                     *)

\* MUTANT: reset() readies the barrier at once.
ResetToFilling == 0

ResetState ==
  IF count > 0 THEN (IF state \in {0, -2} THEN -1 ELSE state) ELSE 0

Reset(t) ==
  /\ place[t] = "out"
  /\ state' = ResetState
  /\ NotifyAll(t)
  /\ History({}, {})
  /\ UNCHANGED <<count, place, index>>

Abort(t) ==
  /\ place[t] = "out"
  /\ state' = -2
  /\ NotifyAll(t)
  /\ UNCHANGED <<count, place, index, cohort, passed>>

-----------------------------------------------------------------------------
BarrierResume(t) ==
  \/ /\ place[t] = "enter"
     /\ \/ EnterBlocks(t) \/ EnterBroken(t)
        \/ Arrive(t, FALSE) \/ Trip(t, FALSE)
  \/ WaitReturns(t) \/ WaitAgain(t)

BarrierNext ==
  \E t \in Threads :
    \/ EnterBlocks(t) \/ EnterBroken(t)
    \/ \E timeout \in BOOLEAN : Arrive(t, timeout)
    \/ \E actionFails \in BOOLEAN : Trip(t, actionFails)
    \/ WaitReturns(t) \/ WaitAgain(t) \/ WaitTimesOut(t)
    \/ Reset(t) \/ Abort(t)

-----------------------------------------------------------------------------
\* Nobody is stranded but by a notify_all() that raised: once the barrier
\* stops filling everybody inside has been woken, they find it so when they
\* run, however many reset() and abort() calls come between, and nobody sleeps
\* before a broken barrier.  One that fills again has left nobody behind.
NobodyStranded ==
  object = "barrier" =>
    /\ state # 0 => Asleep \cap Inside \subseteq missed
    /\ \A t \in Inside : phase[t] = "notified" => state # 0
    /\ state = -2 => Asleep \subseteq Inside \cup missed
    /\ state = 0 => Asleep \subseteq Inside /\ missed = {}

\* Cycles do not mix: a thread returns normally only from a cycle in which
\* all the parties have arrived; while it drains nobody is inside but them;
\* the indices of those inside differ, and count is their number.
CyclesApart ==
  object = "barrier" =>
    /\ count = Cardinality(Inside)
    /\ Inside \subseteq cohort \ passed
    /\ passed # {} => Cardinality(cohort) = Parties
    /\ state = 1 => cohort = passed \cup Inside
    /\ state \in {0, 1} =>
         \A t, u \in Inside : t # u => index[t] # index[u]

\* Once the parties have met and been notified, only abort() can make one of
\* them fail: no timeout that expired meanwhile, no reset(), and no newcomer
\* breaks a barrier that drains.  (A timeout can while the last one of them
\* notifies the others: see Trip.)
TripIsFinal ==
  [][object = "barrier" /\ state = 1 /\ state' < 0
       => \E t \in Threads : Abort(t)]_<<lvars, bvars>>

\* A barrier that drains, or is reset, is ready again, unless abort() breaks
\* it, if those inside get to run; one that is reset may not be if a
\* notify_all() that raised left somebody asleep inside.
Drains ==
  (object = "barrier" /\ state \in {-1, 1})
    ~> (state \in {0, -2} \/ (state = -1 /\ missed \cap Inside # {}))

\* Who is in wait() sleeps or comes back, and only the wait inside is timed; a
\* barrier that fills holds only threads of its cycle, fewer than the parties;
\* one that drains is not empty.
BarrierSound ==
  object = "barrier" =>
    /\ \A t \in Threads : place[t] = "out" <=> phase[t] = "run"
    /\ \A t \in Threads : timed[t] => place[t] = "wait"
    /\ state = 0 => /\ cohort = Inside /\ passed = {} /\ count < Parties
                    /\ \A t \in Inside : index[t] < count
    /\ state = 1 => passed # {}
    /\ state \in {-1, 1} => count > 0
=============================================================================

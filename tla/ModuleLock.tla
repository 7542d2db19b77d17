----------------------------- MODULE ModuleLock ----------------------------
(***************************************************************************)
(* importlib's _ModuleLock: recursive locks, one per module, that refuse   *)
(* to wait when the wait would close a cycle.                              *)
(*                                                                         *)
(* A lock has two plain locks: "lock", a mutex for its fields, and         *)
(* "wakeup", held while the module lock is contended, through which        *)
(* waiters pass one after the other when the owner has left.  A thread     *)
(* announces what it waits for in _blocking_on before it looks; the walk   *)
(* over _blocking_on and the owners reads fields of OTHER locks without    *)
(* their mutexes, so each read is a step of its own.                       *)
(*                                                                         *)
(* Threads use the locks as nested imports do: the last one taken is the   *)
(* first one released.  An attempt that is refused leaves the thread with  *)
(* what it held before.                                                    *)
(***************************************************************************)
EXTENDS Naturals, SequencesExt

CONSTANTS
  Threads,
  Locks,       \* the module locks
  None,        \* "no thread", "no lock"
  MaxImports   \* bound on the acquire() calls of each thread

ASSUME ModuleLockAssumption ==
  /\ None \notin Threads /\ None \notin Locks
  /\ MaxImports \in Nat

VARIABLES
  mutex,        \* lock: who is inside the "with self.lock" of each lock
  wakeup,       \* is wakeup held?
  owner, count, waiters,  \* the fields of each lock
  blocking_on,  \* _blocking_on: what each thread is in acquire() for
  pc,           \* where each thread is
  tid,          \* has_deadlock(): the thread the walk has reached
  seen,         \* has_deadlock(): the lock that thread is blocking on
  withdrew,     \* history: who was refused and left, since each walk began
  stack,        \* the locks each thread has to release, last one first
  imports       \* how many times each thread has called acquire()

vars == <<mutex, wakeup, owner, count, waiters, blocking_on, pc, tid, seen,
          withdrew, stack, imports>>
fields == <<owner, count, waiters>>
reading == <<tid, seen, withdrew>>

\* "start": running; "enter": before "with self.lock"; "test", "walk", "hop",
\* "register": inside it; "sleep": before wakeup.acquire(); "pass": before
\* wakeup.release(); "got", "refused": before the del in the finally clause;
\* "error": wakeup.release() has raised.
Places == {"start", "enter", "test", "walk", "hop", "register", "sleep", "pass",
           "got", "refused", "error"}

\* Type invariant; waiters is a number in the code and never more than 1.
TypeOK ==
  /\ mutex \in [Locks -> Threads \cup {None}]
  /\ wakeup \in [Locks -> BOOLEAN]
  /\ owner \in [Locks -> Threads \cup {None}]
  /\ count \in [Locks -> Nat]
  /\ waiters \in [Locks -> 0..1]
  /\ blocking_on \in [Threads -> Locks \cup {None}]
  /\ pc \in [Threads -> Places]
  /\ tid \in [Threads -> Threads \cup {None}]
  /\ seen \in [Threads -> Locks \cup {None}]
  /\ withdrew \in [Threads -> SUBSET Threads]
  /\ stack \in [Threads -> Seq(Locks)]
  /\ imports \in [Threads -> 0..MaxImports]

Init ==
  /\ mutex = [l \in Locks |-> None]
  /\ wakeup = [l \in Locks |-> FALSE]
  /\ owner = [l \in Locks |-> None]
  /\ count = [l \in Locks |-> 0]
  /\ waiters = [l \in Locks |-> 0]
  /\ blocking_on = [t \in Threads |-> None]
  /\ pc = [t \in Threads |-> "start"]
  /\ tid = [t \in Threads |-> None]
  /\ seen = [t \in Threads |-> None]
  /\ withdrew = [t \in Threads |-> {}]
  /\ stack = [t \in Threads |-> <<>>]
  /\ imports = [t \in Threads |-> 0]

Goto(t, place) == pc' = [pc EXCEPT ![t] = place]

\* The lock thread t is in acquire() for.
Wanted(t) == blocking_on[t]

-----------------------------------------------------------------------------
(* acquire()                                                               *)

\* _blocking_on[tid] = self
Announce(t, l) ==
  /\ pc[t] = "start"
  /\ imports[t] < MaxImports
  /\ imports' = [imports EXCEPT ![t] = @ + 1]
  /\ blocking_on' = [blocking_on EXCEPT ![t] = l]
  /\ Goto(t, "enter")
  /\ UNCHANGED <<mutex, wakeup, fields, reading, stack>>

\* with self.lock:
Enter(t) ==
  /\ pc[t] = "enter"
  /\ mutex[Wanted(t)] = None
  /\ mutex' = [mutex EXCEPT ![Wanted(t)] = t]
  /\ Goto(t, "test")
  /\ UNCHANGED <<wakeup, fields, blocking_on, reading, stack, imports>>

\* The lock is free, or t's own: it is taken.
Take(t) ==
  LET l == Wanted(t) IN
  /\ pc[t] = "test"
  /\ count[l] = 0 \/ owner[l] = t
  /\ owner' = [owner EXCEPT ![l] = t]
  /\ count' = [count EXCEPT ![l] = @ + 1]
  /\ mutex' = [mutex EXCEPT ![l] = None]
  /\ Goto(t, "got")
  /\ UNCHANGED <<wakeup, waiters, blocking_on, reading, stack, imports>>

\* has_deadlock() begins with the owner of this lock.
StartWalk(t) ==
  LET l == Wanted(t) IN
  /\ pc[t] = "test"
  /\ count[l] # 0 /\ owner[l] # t
  /\ tid' = [tid EXCEPT ![t] = owner[l]]
  /\ withdrew' = [withdrew EXCEPT ![t] = {}]
  /\ Goto(t, "walk")
  /\ UNCHANGED <<mutex, wakeup, fields, blocking_on, seen, stack, imports>>

\* lock = _blocking_on.get(tid); the walk ends at a thread that waits for nothing.
Walk(t) ==
  LET l == IF tid[t] = None THEN None ELSE blocking_on[tid[t]] IN
  /\ pc[t] = "walk"
  /\ seen' = [seen EXCEPT ![t] = l]
  /\ Goto(t, IF l = None THEN "register" ELSE "hop")
  /\ UNCHANGED <<mutex, wakeup, fields, blocking_on, tid, withdrew, stack, imports>>

\* MUTANT: only the owner of the wanted lock is looked at.
HopOnce(t) ==
  /\ pc[t] = "hop"
  /\ tid' = [tid EXCEPT ![t] = owner[seen[t]]]
  /\ Goto(t, "register")
  /\ UNCHANGED <<mutex, wakeup, fields, blocking_on, seen, withdrew, stack, imports>>

\* MUTANT: an owner that waits for anything counts as a deadlock.
HopRefuses(t) ==
  /\ pc[t] = "hop"
  /\ Goto(t, "refused")
  /\ mutex' = [mutex EXCEPT ![Wanted(t)] = None]
  /\ UNCHANGED <<wakeup, fields, blocking_on, reading, stack, imports>>

\* tid = lock.owner; the walk ends when it comes back to t.
Hop(t) ==
  LET o == owner[seen[t]] IN
  /\ pc[t] = "hop"
  /\ tid' = [tid EXCEPT ![t] = o]
  /\ IF o = t
     THEN /\ Goto(t, "refused")
          /\ mutex' = [mutex EXCEPT ![Wanted(t)] = None]
     ELSE Goto(t, "walk") /\ UNCHANGED mutex
  /\ UNCHANGED <<wakeup, fields, blocking_on, seen, withdrew, stack, imports>>

\* The first waiter takes wakeup, so that the others have something to wait
\* for; the owner will release it.
Register(t) ==
  LET l == Wanted(t) IN
  /\ pc[t] = "register"
  /\ wakeup' = [wakeup EXCEPT ![l] = TRUE]
  /\ waiters' = [waiters EXCEPT ![l] = IF wakeup[l] THEN @ ELSE @ + 1]
  /\ mutex' = [mutex EXCEPT ![l] = None]
  /\ Goto(t, "sleep")
  /\ UNCHANGED <<owner, count, blocking_on, reading, stack, imports>>

\* wakeup.acquire() succeeds.
Wake(t) ==
  LET l == Wanted(t) IN
  /\ pc[t] = "sleep"
  /\ ~wakeup[l]
  /\ wakeup' = [wakeup EXCEPT ![l] = TRUE]
  /\ Goto(t, "pass")
  /\ UNCHANGED <<mutex, fields, blocking_on, reading, stack, imports>>

\* MUTANT: wakeup is not passed on.
PassNothing(t) ==
  /\ pc[t] = "pass"
  /\ Goto(t, "enter")
  /\ UNCHANGED <<mutex, wakeup, fields, blocking_on, reading, stack, imports>>

\* wakeup.release(), and round the loop again.
Pass(t) ==
  LET l == Wanted(t) IN
  /\ pc[t] = "pass"
  /\ wakeup' = [wakeup EXCEPT ![l] = FALSE]
  /\ Goto(t, IF wakeup[l] THEN "enter" ELSE "error")
  /\ UNCHANGED <<mutex, fields, blocking_on, reading, stack, imports>>

\* finally: del _blocking_on[tid]; acquire() returns or raises _DeadlockError.
Leave(t) ==
  /\ pc[t] \in {"got", "refused"}
  /\ blocking_on' = [blocking_on EXCEPT ![t] = None]
  /\ stack' = [stack EXCEPT ![t] = IF pc[t] = "got" THEN <<Wanted(t)>> \o @ ELSE @]
  /\ tid' = [tid EXCEPT ![t] = None]
  /\ seen' = [seen EXCEPT ![t] = None]
  /\ withdrew' = [u \in Threads |->
       IF u = t THEN {}
       ELSE IF pc[t] = "refused" /\ pc[u] \in {"walk", "hop"} THEN withdrew[u] \cup {t}
       ELSE withdrew[u]]
  /\ Goto(t, "start")
  /\ UNCHANGED <<mutex, wakeup, fields, imports>>

-----------------------------------------------------------------------------
(* release()                                                               *)

\* One step: nobody else reads these fields inside the mutex, and a walk sees
\* the owner before or after.
Release(t) ==
  LET l == Head(stack[t])
      last == count[l] = 1
      wakes == last /\ waiters[l] > 0 IN
  /\ pc[t] = "start" /\ stack[t] # <<>>
  /\ mutex[l] = None
  /\ count' = [count EXCEPT ![l] = @ - 1]
  /\ owner' = [owner EXCEPT ![l] = IF last THEN None ELSE @]
  /\ waiters' = [waiters EXCEPT ![l] = IF wakes THEN @ - 1 ELSE @]
  /\ wakeup' = [wakeup EXCEPT ![l] = IF wakes THEN FALSE ELSE @]
  /\ Goto(t, IF wakes /\ ~wakeup[l] THEN "error" ELSE "start")
  /\ stack' = [stack EXCEPT ![t] = Tail(@)]
  /\ UNCHANGED <<mutex, blocking_on, reading, imports>>

-----------------------------------------------------------------------------
\* What t does without starting another import.
Proceed(t) ==
  \/ Enter(t) \/ Take(t) \/ StartWalk(t) \/ Walk(t) \/ Hop(t)
  \/ Register(t) \/ Wake(t) \/ Pass(t) \/ Leave(t) \/ Release(t)

Step(t) == Proceed(t) \/ \E l \in Locks : Announce(t, l)

\* All imports are done.
Finished ==
  /\ \A t \in Threads : pc[t] = "start" /\ stack[t] = <<>> /\ imports[t] = MaxImports
  /\ UNCHANGED vars

Next == (\E t \in Threads : Step(t)) \/ Finished

Spec == Init /\ [][Next]_vars

\* Threads run, the modules they load finish, and a plain lock that is freed
\* again and again is given to each thread that asks for it.
Fairness ==
  \A t \in Threads :
    WF_vars(Proceed(t)) /\ SF_vars(Enter(t)) /\ SF_vars(Wake(t)) /\ SF_vars(Release(t))

FairSpec == Spec /\ Fairness

-----------------------------------------------------------------------------
(* Properties.                                                             *)

\* How many times l is on the stack s.
Depth(l, s) == Cardinality({i \in DOMAIN s : s[i] = l})

\* A lock belongs to the thread that has it on its stack (or has just taken
\* it), as many times as count says.
OwnerHolds ==
  \A l \in Locks :
    /\ owner[l] = None <=> count[l] = 0
    /\ \A t \in Threads :
         (IF owner[l] = t THEN count[l] ELSE 0)
         = Depth(l, stack[t]) + (IF pc[t] = "got" /\ Wanted(t) = l THEN 1 ELSE 0)

\* No sleeper is forgotten: while somebody sleeps on a wakeup that is held, it
\* is held for an owner that will release it, or by a thread passing through;
\* and wakeup is never released when nobody holds it (RuntimeError).
SleeperWillWake ==
  /\ \A t \in Threads : pc[t] # "error"
  /\ \A l \in Locks :
       (\E t \in Threads : pc[t] = "sleep" /\ Wanted(t) = l) /\ wakeup[l] =>
         \/ waiters[l] = 1 /\ owner[l] # None
         \/ \E t \in Threads : pc[t] = "pass" /\ Wanted(t) = l

\* The owner, the count and the wake-up lock of each module lock fit the
\* threads that hold it and sleep on it.
LockSound == TypeOK /\ OwnerHolds /\ SleeperWillWake

\* The threads that sleep never wait for each other in a circle: the last one
\* to close it is refused, whatever changed under its walk.
NoCircle ==
  \A S \in SUBSET {t \in Threads : pc[t] = "sleep"} :
    S # {} => \E t \in S : owner[Wanted(t)] \notin S

\* A thread is refused only between others: what it wants is in the hands of
\* another, and the thread the walk ended at waits for what it holds, or has
\* itself been refused that since the walk began.  When the two are one thread,
\* as with two locks they always are, the refusal breaks a circle of two.  No
\* more can be said of longer walks, whose inner links may be out of date when
\* the last one is read.
RefusedBetween ==
  [][\A t \in Threads : pc[t] = "hop" /\ pc'[t] = "refused" =>
       /\ owner[Wanted(t)] \notin {None, t}
       /\ owner[seen[t]] = t
       /\ tid[t] # t
       /\ Wanted(tid[t]) = seen[t] \/ tid[t] \in withdrew[t]
    ]_vars

-----------------------------------------------------------------------------
(* The inductive invariant.                                                *)

\* A thread is between its announcement and the end of acquire() exactly while
\* _blocking_on has an entry for it, and inside a mutex only that of its lock.
InAcquire ==
  \A t \in Threads :
    /\ pc[t] = "start" <=> blocking_on[t] = None
    /\ \A l \in Locks :
         mutex[l] = t <=> blocking_on[t] = l /\ pc[t] \in {"test", "walk", "hop", "register"}

\* Who walks or registers has found the lock in the hands of another.
FoundOwned ==
  \A t \in Threads :
    /\ pc[t] \in {"walk", "hop", "register"} => owner[Wanted(t)] \notin {None, t}
    /\ pc[t] = "hop" => seen[t] # None

\* The walk reads other threads only, and what it has read of one that waits for
\* its own lock stands until that thread is refused: nobody else can hand out
\* the lock.
LastLinkStands ==
  \A t \in Threads : pc[t] \in {"walk", "hop"} =>
    /\ tid[t] # t
    /\ pc[t] = "hop" /\ owner[seen[t]] = t =>
         tid[t] \in Threads /\ (Wanted(tid[t]) = seen[t] \/ tid[t] \in withdrew[t])

\* wakeup is held for the owner, when waiters says so, or else by the one
\* thread that passes through.
WakeupHeld ==
  \A l \in Locks :
    LET passing == {t \in Threads : pc[t] = "pass" /\ Wanted(t) = l} IN
    /\ wakeup[l] <=> waiters[l] = 1 \/ passing # {}
    /\ waiters[l] = 1 => owner[l] # None /\ passing = {}
    /\ \A t, u \in passing : t = u

\* From the announcement on, until the lock is taken or refused.
Waiting == {t \in Threads : pc[t] \notin {"start", "got", "refused", "error"}}

\* The walk of t has not begun, or is still among the threads of S.
Looks(t, S) ==
  \/ pc[t] \in {"enter", "test"}
  \/ pc[t] \in {"walk", "hop"} /\ tid[t] \in S
     /\ (pc[t] = "hop" => seen[t] = blocking_on[tid[t]])

\* In every circle of waiting threads one has yet to walk round it: the last
\* one to announce itself finds the others in place, for none of them can move
\* before it does.
SomebodyLooks ==
  \A S \in SUBSET Waiting :
    S # {} /\ (\A t \in S : owner[Wanted(t)] \in S) => \E t \in S : Looks(t, S)

\* OwnerHolds says who may release; InAcquire and FoundOwned, that inside its
\* mutex nothing changes a lock; LastLinkStands, what a refusal has seen;
\* WakeupHeld, that each release of wakeup is of one that is held;
\* SomebodyLooks, that no circle falls asleep.
IInv ==
  /\ LockSound /\ InAcquire /\ FoundOwned /\ LastLinkStands
  /\ WakeupHeld /\ SomebodyLooks

-----------------------------------------------------------------------------
\* acquire()'s docstring: "If a potential deadlock is detected, a
\* _DeadlockError is raised.  Otherwise, the lock is always acquired and True
\* is returned."  Either way acquire() comes back.
AcquireReturns ==
  \A t \in Threads : pc[t] # "start" ~> pc[t] = "start"
=============================================================================

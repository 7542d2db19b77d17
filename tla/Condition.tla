----------------------------- MODULE Condition -----------------------------
(***************************************************************************)
(* threading.Condition, one bytecode-visible step at a time.               *)
(*                                                                         *)
(* A condition is a lock and a deque of waiter locks.  wait() allocates a  *)
(* waiter lock, appends it, releases the condition's lock and blocks by    *)
(* acquiring the waiter a second time; notify() releases waiters.  The     *)
(* timed wait removes its own entry WITHOUT holding the condition's lock,  *)
(* so it runs inside another thread's notify(); this module keeps every    *)
(* step of the two methods apart to show what that race can and cannot do. *)
(* It can make notify() raise, and only before notify() has woken anybody. *)
(*                                                                         *)
(* A thread has at most one wait() in progress and cannot start a second   *)
(* one while a notify() that saw the first is running (it needs the lock), *)
(* so a waiter lock is identified by the thread that allocated it.  A      *)
(* KeyboardInterrupt, which reaches the main thread only, ends a wait()    *)
(* without taking its entry off; that thread does not wait again while the *)
(* entry is listed (a bound).                                              *)
(***************************************************************************)
EXTENDS Naturals, SequencesExt

CONSTANTS
  Threads,  \* the threads that use the condition
  Uses,     \* the ways it may be used: over an RLock (the default) or a Lock,
            \* the threads that may call wait/notify without the lock, and
            \* the main thread, if it is one of these
  MaxDepth, \* bound on the recursion depth of an RLock
  None      \* "no thread"

ASSUME ConditionAssumption ==
  /\ IsFiniteSet(Threads)
  /\ Uses \subseteq [reentrant : BOOLEAN, undisciplined : SUBSET Threads,
                      main : Threads \cup {None}]
  /\ MaxDepth \in Nat \ {0}
  /\ None \notin Threads

VARIABLES
  use,      \* how this condition is used; never changes
  owner,    \* the thread that holds the condition's lock, or None
  count,    \* recursion level of the lock (0 or 1 for a plain Lock)
  waiters,  \* Condition._waiters: waiter locks, oldest first
  waiter,   \* state of each thread's waiter lock
  pc,       \* where each thread is in wait() or notify()
  timed,    \* does the wait in progress have a timeout?
  saved,    \* the recursion level _release_save() returned
  batch,    \* notify(): waiters_to_notify still to be served
  stale     \* the threads whose iterator over the deque is out of date

vars == <<use, owner, count, waiters, waiter, pc, timed, saved, batch, stale>>

\* Type invariant: nothing in the code bounds the deque, but it never holds more
\* entries than there are threads.
TypeOK ==
  /\ use \in Uses
  /\ owner \in Threads \cup {None}
  /\ count \in 0..MaxDepth
  /\ waiters \in BoundedSeq(Threads, Cardinality(Threads))
  /\ waiter \in [Threads -> {"none", "locked", "released"}]
  /\ pc \in [Threads -> {"run", "save", "block", "expired", "restore",
                         "slice", "notify", "remove", "error"}]
  /\ timed \in [Threads -> BOOLEAN]
  /\ saved \in [Threads -> 0..MaxDepth]
  /\ batch \in [Threads -> BoundedSeq(Threads, Cardinality(Threads))]
  /\ stale \subseteq {t \in Threads : pc[t] = "slice"}

Init ==
  /\ use \in Uses
  /\ owner = None
  /\ count = 0
  /\ waiters = <<>>
  /\ waiter = [t \in Threads |-> "none"]
  /\ pc = [t \in Threads |-> "run"]
  /\ timed = [t \in Threads |-> FALSE]
  /\ saved = [t \in Threads |-> 0]
  /\ batch = [t \in Threads |-> <<>>]
  /\ stale = {}

-----------------------------------------------------------------------------
(* The lock.                                                               *)

\* acquire(): an RLock taken by its owner only counts.
Acquire(t) ==
  /\ pc[t] = "run"
  /\ \/ owner = None /\ count' = 1
     \/ use.reentrant /\ owner = t /\ count < MaxDepth /\ count' = count + 1
  /\ owner' = t
  /\ UNCHANGED <<use, waiters, waiter, pc, timed, saved, batch, stale>>

\* release(): the last release of an RLock, or any release of a Lock, frees it.
Release(t) ==
  /\ pc[t] = "run"
  /\ owner = t
  /\ count' = count - 1
  /\ owner' = IF count = 1 THEN None ELSE t
  /\ UNCHANGED <<use, waiters, waiter, pc, timed, saved, batch, stale>>

\* _is_owned(): an RLock knows its owner.  A plain Lock does not: the
\* condition tries to take it and answers "owned" when that fails, whoever
\* holds it.
IsOwned(t) == IF use.reentrant THEN owner = t ELSE owner # None

\* The caller holds the lock, or is one of those that do not check.
MayCall(t) == pc[t] = "run" /\ (owner = t \/ t \in use.undisciplined)

\* MUTANT: nobody is taken off the deque.
UnlistNobody(t) == waiters

\* _waiters.remove(waiter), a ValueError swallowed.
Unlist(t) == RemoveFirst(waiters, t)

Slicing == {n \in Threads : pc[n] = "slice"}

\* remove() turns the deque until it has what it looks for, or has seen all.
Turned(t) == Contains(waiters, t) \/ Len(waiters) > 1
StaleAfterRemove(t) == IF Turned(t) THEN stale \cup Slicing ELSE stale

-----------------------------------------------------------------------------
(* wait(timeout)                                                           *)

\* The waiter is allocated, acquired and appended.
Wait(t, hasTimeout) ==
  /\ MayCall(t)
  /\ IsOwned(t)
  /\ ~Contains(waiters, t) \* bound: no second wait() beside the entry of a first
  /\ waiter' = [waiter EXCEPT ![t] = "locked"]
  /\ waiters' = Append(waiters, t)
  /\ stale' = stale \cup Slicing
  /\ timed' = [timed EXCEPT ![t] = hasTimeout]
  /\ pc' = [pc EXCEPT ![t] = "save"]
  /\ UNCHANGED <<use, owner, count, saved, batch>>

\* MUTANT: release() instead of _release_save().
ReleaseOnce(t) ==
  /\ pc[t] = "save"
  /\ saved' = [saved EXCEPT ![t] = count]
  /\ owner' = IF count > 1 THEN owner ELSE None
  /\ count' = IF count > 1 THEN count - 1 ELSE 0
  /\ pc' = [pc EXCEPT ![t] = IF owner = None THEN "error" ELSE "block"]
  /\ UNCHANGED <<use, waiters, waiter, timed, batch, stale>>

\* _release_save(): the lock is freed whatever its recursion level; freeing a
\* free lock is an error.
ReleaseSave(t) ==
  /\ pc[t] = "save"
  /\ saved' = [saved EXCEPT ![t] = count]
  /\ owner' = None
  /\ count' = 0
  /\ pc' = [pc EXCEPT ![t] = IF owner = None THEN "error" ELSE "block"]
  /\ UNCHANGED <<use, waiters, waiter, timed, batch, stale>>

\* waiter.acquire() succeeds: somebody released it.
WaiterAcquired(t) ==
  /\ pc[t] = "block"
  /\ waiter[t] = "released"
  /\ pc' = [pc EXCEPT ![t] = "restore"]
  /\ waiter' = [waiter EXCEPT ![t] = "none"]
  /\ UNCHANGED <<use, owner, count, waiters, timed, saved, batch, stale>>

\* waiter.acquire(True, timeout) returns False; the entry is still listed.
Expire(t) ==
  /\ pc[t] = "block"
  /\ timed[t]
  /\ waiter[t] = "locked"
  /\ pc' = [pc EXCEPT ![t] = "expired"]
  /\ UNCHANGED <<use, owner, count, waiters, waiter, timed, saved, batch, stale>>

\* self._waiters.remove(waiter) while no lock is held.
RemoveSelf(t) ==
  /\ pc[t] = "expired"
  /\ waiters' = Unlist(t)
  /\ stale' = StaleAfterRemove(t)
  /\ waiter' = [waiter EXCEPT ![t] = "none"]
  /\ pc' = [pc EXCEPT ![t] = "restore"]
  /\ UNCHANGED <<use, owner, count, timed, saved, batch>>

\* KeyboardInterrupt out of waiter.acquire(), or before remove(): the entry
\* stays listed, a locked object nobody waits for.
Interrupt(t) ==
  /\ t = use.main
  /\ pc[t] \in {"block", "expired"}
  /\ waiter' = [waiter EXCEPT ![t] = "none"]
  /\ pc' = [pc EXCEPT ![t] = "restore"]
  /\ UNCHANGED <<use, owner, count, waiters, timed, saved, batch, stale>>

\* _acquire_restore(saved_state): wait() returns with the lock as it was.
AcquireRestore(t) ==
  /\ pc[t] = "restore"
  /\ owner = None
  /\ owner' = t
  /\ count' = saved[t]
  /\ pc' = [pc EXCEPT ![t] = "run"]
  /\ timed' = [timed EXCEPT ![t] = FALSE]
  /\ saved' = [saved EXCEPT ![t] = 0]
  /\ UNCHANGED <<use, waiters, waiter, batch, stale>>

-----------------------------------------------------------------------------
(* notify(n); notify_all() is notify(len(waiters)).                        *)

\* islice(all_waiters, n): an iterator over the deque as it is now.
Slice(t) ==
  /\ MayCall(t)
  /\ IsOwned(t)
  /\ waiters # <<>>
  /\ pc' = [pc EXCEPT ![t] = "slice"]
  /\ UNCHANGED <<use, owner, count, waiters, waiter, timed, saved, batch, stale>>

\* The n oldest waiters.
Oldest(n) == SubSeq(waiters, 1, IF n < Len(waiters) THEN n ELSE Len(waiters))

\* deque(...) consumes the iterator: waiters_to_notify is a snapshot.
Snapshot(t, n) ==
  /\ pc[t] = "slice"
  /\ t \notin stale
  /\ batch' = [batch EXCEPT ![t] = Oldest(n)]
  /\ pc' = [pc EXCEPT ![t] = "notify"]
  /\ UNCHANGED <<use, owner, count, waiters, waiter, timed, saved, stale>>

\* RuntimeError: deque mutated during iteration.
SnapshotRaises(t) ==
  /\ pc[t] = "slice"
  /\ t \in stale
  /\ stale' = stale \ {t}
  /\ pc' = [pc EXCEPT ![t] = "run"]
  /\ UNCHANGED <<use, owner, count, waiters, waiter, timed, saved, batch>>

\* waiter.release() of the oldest in the snapshot: an error if it is unlocked.
\* A waiter whose thread has left is a locked object nobody waits for.
NotifyRelease(t) ==
  LET w == Head(batch[t]) IN
  /\ pc[t] = "notify"
  /\ IF waiter[w] = "released"
     THEN pc' = [pc EXCEPT ![t] = "error"] /\ UNCHANGED waiter
     ELSE /\ pc' = [pc EXCEPT ![t] = "remove"]
          /\ waiter' = [waiter EXCEPT ![w] = IF @ = "locked" THEN "released" ELSE @]
  /\ UNCHANGED <<use, owner, count, waiters, timed, saved, batch, stale>>

\* MUTANT: the ValueError of remove() is not swallowed; the thread dies in
\* notify() with the lock held.
NotifyRemoveRaises(t) ==
  /\ pc[t] = "remove"
  /\ waiters' = Unlist(Head(batch[t]))
  /\ stale' = StaleAfterRemove(Head(batch[t]))
  /\ batch' = [batch EXCEPT ![t] = Tail(@)]
  /\ pc' = [pc EXCEPT ![t] = CASE ~Contains(waiters, Head(batch[t])) -> "error"
                               [] Len(batch[t]) = 1 -> "run"
                               [] OTHER -> "notify"]
  /\ UNCHANGED <<use, owner, count, waiter, timed, saved>>

\* all_waiters.remove(waiter).
NotifyRemove(t) ==
  /\ pc[t] = "remove"
  /\ waiters' = Unlist(Head(batch[t]))
  /\ stale' = StaleAfterRemove(Head(batch[t]))
  /\ batch' = [batch EXCEPT ![t] = Tail(@)]
  /\ pc' = [pc EXCEPT ![t] = IF Len(batch[t]) = 1 THEN "run" ELSE "notify"]
  /\ UNCHANGED <<use, owner, count, waiter, timed, saved>>

-----------------------------------------------------------------------------
Step(t) ==
  \/ Acquire(t)
  \/ Release(t)
  \/ \E hasTimeout \in BOOLEAN : Wait(t, hasTimeout)
  \/ ReleaseSave(t)
  \/ WaiterAcquired(t)
  \/ Expire(t)
  \/ RemoveSelf(t)
  \/ AcquireRestore(t)
  \/ Interrupt(t)
  \/ Slice(t)
  \/ \E n \in 1..Cardinality(Threads) : Snapshot(t, n)
  \/ SnapshotRaises(t)
  \/ NotifyRelease(t)
  \/ NotifyRemove(t)

Next == \E t \in Threads : Step(t)

Spec == Init /\ [][Next]_vars

\* Threads run, critical sections end (a thread does not take an RLock again
\* and again before it gives it up), and a lock freed again and again is
\* sooner or later given to each thread that asks for it.  Nothing forces a
\* timeout, a wait, a notify or an interrupt to happen.
Fairness ==
  \A t \in Threads :
    /\ WF_vars(Release(t) \/ ReleaseSave(t) \/ NotifyRelease(t) \/ NotifyRemove(t))
    /\ WF_vars(SnapshotRaises(t) \/ \E n \in 1..Cardinality(Threads) : Snapshot(t, n))
    /\ WF_vars(WaiterAcquired(t) \/ RemoveSelf(t))
    /\ SF_vars(count = 1 /\ Release(t))
    /\ SF_vars(AcquireRestore(t))

FairSpec == Spec /\ Fairness

-----------------------------------------------------------------------------
(* Properties.                                                             *)

\* No entry outlives its wait(): whoever is listed is still in wait(), or is
\* being taken off the list by the notify() that released it.  A leftover entry
\* would swallow a later notification meant for a sleeping thread.  Only that of
\* an interrupted main thread does.
NoGhostWaiter ==
  \A t \in ToSet(waiters) :
    \/ pc[t] \in {"save", "block", "expired"}
    \/ \E n \in Threads : pc[n] = "remove" /\ Head(batch[n]) = t
    \/ t = use.main /\ waiter[t] = "none"

\* notify() never releases a waiter lock that is already released, whatever
\* the timed waits remove from the deque while it works through its snapshot:
\* that would raise "release unlocked lock" with some threads woken and others
\* not.  And wait() never frees a lock that is free.
NoError == \A t \in Threads : pc[t] # "error"

\* The deque of waiters stays sound in every respect.
WaitersSound == TypeOK /\ NoGhostWaiter /\ NoError

\* The lock is free when nobody owns it, and kept between the steps that need it;
\* whoever blocks remembers a positive recursion level.
LockSound ==
  /\ owner = None <=> count = 0
  /\ \A t \in Threads :
       /\ pc[t] \in {"save", "slice", "notify", "remove"} => owner = t
       /\ pc[t] \in {"block", "expired", "restore"} => saved[t] > 0

\* Each thread is listed at most once; a locked waiter lock is listed, and belongs
\* to a thread in wait(); what is listed is locked, or being notified, or was
\* left behind; and while somebody copies the deque and nobody disturbs that,
\* there is something to copy.
ListSound ==
  /\ IsInjective(waiters)
  /\ \A t \in Threads :
       /\ waiter[t] = "locked" => t \in ToSet(waiters) /\ pc[t] \in {"save", "block", "expired"}
       /\ waiter[t] = "released" => pc[t] \in {"block", "expired"}
       /\ pc[t] \in {"block", "expired"} => waiter[t] # "none"
       /\ pc[t] = "save" => waiter[t] = "locked" /\ Last(waiters) = t
  /\ \A t \in ToSet(waiters) :
       \/ waiter[t] = "locked"
       \/ \E n \in Threads : pc[n] = "remove" /\ Head(batch[n]) = t
       \/ t = use.main /\ waiter[t] = "none"
  /\ \A t \in Threads : pc[t] = "slice" /\ t \notin stale => waiters # <<>>

Before(x, y) == \E p, q \in DOMAIN waiters : p < q /\ waiters[p] = x /\ waiters[q] = y

\* The snapshot of a notify() in progress: whoever is listed before one of its
\* waiters is an earlier one of them, and only the one being served is released.
BatchSound ==
  \A n \in Threads :
    /\ batch[n] # <<>> <=> pc[n] \in {"notify", "remove"}
    /\ IsInjective(batch[n])
    /\ \A i \in DOMAIN batch[n] : \A x \in Threads :
         Before(x, batch[n][i]) => \E j \in 1..(i - 1) : batch[n][j] = x
    /\ \A i \in DOMAIN batch[n] :
         waiter[batch[n][i]] = "released" => i = 1 /\ pc[n] = "remove"
    /\ pc[n] = "remove" => waiter[Head(batch[n])] # "locked"

\* What is true between any two steps.
IInv == TypeOK /\ LockSound /\ ListSound /\ BatchSound /\ NoError

\* Over an RLock anybody may call; over a plain Lock all callers hold it.
Careful == \A u \in Uses : u.reentrant \/ u.undisciplined = {}

\* A thread whose waiter lock was released returns from wait().
NotifiedReturns ==
  \A t \in Threads : (waiter[t] = "released") ~> (pc[t] = "run" /\ owner = t)

\* The condition implements the monitor: a thread that has appended its waiter
\* joins the line at the moment it frees the lock (completely, at whatever
\* recursion depth), and a signal is the release of a waiter lock.
Asleep(t) == pc[t] = "block" /\ waiter[t] = "locked"

\* The line is the deque without the one entry, at its head, whose waiter lock
\* notify() has released and which it has still to take off, and without the
\* one, at its end, of a thread that has not freed the lock yet.
Served == {Head(batch[n]) : n \in {m \in Threads : pc[m] = "remove"}}

Line ==
  IF waiters = <<>> THEN waiters
  ELSE IF Head(waiters) \in Served THEN Tail(waiters)
  ELSE IF pc[Last(waiters)] = "save" THEN Front(waiters)
  ELSE waiters

Mode ==
  [t \in Threads |->
     CASE Asleep(t) -> "asleep"
       [] pc[t] = "expired" -> "gaveup"
       [] pc[t] = "restore" \/ (pc[t] = "block" /\ waiter[t] = "released") -> "awake"
       [] OTHER -> "run"]

\* How far the owner of the lock is in notify(), and whom it has still to wake.
Call ==
  IF owner = None THEN "none"
  ELSE CASE pc[owner] = "slice" -> IF owner \in stale THEN "spoilt" ELSE "copying"
         [] pc[owner] \in {"notify", "remove"} -> "waking"
         [] OTHER -> "none"

Due ==
  IF owner = None THEN <<>>
  ELSE IF pc[owner] = "remove" THEN Tail(batch[owner]) ELSE batch[owner]

M == INSTANCE Monitor
       WITH main <- use.main, holder <- owner, line <- Line, mode <- Mode,
            call <- Call, due <- Due

\* No notification is lost: a notify() that has begun wakes the oldest waiters,
\* all that it has counted and in their order, before its caller gives up the
\* lock, or it wakes none of them and raises, for which a timed wait must have
\* taken itself off meanwhile; only the owner of the lock notifies.  Every
\* behaviour of the condition, over an RLock or used with care over a plain Lock,
\* is one of the monitor.
ImplementsMonitor == M!MonitorSpec
=============================================================================

----------------------------- MODULE AioLocks -----------------------------
(***************************************************************************)
(* asyncio.Lock, Condition and Semaphore.  A Lock is a semaphore of one    *)
(* permit whose release() asks whether it is locked; a Condition has one.  *)
(* Tasks use them by `with`: who leaves the block releases.                *)
(***************************************************************************)
EXTENDS AioTasks

CONSTANT MaxValue \* the largest initial value of a semaphore

ASSUME MaxValuePositive == MaxValue \in Nat \ {0}

VARIABLES
  kind,     \* "lock", with a Condition on it, or "semaphore"; "none": not used
  initial,  \* the permits there are
  value,    \* Semaphore._value; 0 for a lock that is locked and 1 if not
  waiters,  \* _waiters of the lock or semaphore: the tasks that wait in it
  cwaiters, \* Condition._waiters
  inside,   \* the tasks inside a `with` block
  bare,     \* history: a wait() ended without the lock
  missed    \* history: a task has blocked although all before it were cancelled

kvars == <<kind, initial, value, waiters, cwaiters, inside, bare, missed>>

LocksTypeOK ==
  /\ initial \in 0..MaxValue
  /\ waiters \in Seq(Tasks) /\ cwaiters \in Seq(Tasks)
  /\ inside \subseteq Tasks

LocksInit ==
  /\ \/ kind = "lock" /\ initial = 1
     \/ kind = "semaphore" /\ initial \in 1..MaxValue
  /\ value = initial
  /\ waiters = <<>> /\ cwaiters = <<>>
  /\ inside = {}
  /\ bare = FALSE /\ missed = FALSE

Without(t, list) == RemoveFirst(list, t)

-----------------------------------------------------------------------------
(* acquire()                                                               *)

\* MUTANT: a newcomer takes what is free, whoever waits.
FreeForAnyone == value > 0

FreeForNewcomer == waiters = <<>> /\ value > 0

BehindCancelled == value > 0 /\ \A t \in ToSet(waiters) : fut[t] = "cancelled"

Taken == IF kind = "lock" THEN 0 ELSE value - 1

AcquireNow(t) ==
  /\ current = t /\ t \notin inside
  /\ FreeForNewcomer
  /\ value' = Taken
  /\ inside' = inside \cup {t}
  /\ UNCHANGED <<tvars, kind, initial, waiters, cwaiters, bare, missed>>

AcquireBlocks(t) ==
  /\ current = t /\ t \notin inside
  /\ ~FreeForNewcomer
  /\ waiters' = Append(waiters, t)
  /\ Block(t, "acquire", <<>>)
  /\ missed' = (missed \/ BehindCancelled)
  /\ UNCHANGED <<kind, initial, value, cwaiters, inside, bare>>

\* The future has its result: the permit is taken without another look.
Acquired(t) ==
  /\ Runs(t, "acquire") \/ Runs(t, "reacquire")
  /\ ~Thrown(t)
  /\ waiters' = Without(t, waiters)
  /\ value' = Taken
  /\ inside' = inside \cup {t}
  /\ Resume(t, Tail(ready))
  /\ UNCHANGED <<kind, initial, cwaiters, bare, missed>>

\* CancelledError: out of the list, without the permit it was woken for.
AcquireCancelled(t) ==
  /\ Runs(t, "acquire") /\ Thrown(t)
  /\ waiters' = Without(t, waiters)
  /\ Resume(t, Tail(ready))
  /\ UNCHANGED <<kind, initial, value, cwaiters, inside, bare, missed>>

-----------------------------------------------------------------------------
(* release()                                                               *)

\* MUTANT: the first of the list, although it may be cancelled.
FirstListed == IF waiters = <<>> THEN <<>> ELSE Live(<<Head(waiters)>>)

\* The first waiter that is not done.
Next1(list) == IF Live(list) = <<>> THEN <<>> ELSE <<Head(Live(list))>>
ToWake == Next1(waiters)

Release(t) ==
  /\ current = t /\ t \in inside
  /\ kind = "lock" => value = 0
  /\ value' = value + 1
  /\ SetResults(ToWake)
  /\ inside' = inside \ {t}
  /\ UNCHANGED <<kind, initial, waiters, cwaiters, bare, missed>>

\* RuntimeError: the lock is not locked.
ReleaseRaises(t) ==
  /\ current = t /\ t \in inside
  /\ kind = "lock" /\ value = 1
  /\ inside' = inside \ {t}
  /\ UNCHANGED <<tvars, kind, initial, value, waiters, cwaiters, bare, missed>>

-----------------------------------------------------------------------------
(* Condition                                                               *)

\* wait(): release the lock, list a future and block.
CondWait(t) ==
  /\ kind = "lock" /\ current = t /\ t \in inside
  /\ value = 0
  /\ value' = 1
  /\ cwaiters' = Append(cwaiters, t)
  /\ Block(t, "wait", ToWake)
  /\ inside' = inside \ {t}
  /\ UNCHANGED <<kind, initial, waiters, bare, missed>>

\* Notified or cancelled, it takes the lock again ...
CondTakes(t) ==
  /\ Runs(t, "wait")
  /\ FreeForNewcomer
  /\ cwaiters' = Without(t, cwaiters)
  /\ value' = Taken
  /\ inside' = inside \cup {t}
  /\ Resume(t, Tail(ready))
  /\ UNCHANGED <<kind, initial, waiters, bare, missed>>

\* ... or blocks on it.
CondBlocks(t) ==
  /\ Runs(t, "wait")
  /\ ~FreeForNewcomer
  /\ cwaiters' = Without(t, cwaiters)
  /\ waiters' = Append(waiters, t)
  /\ ResumeAndBlock(t, "reacquire")
  /\ missed' = (missed \/ BehindCancelled)
  /\ UNCHANGED <<kind, initial, value, inside, bare>>

\* Cancelled there, it leaves wait() without the lock; its `with` block will
\* release it all the same.
ReacquireCancelled(t) ==
  /\ Runs(t, "reacquire") /\ Thrown(t)
  /\ waiters' = Without(t, waiters)
  /\ inside' = inside \cup {t}
  /\ bare' = TRUE
  /\ Resume(t, Tail(ready))
  /\ UNCHANGED <<kind, initial, value, cwaiters, missed>>

\* notify() and notify_all()
Notify(t, all) ==
  /\ kind = "lock" /\ current = t /\ t \in inside
  /\ value = 0
  /\ SetResults(IF all THEN Live(cwaiters) ELSE Next1(cwaiters))
  /\ UNCHANGED kvars

LocksNext ==
  \E t \in Tasks :
    \/ AcquireNow(t) \/ AcquireBlocks(t) \/ Acquired(t) \/ AcquireCancelled(t)
    \/ Release(t) \/ ReleaseRaises(t)
    \/ CondWait(t) \/ CondTakes(t) \/ CondBlocks(t) \/ ReacquireCancelled(t)
    \/ \E all \in BOOLEAN : Notify(t, all)

-----------------------------------------------------------------------------
\* As many tasks are inside as permits are missing, never more than there
\* were, although a woken task takes its permit some callbacks after it was
\* offered, and in spite of cancellations; until a Condition.wait() that is
\* cancelled twice leaves without the lock.
Exclusive == kind # "none" /\ ~bare => value + Cardinality(inside) = initial /\ value >= 0

Offered == {t \in ToSet(waiters) : fut[t] = "result"}

\* Nobody sleeps for what nobody will give: while a task sleeps in acquire(),
\* another one has been woken there or is inside, unless a woken task has
\* been cancelled, or one has blocked behind a cancelled one.
SomebodyWillRelease ==
  ~late /\ ~missed /\ AnyLive(waiters) => Offered # {} \/ inside # {}

\* Lock.acquire() "blocks until the lock is unlocked, then sets it to locked":
\* a lock that is unlocked while tasks sleep in acquire() has been offered
\* to one of them.
LockIsPassedOn ==
  kind = "lock" /\ value = 1 /\ AnyLive(waiters) => Offered # {}

\* The lists are those of the tasks in each call; each task that was woken has a
\* permit coming to it, and a lock that somebody waits for, unlocked, is offered.
LocksSound ==
  /\ LocksTypeOK /\ Exclusive /\ SomebodyWillRelease
  /\ IsInjective(waiters) /\ IsInjective(cwaiters)
  /\ \/ kind = "lock" /\ initial = 1
     \/ kind = "semaphore" /\ ~bare
  /\ initial > 0 /\ value \in 0..initial /\ bare \in BOOLEAN /\ missed \in BOOLEAN
  /\ \A t \in Tasks :
       /\ at[t] \in {"body", "end", "acquire", "reacquire", "wait"}
       /\ t \in ToSet(waiters) <=> at[t] \in {"acquire", "reacquire"}
       /\ t \in ToSet(cwaiters) <=> at[t] = "wait"
       /\ at[t] \in {"reacquire", "wait"} => kind = "lock"
       /\ t \in inside => at[t] = "body"
  /\ Cardinality(Offered) <= value
  /\ kind = "lock" /\ value = 0 => inside # {}
  /\ ~late /\ ~missed => LockIsPassedOn
=============================================================================

------------------------------- MODULE Queue -------------------------------
(***************************************************************************)
(* queue.Queue: a container, one mutex, three conditions that share it.    *)
(*                                                                         *)
(* Every method runs inside the mutex from end to end, except where it     *)
(* waits on a condition; a step is therefore one stretch under the mutex:  *)
(* from the call, or from the return of wait(), to the return or to the    *)
(* next wait().  What runs outside the mutex is a timed wait that gives    *)
(* up: the expiry and the removal of its own entry are steps of their own. *)
(* A removal that falls into the middle of a notify() makes it raise, with *)
(* the item stored or taken and nobody notified.  Condition.tla keeps the  *)
(* steps of wait() and notify() apart and shows that they add up to the    *)
(* ones used here.                                                         *)
(*                                                                         *)
(* The container is a parameter, as it is in the code: Queue, LifoQueue    *)
(* and PriorityQueue override _put() and _get() only.                      *)
(***************************************************************************)
EXTENDS Integers, FiniteSets, SequencesExt

CONSTANTS
  Threads,        \* the threads that use the queue
  Items,          \* what they put in it
  maxsize,        \* 0: infinite
  PutItem(_, _),  \* _put(item): the container afterwards
  GetItem(_),     \* _get(): the container afterwards
  Disciplined,    \* TRUE: a consumer calls task_done() once for each item,
                  \* before it gets the next
  MaxTasks,       \* bound on unfinished tasks and on the queue; it is never
                  \* reached when Disciplined, maxsize > 0 and it is at least
                  \* maxsize + Cardinality(Threads) + MaxLost
  MaxLost         \* bound on the items that are lost when a get() raises

\* The containers of length at most n.
Containers(n) == UNION {[1..m -> Items] : m \in 0..n}

ASSUME QueueAssumption ==
  /\ IsFiniteSet(Threads)
  /\ Items # {}
  /\ maxsize \in Nat
  /\ MaxTasks \in Nat \ {0}
  /\ MaxLost \in Nat
  /\ maxsize <= MaxTasks
  /\ Disciplined \in BOOLEAN

\* All that the queue asks of a container: each method moves one item.
ASSUME ContainerAssumption ==
  /\ \A q \in Containers(MaxTasks - 1) : \A x \in Items :
       /\ PutItem(q, x) \in Containers(MaxTasks)
       /\ Len(PutItem(q, x)) = Len(q) + 1
  /\ \A q \in Containers(MaxTasks) : q # <<>> =>
       /\ GetItem(q) \in Containers(MaxTasks)
       /\ Len(GetItem(q)) = Len(q) - 1

VARIABLES
  queue,           \* the container
  unfinished_tasks,
  not_empty,       \* the conditions' waiters, oldest first
  not_full,
  all_tasks_done,
  call,            \* the method each thread is in
  phase,           \* how far its wait() got
  timed,           \* has the call a timeout?
  arg,             \* the item of a put() that waits
  hand,            \* how many items a thread has got and not reported done
  missed,          \* history: who was listed when a notify() on its line raised
  lost             \* history: how many items a get() took out and then raised

vars == <<queue, unfinished_tasks, not_empty, not_full, all_tasks_done,
          call, phase, timed, arg, hand, missed, lost>>

lines == <<not_empty, not_full, all_tasks_done>>

Calls == {"none", "put", "get", "join"}

\* "asleep": blocked and listed; "expired": timed out, still listed; "spent":
\* notified after it had expired, before it looks for its entry; "notified" and
\* "left": not listed, on the way to the mutex.
Phases == {"run", "asleep", "expired", "spent", "notified", "left"}

\* Type invariant; the queue never outgrows maxsize, whoever was waiting.
TypeOK ==
  /\ queue \in Containers(MaxTasks)
  /\ unfinished_tasks \in 0..MaxTasks
  /\ not_empty \in Seq(Threads)
  /\ not_full \in Seq(Threads)
  /\ all_tasks_done \in Seq(Threads)
  /\ call \in [Threads -> Calls]
  /\ phase \in [Threads -> Phases]
  /\ timed \in [Threads -> BOOLEAN]
  /\ arg \in [Threads -> Items]
  /\ hand \in [Threads -> 0..MaxTasks]
  /\ missed \in SUBSET Threads
  /\ lost \in 0..MaxLost

Init ==
  /\ queue = <<>>
  /\ unfinished_tasks = 0
  /\ not_empty = <<>> /\ not_full = <<>> /\ all_tasks_done = <<>>
  /\ call = [t \in Threads |-> "none"]
  /\ phase = [t \in Threads |-> "run"]
  /\ timed = [t \in Threads |-> FALSE]
  /\ arg = [t \in Threads |-> CHOOSE x \in Items : TRUE]
  /\ hand = [t \in Threads |-> 0]
  /\ missed = {} /\ lost = 0

-----------------------------------------------------------------------------
(* Pieces of the methods.                                                  *)

Full == maxsize > 0 /\ Len(queue) >= maxsize
Empty == Len(queue) = 0

\* t is inside the mutex at the top of the method: it has just called it, or
\* its wait() has returned.
Calling(t) == call[t] = "none"
Resuming(t, method) == call[t] = method /\ phase[t] \in {"notified", "left"}

\* notify() on a line: its head wakes (an expired one is merely taken off).
WokenBy(line) == IF line = <<>> THEN {} ELSE {Head(line)}
AfterNotify(line) == IF line = <<>> THEN line ELSE Tail(line)

\* Where the notified thread u is now, and where it is once it has looked for
\* its entry.
Told(u) == IF phase[u] = "expired" THEN "spent" ELSE "notified"
Looked(u) == IF phase[u] = "spent" THEN "notified" ELSE "left"

\* Thread t is out of its method, and the others are in the phases given.
Out(t, phases) ==
  /\ call' = [call EXCEPT ![t] = "none"]
  /\ phase' = [phases EXCEPT ![t] = "run"]
  /\ timed' = [timed EXCEPT ![t] = FALSE]

\* Thread t returns from its method or raises; the threads in S are notified.
Return(t, S) ==
  /\ Out(t, [u \in Threads |-> IF u \in S THEN Told(u) ELSE phase[u]])
  /\ missed' = missed \ S

\* Who may disturb a notify() on the line of a method: remove() changes the
\* deque when it finds the entry, and turns it round when it does not.
Disturbers(method, line) ==
  {u \in Threads : /\ call[u] = method
                   /\ phase[u] = "expired" \/ (phase[u] = "spent" /\ Len(line) > 1)}

\* The notify() in t raises RuntimeError: u has looked for its entry between
\* islice() and deque().  Nobody is notified.
NotifyRaises(t, u, line) ==
  /\ Out(t, [phase EXCEPT ![u] = Looked(u)])
  /\ missed' = (missed \cup Range(line)) \ {u}

\* Thread t goes to sleep inside a method.
Sleep(t, method, hasTimeout) ==
  /\ call' = [call EXCEPT ![t] = method]
  /\ phase' = [phase EXCEPT ![t] = "asleep"]
  /\ timed' = [timed EXCEPT ![t] = hasTimeout]
  /\ UNCHANGED <<queue, unfinished_tasks, hand, missed, lost>>

-----------------------------------------------------------------------------
(* put(item, block, timeout)                                               *)

\* MUTANT: getters are notified only when the queue was empty.
NotifyNotEmptyOnce(t) ==
  /\ not_empty' = IF Empty THEN AfterNotify(not_empty) ELSE not_empty
  /\ Return(t, IF Empty THEN WokenBy(not_empty) ELSE {})

\* self.not_empty.notify(), and put() returns; or it raises.
NotifyNotEmpty(t) ==
  \/ /\ not_empty' = AfterNotify(not_empty)
     /\ Return(t, WokenBy(not_empty))
  \/ \E u \in Disturbers("get", not_empty) :
       /\ not_empty' = RemoveFirst(not_empty, u)
       /\ NotifyRaises(t, u, not_empty)

\* MUTANT: counted in put() and once more in _put().
CountedTwice(t) == unfinished_tasks + 2

Counted(t) == unfinished_tasks + 1

\* The item goes in, is counted, and one getter is notified.  put() in a thread that
\* resumes uses the item of the call.
PutNow(t, x) ==
  /\ Calling(t) \/ (Resuming(t, "put") /\ x = arg[t])
  /\ ~Full
  /\ Len(queue) < MaxTasks /\ unfinished_tasks < MaxTasks
  /\ queue' = PutItem(queue, x)
  /\ unfinished_tasks' = Counted(t)
  /\ NotifyNotEmpty(t)
  /\ UNCHANGED <<not_full, all_tasks_done, arg, hand, lost>>

\* A full queue: a blocking put() waits on not_full.  One that resumes sleeps
\* again, if it has time left.
PutWait(t, x, hasTimeout) ==
  /\ \/ Calling(t)
     \/ Resuming(t, "put") /\ x = arg[t] /\ hasTimeout = timed[t]
  /\ Full
  /\ not_full' = Append(not_full, t)
  /\ arg' = [arg EXCEPT ![t] = x]
  /\ Sleep(t, "put", hasTimeout)
  /\ UNCHANGED <<not_empty, all_tasks_done>>

\* raise Full: the queue is full and no time is left.
PutFull(t) ==
  /\ Resuming(t, "put") /\ timed[t]
  /\ Full
  /\ Return(t, {})
  /\ UNCHANGED <<queue, unfinished_tasks, lines, arg, hand, lost>>

-----------------------------------------------------------------------------
(* get(block, timeout)                                                     *)

\* MUTANT: putters are notified only when the queue was full.
NotifyNotFullOnce(t) ==
  /\ not_full' = IF Full THEN AfterNotify(not_full) ELSE not_full
  /\ Return(t, IF Full THEN WokenBy(not_full) ELSE {})

\* self.not_full.notify(), and get() returns.
NotifyNotFull(t) ==
  /\ not_full' = AfterNotify(not_full)
  /\ Return(t, WokenBy(not_full))

\* It raises, and get() with it.
NotFullRaises(t) ==
  \E u \in Disturbers("put", not_full) :
    /\ not_full' = RemoveFirst(not_full, u)
    /\ NotifyRaises(t, u, not_full)

\* A consumer that may ask for another item.
Free(t) == hand[t] < (IF Disciplined THEN 1 ELSE MaxTasks)

\* The item comes out and one putter is notified.  If that raises, the item is
\* lost, and still counted.
GetNow(t) ==
  /\ Calling(t) \/ Resuming(t, "get")
  /\ Free(t)
  /\ ~Empty
  /\ queue' = GetItem(queue)
  /\ \/ /\ NotifyNotFull(t)
        /\ hand' = [hand EXCEPT ![t] = @ + 1]
        /\ UNCHANGED lost
     \/ /\ lost < MaxLost
        /\ NotFullRaises(t)
        /\ lost' = lost + 1
        /\ UNCHANGED hand
  /\ UNCHANGED <<unfinished_tasks, not_empty, all_tasks_done, arg>>

GetWait(t, hasTimeout) ==
  /\ Calling(t) \/ (Resuming(t, "get") /\ hasTimeout = timed[t])
  /\ Free(t)
  /\ Empty
  /\ not_empty' = Append(not_empty, t)
  /\ Sleep(t, "get", hasTimeout)
  /\ UNCHANGED <<not_full, all_tasks_done, arg>>

GetEmpty(t) ==
  /\ Resuming(t, "get") /\ timed[t]
  /\ Empty
  /\ Return(t, {})
  /\ UNCHANGED <<queue, unfinished_tasks, lines, arg, hand, lost>>

-----------------------------------------------------------------------------
(* task_done() and join()                                                  *)

\* MUTANT: notify() instead of notify_all().
NotifyOneDone(t) ==
  /\ all_tasks_done' = AfterNotify(all_tasks_done)
  /\ Return(t, WokenBy(all_tasks_done))

\* self.all_tasks_done.notify_all(), and task_done() returns.
NotifyAllDone(t) ==
  /\ all_tasks_done' = <<>>
  /\ Return(t, Range(all_tasks_done))

\* The last task notifies every joiner; none of them has a timeout, so nobody
\* can disturb that.  Below zero it raises ValueError and
\* changes nothing.
TaskDone(t) ==
  /\ Calling(t)
  /\ unfinished_tasks > 0
  /\ Disciplined => hand[t] > 0
  /\ unfinished_tasks' = unfinished_tasks - 1
  /\ IF unfinished_tasks = 1
     THEN NotifyAllDone(t)
     ELSE UNCHANGED <<all_tasks_done, call, phase, timed, missed>>
  /\ hand' = [hand EXCEPT ![t] = IF @ > 0 THEN @ - 1 ELSE 0]
  /\ UNCHANGED <<queue, not_empty, not_full, arg, lost>>

JoinWait(t) ==
  /\ Calling(t) \/ Resuming(t, "join")
  /\ unfinished_tasks > 0
  /\ all_tasks_done' = Append(all_tasks_done, t)
  /\ Sleep(t, "join", FALSE)
  /\ UNCHANGED <<not_empty, not_full, arg>>

JoinReturn(t) ==
  /\ Resuming(t, "join")
  /\ unfinished_tasks = 0
  /\ Return(t, {})
  /\ UNCHANGED <<queue, unfinished_tasks, lines, arg, hand, lost>>

-----------------------------------------------------------------------------
(* A timed wait gives up, outside the mutex.                               *)

Expire(t) ==
  /\ phase[t] = "asleep" /\ timed[t]
  /\ phase' = [phase EXCEPT ![t] = "expired"]
  /\ UNCHANGED <<queue, unfinished_tasks, lines, call, timed, arg, hand, missed, lost>>

\* MUTANT: the entry stays behind.
RemoveNobody(t) ==
  /\ phase[t] = "expired"
  /\ phase' = [phase EXCEPT ![t] = "left"]
  /\ missed' = missed \ {t}
  /\ UNCHANGED <<queue, unfinished_tasks, lines, call, timed, arg, hand, lost>>

\* self._waiters.remove(waiter); a ValueError is swallowed.
RemoveSelf(t) ==
  /\ phase[t] \in {"expired", "spent"}
  /\ phase' = [phase EXCEPT ![t] = Looked(t)]
  /\ missed' = missed \ {t}
  /\ not_empty' = RemoveFirst(not_empty, t)
  /\ not_full' = RemoveFirst(not_full, t)
  /\ UNCHANGED <<queue, unfinished_tasks, all_tasks_done, call, timed, arg, hand, lost>>

-----------------------------------------------------------------------------
\* What thread t does inside the mutex when its wait() has returned.
Resume(t) ==
  \/ PutNow(t, arg[t]) /\ call[t] = "put"
  \/ PutWait(t, arg[t], timed[t]) /\ call[t] = "put"
  \/ PutFull(t)
  \/ GetNow(t) /\ call[t] = "get"
  \/ GetWait(t, timed[t]) /\ call[t] = "get"
  \/ GetEmpty(t)
  \/ JoinWait(t) /\ call[t] = "join"
  \/ JoinReturn(t)

Step(t) ==
  \/ \E x \in Items : PutNow(t, x)
  \/ \E x \in Items, hasTimeout \in BOOLEAN : PutWait(t, x, hasTimeout)
  \/ PutFull(t)
  \/ GetNow(t)
  \/ \E hasTimeout \in BOOLEAN : GetWait(t, hasTimeout)
  \/ GetEmpty(t)
  \/ TaskDone(t)
  \/ JoinWait(t)
  \/ JoinReturn(t)
  \/ Expire(t)
  \/ RemoveSelf(t)

Next == \E t \in Threads : Step(t)

Spec == Init /\ [][Next]_vars

\* A thread on its way out of wait() runs and sooner or later gets the mutex.
\* That anybody calls put(), get() or task_done() is not assumed.
Fairness == \A t \in Threads : SF_vars(Resume(t)) /\ WF_vars(RemoveSelf(t))

FairSpec == Spec /\ Fairness

-----------------------------------------------------------------------------
(* Properties.                                                             *)

Listed(t, line) == \E i \in 1..Len(line) : line[i] = t
NoDup(line) == \A i, j \in 1..Len(line) : line[i] = line[j] => i = j

\* Threads notified in a method and not yet back in the mutex.
Notified(method) == {t \in Threads : call[t] = method /\ phase[t] \in {"notified", "spent"}}

\* Somebody is on the line whom no notify() has failed.
Awaited(line) == \E t \in Threads : Listed(t, line) /\ t \notin missed

\* maxsize bounds the queue although several putters may be woken, overtaken
\* by newcomers and resumed in any order.
Capacity == maxsize > 0 => Len(queue) <= maxsize

\* No wake-up is lost: while somebody sleeps on not_empty that no notify() has
\* failed, at least as many getters have been notified as there are items to
\* take.  put() notifies one getter and a newcomer may take the item first; a
\* wake-up spent on an expired getter counts, for it looks at the queue again
\* before it raises; after a put() that raised with its item stored, who came
\* later still gets its wake-up.
NoLostItem == Awaited(not_empty) => Cardinality(Notified("get")) >= Len(queue)

\* The same for free slots and the putters that sleep on not_full.
NoLostSlot ==
  Awaited(not_full) => Cardinality(Notified("put")) >= maxsize - Len(queue)

\* Nobody sleeps in join() when no task is unfinished, although task_done()
\* notifies before it stores the new count.
JoinersAreWoken == all_tasks_done # <<>> => unfinished_tasks > 0

\* A condition lists exactly the threads that sleep on it, each once: a timed
\* wait that has left behind its entry would swallow a later wake-up.
WaitersListed ==
  /\ NoDup(not_empty) /\ NoDup(not_full) /\ NoDup(all_tasks_done)
  /\ \A t \in Threads :
       LET waiting == phase[t] \in {"asleep", "expired"} IN
       /\ Listed(t, not_empty) <=> waiting /\ call[t] = "get"
       /\ Listed(t, not_full) <=> waiting /\ call[t] = "put"
       /\ Listed(t, all_tasks_done) <=> waiting /\ call[t] = "join"
       /\ t \in missed => waiting

\* Only put() and get() take a timeout, only a timed wait expires, and who is in
\* no method runs.
TimedCalls ==
  \A t \in Threads :
    /\ call[t] = "none" => phase[t] = "run"
    /\ timed[t] => call[t] \in {"put", "get"}
    /\ phase[t] \in {"expired", "spent"} => timed[t]

\* The inductive invariant: with every sleeper listed once where it sleeps, a
\* notify() turns a sleeper into a notified thread of the right method, and the
\* wake-ups can be counted against the items and the free slots.
IInv ==
  /\ TypeOK
  /\ Capacity
  /\ WaitersListed
  /\ TimedCalls
  /\ NoLostItem
  /\ NoLostSlot
  /\ JoinersAreWoken

\* unfinished_tasks counts the queued items, those in consumers' hands and those
\* a get() that raised has dropped, so a consumer that reports each item once
\* never sees the ValueError; and join() returns only when every item that had
\* been put was got and done: never again after one was dropped.
JoinMeansDone ==
  /\ [](Disciplined =>
         unfinished_tasks = Len(queue) + lost + MapThenSumSet(LAMBDA t : hand[t], Threads))
  /\ [][\A t \in Threads : call[t] = "join" /\ call'[t] = "none" =>
         queue = <<>> /\ lost = 0 /\ \A u \in Threads : hand[u] = 0]_vars

\* No getter sleeps for ever beside an item, nor a putter beside a free slot,
\* but for those that slept when a notify() for them raised.
CallersServed ==
  LET Sleepers(method) == {t \in Threads : call[t] = method /\ phase[t] = "asleep"} IN
  /\ []<>(Empty \/ Sleepers("get") \subseteq missed)
  /\ []<>(Full \/ Sleepers("put") \subseteq missed)

\* Once all tasks are done and stay done, every join() returns.
JoinReturns ==
  \A t \in Threads : <>[](unfinished_tasks = 0) => []<>(call[t] # "join")
=============================================================================

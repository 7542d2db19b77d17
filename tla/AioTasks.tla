----------------------------- MODULE AioTasks -----------------------------
(***************************************************************************)
(* asyncio: the ready queue of the event loop, tasks, cancellation, and    *)
(* the futures that tasks wait for.                                        *)
(*                                                                         *)
(* One thread runs everything, so a step is what a coroutine does from one *)
(* call of the library to the next.  A locks.py or queues.py call makes a  *)
(* new future each time it blocks and only its own task waits for it: the  *)
(* future is named by the task.  A future its task has stopped waiting for *)
(* is done for ever; wherever it is still listed it is Dead.               *)
(***************************************************************************)
EXTENDS Integers, FiniteSets, SequencesExt

CONSTANTS
  Tasks, None,
  Dead,        \* a future that is done and that nobody waits for
  MaxCancels   \* bound on calls of Task.cancel()

ASSUME FiniteTasks ==
  /\ IsFiniteSet(Tasks) /\ None \notin Tasks /\ Dead \notin Tasks
  /\ MaxCancels \in Nat

VARIABLES
  ready,       \* BaseEventLoop._ready: the callbacks to be called, in order
  current,     \* the task whose _step() is on the stack, or None
  fut,         \* state of the future a task waits for; "none": _fut_waiter is None
  must_cancel, \* Task._must_cancel
  at,          \* where the coroutine is suspended; "body": in no call
  cancels,     \* number of cancel() calls
  late         \* history: a task was cancelled between its wake-up and its run

tvars == <<ready, current, fut, must_cancel, at, cancels, late>>

Step(t) == <<"step", t>>
Wakeup(t) == <<"wakeup", t>>
Settle(f) == <<"settle", f>>

TasksTypeOK ==
  /\ \A i \in DOMAIN ready :
       \/ ready[i] \in {Step(t) : t \in Tasks} \cup {Wakeup(t) : t \in Tasks}
       \/ ready[i] \in {Settle(f) : f \in Tasks \cup {Dead}}
  /\ current \in Tasks \cup {None}
  /\ fut \in [Tasks -> {"none", "pending", "result", "cancelled"}]
  /\ must_cancel \in [Tasks -> BOOLEAN]
  /\ cancels \in 0..MaxCancels

\* All tasks have been made, and run the same kind of program.
TasksInit ==
  /\ LET order == SetToSeq(Tasks) IN ready = [i \in DOMAIN order |-> Step(order[i])]
  /\ current = None
  /\ fut = [t \in Tasks |-> "none"]
  /\ must_cancel = [t \in Tasks |-> FALSE]
  /\ at = [t \in Tasks |-> "body"]
  /\ cancels = 0
  /\ late = FALSE

-----------------------------------------------------------------------------
(* Futures and callbacks.                                                  *)

Pending(f) == f \in Tasks /\ fut[f] = "pending"

\* The futures of a list that are not done, in its order: the n-th is the one up
\* to which there are n.
Live(futures) ==
  LET live == {i \in DOMAIN futures : Pending(futures[i])}
      place(n) == CHOOSE i \in live : Cardinality({j \in live : j <= i}) = n
  IN [n \in 1..Cardinality(live) |-> futures[place(n)]]
AnyLive(futures) == \E f \in ToSet(futures) : Pending(f)

\* set_result() on the futures of a list: their callbacks are scheduled.
Woken(futures) ==
  [t \in Tasks |-> IF t \in ToSet(futures) THEN "result" ELSE fut[t]]
Wakeups(futures) == [i \in DOMAIN futures |-> Wakeup(futures[i])]

\* The running coroutine sets the results of these futures and goes on.
SetResults(futures) ==
  /\ fut' = Woken(futures)
  /\ ready' = ready \o Wakeups(futures)
  /\ UNCHANGED <<current, must_cancel, at, cancels, late>>

\* The running task blocks on a new future, after setting these results.  A
\* task that was cancelled while it ran cancels that future at once.
Block(t, where, futures) ==
  /\ fut' = [Woken(futures) EXCEPT
               ![t] = IF must_cancel[t] THEN "cancelled" ELSE "pending"]
  /\ ready' = ready \o Wakeups(futures)
                    \o (IF must_cancel[t] THEN <<Wakeup(t)>> ELSE <<>>)
  /\ must_cancel' = [must_cancel EXCEPT ![t] = FALSE]
  /\ at' = [at EXCEPT ![t] = where]
  /\ current' = None
  /\ UNCHANGED <<cancels, late>>

-----------------------------------------------------------------------------
(* Task._step().                                                           *)

\* The next callback of the loop runs task t, suspended at `where`.
Runs(t, where) ==
  /\ current = None /\ ready # <<>>
  /\ Head(ready) \in {Step(t), Wakeup(t)}
  /\ at[t] = where

\* CancelledError is thrown into it; otherwise it gets the result.
Thrown(t) == must_cancel[t] \/ fut[t] = "cancelled"

\* The task runs on in its body, with `callbacks` still to be called.
Resume(t, callbacks) ==
  /\ ready' = callbacks
  /\ current' = t
  /\ fut' = [fut EXCEPT ![t] = "none"]
  /\ must_cancel' = [must_cancel EXCEPT ![t] = FALSE]
  /\ at' = [at EXCEPT ![t] = "body"]
  /\ UNCHANGED <<cancels, late>>

\* It runs on and blocks again at once.
ResumeAndBlock(t, where) ==
  /\ ready' = Tail(ready)
  /\ fut' = [fut EXCEPT ![t] = "pending"]
  /\ must_cancel' = [must_cancel EXCEPT ![t] = FALSE]
  /\ at' = [at EXCEPT ![t] = where]
  /\ UNCHANGED <<current, cancels, late>>

\* The first _step(), or the one after a bare yield.
Continue(t) == Runs(t, "body") /\ Resume(t, Tail(ready))

\* A bare `yield`.
Yield(t) ==
  /\ current = t
  /\ ready' = Append(ready, Step(t))
  /\ current' = None
  /\ UNCHANGED <<fut, must_cancel, at, cancels, late>>

\* The coroutine returns or raises: the task is done.
Return(t) ==
  /\ current = t
  /\ current' = None
  /\ at' = [at EXCEPT ![t] = "end"]
  /\ UNCHANGED <<ready, fut, must_cancel, cancels, late>>

-----------------------------------------------------------------------------
(* Task.cancel(), by the running task or a callback that is no task.       *)

\* MUTANT: the task is woken even if its future is done.
CancelWakesAgain(t) ==
  /\ fut' = [fut EXCEPT ![t] = IF @ = "none" THEN @ ELSE "cancelled"]
  /\ must_cancel' = [must_cancel EXCEPT ![t] = fut[t] = "none" \/ @]
  /\ ready' = IF fut[t] = "none" THEN ready ELSE Append(ready, Wakeup(t))

\* _fut_waiter.cancel(), if there is one and it is not done; otherwise the
\* next _step() has to throw.
CancelEffect(t) ==
  IF fut[t] = "pending"
    THEN /\ fut' = [fut EXCEPT ![t] = "cancelled"]
         /\ ready' = Append(ready, Wakeup(t))
         /\ UNCHANGED must_cancel
    ELSE /\ must_cancel' = [must_cancel EXCEPT ![t] = TRUE]
         /\ UNCHANGED <<fut, ready>>

Cancel(t) ==
  /\ at[t] # "end"
  /\ cancels < MaxCancels /\ cancels' = cancels + 1
  /\ CancelEffect(t)
  /\ late' = (late \/ fut[t] = "result")
  /\ UNCHANGED <<current, at>>

-----------------------------------------------------------------------------
\* What the class Task says of itself: while a task is not done, either it
\* waits for a future that is not done and is not scheduled, or it is
\* scheduled, once; and a cancellation is never left pending on a task that
\* nothing will run.
TaskScheduled ==
  \A t \in Tasks :
    LET scheduled == {i \in DOMAIN ready : ready[i] \in {Step(t), Wakeup(t)}} IN
    Cardinality(scheduled) =
      IF t = current \/ at[t] = "end" \/ fut[t] = "pending" THEN 0 ELSE 1

\* What is true of the tasks between any two steps: a task waits for a future
\* exactly in a call, and throws away a result only if it was cancelled late.
TasksSound ==
  /\ TasksTypeOK /\ TaskScheduled
  /\ ready \in Seq({Step(t) : t \in Tasks} \cup {Wakeup(t) : t \in Tasks}
                     \cup {Settle(f) : f \in Tasks \cup {Dead}})
  /\ at \in [Tasks -> {"body", "end", "acquire", "reacquire", "wait", "put", "get", "join"}]
  /\ late \in BOOLEAN
  /\ \A t \in Tasks :
       /\ fut[t] = "none" <=> at[t] \in {"body", "end"}
       /\ t = current => at[t] = "body"
       /\ fut[t] = "pending" => ~must_cancel[t]
       /\ fut[t] = "result" /\ must_cancel[t] => late
=============================================================================

----------------------------- MODULE ThreadPool -----------------------------
(***************************************************************************)
(* concurrent.futures.thread: ThreadPoolExecutor, its workers and the      *)
(* handler that stops them when the interpreter exits.  Futures are those  *)
(* of module Future; the work queue (queue.Queue, see module Queue) is a   *)
(* sequence: its get() has no timeout, so its put() cannot raise.  Tasks   *)
(* may submit another task to their own executor.  A worker whose future   *)
(* raises out of set_result() ends there, without waking another one.      *)
(***************************************************************************)
EXTENDS Future

CONSTANTS None, Programs    \* what the clients and the tasks of a program may do

Workers == Executors
PoolCalls == Calls \cup {"submit", "shutdown"}
\* The code takes max_workers = 0, and then runs nothing: left out.
ASSUME ThreadPoolAssumption ==
  /\ Workers # {} /\ IsFiniteSet(Workers) /\ Workers \cap {"free", "adjust"} = {}
  /\ None \notin Futures \cup Actors
  /\ Programs \subseteq [spawns : [Futures -> Futures \cup {None}], calls : [Clients -> SUBSET PoolCalls],
                         collects : BOOLEAN]

VARIABLES
  program,    \* spawns[f]: the future the task of f makes by submit(), or None;
              \* calls[c]: the calls client c may make; collects: the executor is dropped
  queue,      \* _work_queue: futures of work items, None to wake a worker
  shutdown,   \* executor._shutdown
  collected,  \* the executor was garbage collected
  lock,       \* _shutdown_lock: who is in submit() and where, or nobody
  threads,    \* _threads and _threads_queues
  worker,     \* each worker's pc and the future of its work item
  joins,      \* shutdown(wait=True) of each client: "no", "waiting", "done"
  exit        \* _python_exit(): where it is, whom it joins, how many it has still to wake

poolVars == <<program, queue, shutdown, collected, lock, threads, worker, joins, exit>>
vars == <<futureVars, poolVars>>

Unlocked == [who |-> None, at |-> "free"]

Init ==
  /\ FutureInit
  /\ program \in Programs
  /\ queue = <<>> /\ shutdown = FALSE /\ collected = FALSE /\ lock = Unlocked /\ threads = {}
  /\ worker = [w \in Workers |-> [pc |-> "unborn", job |-> None]]
  /\ joins = [c \in Clients |-> "no"]
  /\ exit = [pc |-> "no", told |-> {}, left |-> 0]

Job(w) == worker[w].job
At(w, pc) == worker[w].pc = pc /\ exit.pc # "over"
\* The program runs: atexit handlers come after the last client has ended.
ClientRuns(c) == exit.pc = "no" /\ joins[c] # "waiting" /\ lock.who # c

-----------------------------------------------------------------------------
(* submit(), under the executor's lock.                                    *)

\* Mutant: submit() does not ask whether the executor was shut down.
PutItemAnyway(a, f) ==
  /\ lock = Unlocked
  /\ Create(f)
  /\ queue' = Append(queue, f)
  /\ lock' = [who |-> a, at |-> "adjust"]
  /\ UNCHANGED <<program, shutdown, collected, threads, worker, joins, exit>>

PutItem(a, f) ==
  /\ lock = Unlocked /\ ~shutdown
  /\ Create(f)
  /\ queue' = Append(queue, f)
  /\ lock' = [who |-> a, at |-> "adjust"]
  /\ UNCHANGED <<program, shutdown, collected, threads, worker, joins, exit>>

\* A client submits what no task submits; after shutdown() it gets RuntimeError.
\* Futures, and threads, are taken in a fixed order: the name tells nothing.
Submittable == {f \in Futures : state[f] = "unborn" /\ \A g \in Futures : program.spawns[g] # f}
ClientSubmit(c, f) ==
  /\ ClientRuns(c) /\ Free(c) /\ ~collected
  /\ f \in Submittable /\ f = CHOOSE g \in Submittable : TRUE
  /\ PutItem(c, f)

TaskSubmit(w) ==
  /\ At(w, "run") /\ program.spawns[Job(w)] # None
  /\ PutItem(w, program.spawns[Job(w)])

\* _adjust_thread_count() starts a thread, or there are enough.
AdjustThreadCount ==
  /\ lock.at = "adjust" /\ exit.pc # "over"
  /\ IF threads # Workers
     THEN /\ \E w \in Workers :
               /\ worker[w].pc = "unborn" /\ w = CHOOSE v \in Workers : worker[v].pc = "unborn"
               /\ worker' = [worker EXCEPT ![w].pc = "get"]
               /\ lock' = [lock EXCEPT !.at = w]
     ELSE /\ lock' = Unlocked
          /\ UNCHANGED worker
  /\ UNCHANGED <<futureVars, program, queue, shutdown, collected, threads, joins, exit>>

\* The new thread is added to _threads and _threads_queues.
AddThread ==
  /\ lock.at \in Workers /\ exit.pc # "over"
  /\ threads' = threads \cup {lock.at}
  /\ lock' = Unlocked
  /\ UNCHANGED <<futureVars, program, queue, shutdown, collected, worker, joins, exit>>

-----------------------------------------------------------------------------
(* _worker().                                                              *)

Get(w) ==
  /\ At(w, "get") /\ todo[w] = <<>> /\ queue # <<>>
  /\ worker' = [worker EXCEPT ![w] =
       IF Head(queue) = None THEN [pc |-> "check", job |-> None] ELSE [pc |-> "start", job |-> Head(queue)]]
  /\ queue' = Tail(queue)
  /\ UNCHANGED <<futureVars, program, shutdown, collected, lock, threads, joins, exit>>

\* Mutant: the answer of set_running_or_notify_cancel() is not looked at.
StartCancelled(w) ==
  /\ At(w, "start")
  /\ SetRunningOrNotifyCancel(w, Job(w))
  /\ worker' = [worker EXCEPT ![w].pc = "run"]
  /\ UNCHANGED <<program, queue, shutdown, collected, lock, threads, joins, exit>>

\* _WorkItem.run(): a cancelled future is not run.
Start(w) ==
  /\ At(w, "start")
  /\ SetRunningOrNotifyCancel(w, Job(w))
  /\ worker' = [worker EXCEPT ![w] =
       IF state[Job(w)] = "PENDING" THEN [@ EXCEPT !.pc = "run"] ELSE [pc |-> "get", job |-> None]]
  /\ UNCHANGED <<program, queue, shutdown, collected, lock, threads, joins, exit>>

\* The task returns or raises; it raises if its own submit() was refused.
TaskEnds(w, how) ==
  /\ At(w, "run") /\ lock.who # w
  /\ LET s == program.spawns[Job(w)] IN
       s # None /\ state[s] = "unborn" => shutdown /\ lock = Unlocked /\ how = "exception"

End(w, how) ==
  /\ TaskEnds(w, how)
  /\ Finish(w, Job(w), how)
  /\ worker' = [worker EXCEPT ![w] = [pc |-> "get", job |-> None]]
  /\ UNCHANGED <<program, queue, shutdown, collected, lock, threads, joins, exit>>

\* RuntimeError out of run(), at its start or end: it is logged and the thread ends.
Die(w) ==
  /\ \/ At(w, "start") /\ NotifyCancelRaises(w, Job(w))
     \/ \E how \in {"result", "exception"} : TaskEnds(w, how) /\ FinishRaises(w, Job(w), how)
  /\ worker' = [worker EXCEPT ![w] = [pc |-> "dead", job |-> None]]
  /\ UNCHANGED <<program, queue, shutdown, collected, lock, threads, joins, exit>>

\* A None was taken: the worker ends, and wakes another one, if it has to.
Check(w) ==
  /\ At(w, "check")
  /\ IF exit.pc # "no" \/ collected \/ shutdown
     THEN /\ queue' = Append(queue, None)
          /\ worker' = [worker EXCEPT ![w].pc = "gone"]
     ELSE /\ worker' = [worker EXCEPT ![w].pc = "get"]
          /\ UNCHANGED queue
  /\ UNCHANGED <<futureVars, program, shutdown, collected, lock, threads, joins, exit>>

WorkerCallback(w) == exit.pc # "over" /\ Callback(w) /\ UNCHANGED poolVars

-----------------------------------------------------------------------------
(* The end of the executor.                                                *)

Ended(w) == worker[w].pc \in {"gone", "dead"}
Gone(ws) == \A w \in ws : Ended(w)

Shutdown(c, wait) ==
  /\ ClientRuns(c) /\ ~collected /\ lock = Unlocked
  /\ CallElsewhere(c)
  /\ shutdown' = TRUE
  /\ queue' = Append(queue, None)
  /\ joins' = [joins EXCEPT ![c] = IF wait THEN "waiting" ELSE @]
  /\ UNCHANGED <<program, collected, lock, threads, worker, exit>>

Joined(c) ==
  /\ joins[c] = "waiting" /\ Gone(threads)
  /\ joins' = [joins EXCEPT ![c] = "done"]
  /\ UNCHANGED <<futureVars, program, queue, shutdown, collected, lock, threads, worker, exit>>

\* Nobody refers to the executor any more: a weak reference per worker calls
\* weakref_cb().  A task that submits, a worker that starts one, and who is in
\* submit() or shutdown() refer to it.
Collect ==
  /\ program.collects /\ ~collected /\ exit.pc = "no" /\ lock = Unlocked
  /\ threads # {} /\ \A c \in Clients : joins[c] # "waiting"
  /\ \A f \in Born : program.spawns[f] # None => state[f] \in Settled
  /\ collected' = TRUE
  /\ queue' = queue \o [i \in 1..Cardinality({w \in threads : ~Ended(w)}) |-> None]
  /\ UNCHANGED <<futureVars, program, shutdown, lock, threads, worker, joins, exit>>

-----------------------------------------------------------------------------
(* _python_exit().                                                         *)

ExitFlag ==
  /\ exit.pc = "no" /\ \A c \in Clients : ClientRuns(c) /\ Free(c)
  /\ exit' = [exit EXCEPT !.pc = "flagged"]
  /\ UNCHANGED <<futureVars, program, queue, shutdown, collected, lock, threads, worker, joins>>

\* list(_threads_queues.items()); an ended thread of a collected executor is not in it.
ExitList ==
  /\ exit.pc = "flagged"
  /\ LET told == {w \in threads : collected => ~Ended(w)} IN
       exit' = [pc |-> "wake", told |-> told, left |-> Cardinality(told)]
  /\ UNCHANGED <<futureVars, program, queue, shutdown, collected, lock, threads, worker, joins>>

ExitWake ==
  /\ exit.pc = "wake" /\ exit.left > 0
  /\ exit' = [exit EXCEPT !.left = @ - 1]
  /\ queue' = Append(queue, None)
  /\ UNCHANGED <<futureVars, program, shutdown, collected, lock, threads, worker, joins>>

ExitJoin ==
  /\ exit.pc = "wake" /\ exit.left = 0 /\ Gone(exit.told)
  /\ exit' = [exit EXCEPT !.pc = "over"]
  /\ UNCHANGED <<futureVars, program, queue, shutdown, collected, lock, threads, worker, joins>>

-----------------------------------------------------------------------------
ClientCall(c) ==
  \/ "submit" \in program.calls[c] /\ \E f \in Futures : ClientSubmit(c, f)
  \/ "shutdown" \in program.calls[c] /\ \E wait \in BOOLEAN : Shutdown(c, wait)
  \/ ClientRuns(c) /\ FutureCall(c, program.calls[c]) /\ UNCHANGED poolVars
ClientProceed(c) == FutureProceed(c) /\ UNCHANGED poolVars
WorkerStep(w) ==
  \/ Get(w) \/ Start(w) \/ Die(w) \/ Check(w) \/ WorkerCallback(w) \/ TaskSubmit(w)
  \/ \E how \in {"result", "exception"} : End(w, how)
Exit == ExitList \/ ExitWake \/ ExitJoin

Next ==
  \/ \E c \in Clients : ClientCall(c) \/ ClientProceed(c) \/ Joined(c)
  \/ \E w \in Workers : WorkerStep(w)
  \/ AdjustThreadCount \/ AddThread \/ Collect \/ ExitFlag \/ Exit

Spec == Init /\ [][Next]_vars

\* Threads are scheduled, tasks and callbacks end, timeouts expire.  Nothing makes
\* a client call again, the executor be collected or the program end.
FairSpec ==
  /\ Spec
  /\ \A c \in Clients : WF_vars(ClientProceed(c)) /\ WF_vars(Joined(c))
  /\ \A w \in Workers : WF_vars(WorkerStep(w))
  /\ WF_vars(AdjustThreadCount) /\ WF_vars(AddThread) /\ WF_vars(Exit)

-----------------------------------------------------------------------------
(* Properties.                                                             *)

TypeOK ==
  /\ FutureTypeOK
  /\ program \in Programs /\ queue \in Seq(Futures \cup {None})
  /\ shutdown \in BOOLEAN /\ collected \in BOOLEAN
  /\ lock \in [who : Actors \cup {None}, at : {"free", "adjust"} \cup Workers]
  /\ threads \subseteq Workers
  /\ worker \in [Workers -> [pc : {"unborn", "get", "start", "run", "check", "gone", "dead"},
                             job : Futures \cup {None}]]
  /\ joins \in [Clients -> {"no", "waiting", "done"}]
  /\ exit \in [pc : {"no", "flagged", "wake", "over"}, told : SUBSET Workers, left : Nat]

\* The pool uses futures as an executor must: it asks each whether it may run,
\* finishes only what it began to run, once, and calls the callbacks of what it
\* has finished before it goes on to the next.
ImplementsFutures == FutureSpec

\* Everything that was submitted is done and was seen by its waiters.
AllSettled == \A f \in Born : state[f] \in Settled

\* Workers were started and all have died of a RuntimeError.
AllDied ==
  /\ \E w \in Workers : worker[w].pc = "dead"
  /\ \A w \in Workers : worker[w].pc \in {"unborn", "dead"}

\* shutdown(): "If wait is True then this method will not return until all the
\* pending futures are done executing and the resources associated with the
\* executor have been freed" (Doc/library/concurrent.futures.rst); and so it is
\* at exit, if no task submits another one.  One worker that has not died of a
\* RuntimeError is enough for that.
ShutdownMeansDone ==
  /\ TypeOK
  /\ (\E c \in Clients : joins[c] = "done") =>
       (AllSettled \/ AllDied) /\ \A w \in Workers : worker[w].pc \in {"unborn", "gone", "dead"}
  /\ exit.pc = "over" /\ (\A f \in Futures : program.spawns[f] = None) => AllSettled \/ AllDied

\* "an exit handler is installed which tells the workers to exit when their work
\* queues are empty and then waits until the threads finish" (thread.py:24-26).
ExitMeansDone == exit.pc = "over" => AllSettled

\* Whoever calls result(), wait(), as_completed() or shutdown() comes back, and
\* the interpreter's exit comes to its end.  Not who waits without a timeout for a
\* future whose completion raised before it came to this caller, and nobody, if
\* all workers there can be have died so.
Forgotten(c) == client[c].missed # {} /\ ~client[c].timed
EveryCallReturns ==
  /\ \A c \in Clients : (~Free(c) \/ joins[c] = "waiting") ~>
       \/ Free(c) /\ joins[c] # "waiting"
       \/ Forgotten(c)
       \/ \A w \in Workers : worker[w].pc = "dead"
  /\ exit.pc = "flagged" ~> exit.pc = "over"
-----------------------------------------------------------------------------
(* What is true between any two steps.                                     *)

\* Each future is queued once; behind a None there is no work.
QueuedOnce(q) == \A i, j \in DOMAIN q : q[i] = q[j] /\ q[i] # None => i = j
NonesLast(q) == \A i, j \in DOMAIN q : q[i] = None /\ i < j => q[j] = None

\* A future that is not settled is in one place: it is the work item of one
\* worker or queued once; it runs as that worker says.
WorkIsOnce ==
  /\ QueuedOnce(queue)
  /\ \A f \in ToSet(queue) \ {None} : state[f] \in {"PENDING", "CANCELLED"}
  /\ \A w \in Workers :
       /\ Job(w) # None <=> worker[w].pc \in {"start", "run"}
       /\ worker[w].pc = "start" => state[Job(w)] \in {"PENDING", "CANCELLED"}
       /\ worker[w].pc = "run" => state[Job(w)] = "RUNNING"
       /\ worker[w].pc # "get" => todo[w] = <<>>
       /\ Job(w) # None => Job(w) \notin ToSet(queue) /\ \A v \in Workers : Job(v) = Job(w) => v = w

WorkIsKept == \A f \in Born : state[f] \in Settled \/ f \in ToSet(queue) \/ \E w \in Workers : Job(w) = f

\* _threads lists who was started, but for the thread that is being added.
ThreadsListed ==
  /\ lock.at = "free" <=> lock.who = None
  /\ lock.who \in Workers => worker[lock.who].pc = "run" /\ program.spawns[Job(lock.who)] # None
  /\ {w \in Workers : worker[w].pc # "unborn"} = threads \cup ({lock.at} \cap Workers)
  /\ Born # {} /\ lock.at # "adjust" => \E w \in Workers : worker[w].pc # "unborn"

NoTaskSubmits == \A f \in Futures : program.spawns[f] = None
Stopping == {w \in Workers : worker[w].pc \in {"check", "gone"}}

\* No work comes behind a None, unless a task submits while the program exits.
NoneIsLast ==
  /\ exit.pc = "no" /\ ~shutdown /\ ~collected => None \notin ToSet(queue) /\ Stopping = {}
  /\ exit.pc = "no" \/ shutdown \/ collected \/ NoTaskSubmits =>
       /\ NonesLast(queue)
       /\ Stopping # {} => ToSet(queue) \subseteq {None}

\* After shutdown(), collection or exit nobody is about to submit.
NobodySubmits ==
  /\ shutdown => lock = Unlocked
  /\ \A c \in Clients : joins[c] # "no" => shutdown
  /\ collected => \A f \in Born : program.spawns[f] # None => state[f] \in Settled
  /\ exit.pc # "no" => lock.who \notin Clients
  /\ exit.pc \in {"wake", "over"} /\ NoTaskSubmits => Gone(threads \ exit.told)

\* WorkIsOnce says why a worker may finish what it runs; WorkIsKept, NoneIsLast and
\* NobodySubmits, why nothing is left when the workers are gone.
PoolInv ==
  /\ WorkIsOnce /\ WorkIsKept /\ ThreadsListed
  /\ NoneIsLast /\ NobodySubmits /\ ShutdownMeansDone
IInv == FutureIInv /\ PoolInv
=============================================================================

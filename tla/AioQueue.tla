----------------------------- MODULE AioQueue -----------------------------
(***************************************************************************)
(* asyncio.JoinableQueue, which is asyncio.Queue with task_done(), join()  *)
(* and an Event.  Items are named by the number of their put() call.       *)
(***************************************************************************)
EXTENDS AioTasks

CONSTANTS
  maxsize, \* 0: infinite
  MaxPuts  \* bound on put() calls

VARIABLES
  queue,            \* _queue
  getters,          \* _getters
  putters,          \* _putters: pairs of an item and a future
  unfinished_tasks, \* _unfinished_tasks
  finished,         \* _finished, an Event: its _value
  joiners,          \* and its _waiters
  parcel,            \* the item of the put() a task is in, or the result of its get(), or 0
  todo,             \* how many items each task has got and not reported done
  puts,             \* number of put() calls
  out,              \* history: the items that left the queue, in order
  got,              \* history: the items that get() has returned
  refused           \* history: the items of put() calls cancelled in time

qvars == <<queue, getters, putters, unfinished_tasks, finished, joiners,
           parcel, todo, puts, out, got, refused>>

QueueInit ==
  /\ queue = <<>> /\ getters = <<>> /\ putters = <<>>
  /\ unfinished_tasks = 0 /\ finished = TRUE /\ joiners = <<>>
  /\ parcel = [t \in Tasks |-> 0]
  /\ todo = [t \in Tasks |-> 0]
  /\ puts = 0
  /\ out = <<>> /\ got = {} /\ refused = {}

-----------------------------------------------------------------------------
(* Pieces of put() and get().                                              *)

\* MUTANT: futures that are done stay at the head.
DropsNothing(list) == list

\* _consume_done_getters() and _consume_done_putters().
Consumed(list) ==
  LET live == {i \in DOMAIN list : Pending(list[i])}
  IN IF live = {} THEN <<>> ELSE SubSeq(list, Min(live), Len(list))
ConsumedGetters == Consumed(getters)
ConsumedPutters ==
  LET live == Consumed([i \in DOMAIN putters |-> putters[i][2]])
  IN SubSeq(putters, Len(putters) - Len(live) + 1, Len(putters))

\* The items that have been in the queue.
Entered == ToSet(out) \cup ToSet(queue)

Full == maxsize > 0 /\ Len(queue) = maxsize

\* What _put() does besides the container.
CountUp == unfinished_tasks' = unfinished_tasks + 1 /\ finished' = FALSE

\* The future of a task is done with: t stops waiting for it.
Forget(t, list) == [i \in DOMAIN list |-> IF list[i] = t THEN Dead ELSE list[i]]
ForgetPutter(t) ==
  [i \in DOMAIN putters |->
     IF putters[i][2] = t THEN <<putters[i][1], Dead>> ELSE putters[i]]
ForgetCallback(t) ==
  [i \in 1..(Len(ready) - 1) |->
     IF ready[i + 1] = Settle(t) THEN Settle(Dead) ELSE ready[i + 1]]

\* What get() and get_nowait() do with the item.
Receive(t, item) ==
  /\ got' = got \cup {item}
  /\ todo' = [todo EXCEPT ![t] = @ + 1]

-----------------------------------------------------------------------------
(* put() and put_nowait()                                                  *)

\* A getter waits: the item goes through the queue to its future.
PutHandsOver(t) ==
  /\ current = t /\ puts < MaxPuts /\ puts' = puts + 1
  /\ ConsumedGetters # <<>>
  /\ LET getter == Head(ConsumedGetters)
         all == Append(queue, puts')
     IN /\ getters' = Tail(ConsumedGetters)
        /\ queue' = Tail(all)
        /\ out' = Append(out, Head(all))
        /\ parcel' = IF getter = Dead THEN parcel ELSE [parcel EXCEPT ![getter] = Head(all)]
        /\ SetResults(<<getter>>)
  /\ CountUp
  /\ UNCHANGED <<putters, joiners, todo, got, refused>>

PutNow(t) ==
  /\ current = t /\ puts < MaxPuts /\ puts' = puts + 1
  /\ ConsumedGetters = <<>> /\ getters' = <<>>
  /\ ~Full
  /\ queue' = Append(queue, puts')
  /\ CountUp
  /\ UNCHANGED <<tvars, putters, joiners, parcel, todo, out, got, refused>>

\* put() on a full queue blocks; put_nowait() raises QueueFull.
PutBlocks(t) ==
  /\ current = t /\ puts < MaxPuts /\ puts' = puts + 1
  /\ ConsumedGetters = <<>> /\ getters' = <<>>
  /\ Full
  /\ putters' = Append(putters, <<puts', t>>)
  /\ parcel' = [parcel EXCEPT ![t] = puts']
  /\ Block(t, "put", <<>>)
  /\ UNCHANGED <<queue, unfinished_tasks, finished, joiners, todo, out, got, refused>>

\* put() returns or raises CancelledError.
PutEnds(t) ==
  /\ Runs(t, "put")
  /\ Resume(t, ForgetCallback(t))
  /\ putters' = ForgetPutter(t)
  /\ parcel' = [parcel EXCEPT ![t] = 0]
  /\ refused' = refused \cup ({parcel[t]} \ Entered)
  /\ UNCHANGED <<queue, getters, unfinished_tasks, finished, joiners, todo, puts, out, got>>

-----------------------------------------------------------------------------
(* get() and get_nowait()                                                  *)

\* A putter waits: its item takes the place of the one that leaves.  get()
\* lets the loop set its future, get_nowait() does so itself.
GetFromPutter(t, nowait) ==
  /\ current = t
  /\ ConsumedPutters # <<>>
  /\ LET item == Head(ConsumedPutters)[1]
         putter == Head(ConsumedPutters)[2]
         all == Append(queue, item)
     IN /\ putters' = Tail(ConsumedPutters)
        /\ queue' = Tail(all)
        /\ out' = Append(out, Head(all))
        /\ Receive(t, Head(all))
        /\ IF nowait
             THEN SetResults(<<putter>>)
             ELSE /\ ready' = Append(ready, Settle(putter))
                  /\ UNCHANGED <<current, fut, must_cancel, at, cancels, late>>
  /\ CountUp
  /\ UNCHANGED <<getters, joiners, parcel, puts, refused>>

GetNow(t) ==
  /\ current = t
  /\ ConsumedPutters = <<>> /\ putters' = <<>>
  /\ queue # <<>>
  /\ queue' = Tail(queue)
  /\ out' = Append(out, Head(queue))
  /\ Receive(t, Head(queue))
  /\ UNCHANGED <<tvars, getters, unfinished_tasks, finished, joiners, parcel, puts, refused>>

\* get() on an empty queue blocks; get_nowait() raises QueueEmpty.
GetBlocks(t) ==
  /\ current = t
  /\ ConsumedPutters = <<>> /\ putters' = <<>>
  /\ queue = <<>>
  /\ getters' = Append(getters, t)
  /\ Block(t, "get", <<>>)
  /\ UNCHANGED <<queue, unfinished_tasks, finished, joiners, parcel, todo, puts, out, got, refused>>

\* get() returns the result of its future, or raises CancelledError.
GetEnds(t) ==
  /\ Runs(t, "get")
  /\ Resume(t, Tail(ready))
  /\ getters' = Forget(t, getters)
  /\ IF Thrown(t) THEN UNCHANGED <<got, todo>> ELSE Receive(t, parcel[t])
  /\ parcel' = [parcel EXCEPT ![t] = 0]
  /\ UNCHANGED <<queue, putters, unfinished_tasks, finished, joiners, puts, out, refused>>

\* The loop calls putter.set_result(None); on a future that is done this
\* raises InvalidStateError, which the loop logs.
SettlePutter(f) ==
  /\ current = None /\ ready # <<>> /\ Head(ready) = Settle(f)
  /\ fut' = Woken(Live(<<f>>))
  /\ ready' = Tail(ready) \o Wakeups(Live(<<f>>))
  /\ UNCHANGED <<current, must_cancel, at, cancels, late, qvars>>

-----------------------------------------------------------------------------
(* task_done() and join()                                                  *)

TaskDone(t) ==
  /\ current = t /\ todo[t] > 0
  /\ todo' = [todo EXCEPT ![t] = @ - 1]
  /\ unfinished_tasks' = unfinished_tasks - 1
  /\ IF unfinished_tasks' = 0 /\ ~finished
       THEN finished' = TRUE /\ SetResults(Live(joiners))
       ELSE UNCHANGED <<tvars, finished>>
  /\ UNCHANGED <<queue, getters, putters, joiners, parcel, puts, out, got, refused>>

\* With nothing unfinished join() returns at once.
JoinBlocks(t) ==
  /\ current = t
  /\ unfinished_tasks > 0 /\ ~finished
  /\ joiners' = Append(joiners, t)
  /\ Block(t, "join", <<>>)
  /\ UNCHANGED <<queue, getters, putters, unfinished_tasks, finished, parcel, todo, puts, out, got, refused>>

JoinEnds(t) ==
  /\ Runs(t, "join")
  /\ Resume(t, Tail(ready))
  /\ joiners' = RemoveFirst(joiners, t)
  /\ UNCHANGED <<queue, getters, putters, unfinished_tasks, finished, parcel, todo, puts, out, got, refused>>

QueueNext ==
  \/ \E t \in Tasks :
       \/ PutHandsOver(t) \/ PutNow(t) \/ PutBlocks(t) \/ PutEnds(t)
       \/ \E nowait \in BOOLEAN : GetFromPutter(t, nowait)
       \/ GetNow(t) \/ GetBlocks(t) \/ GetEnds(t)
       \/ TaskDone(t) \/ JoinBlocks(t) \/ JoinEnds(t)
  \/ \E f \in Tasks \cup {Dead} : SettlePutter(f)

-----------------------------------------------------------------------------
Putters == {p[2] : p \in ToSet(putters)}

\* What put() and get() assert, and join() relies on: nobody who can still
\* be served waits for an item beside one, for a slot beside a free one, or
\* for the end of nothing; a putter that was taken off the list will be
\* told.
NobodyBesideIt ==
  /\ AnyLive(getters) => queue = <<>>
  /\ (\E f \in Putters : Pending(f)) => Full
  /\ AnyLive(joiners) => unfinished_tasks > 0
  /\ \A t \in Tasks : at[t] = "put" /\ fut[t] = "pending" =>
       t \in Putters \/ Settle(t) \in ToSet(ready)

\* Items leave in the order of their put() calls.  No item is lost, made up
\* or received twice, except in the hands of a getter that was cancelled after
\* its wake-up.  What entered the queue and was not reported is what is
\* unfinished, and the event is set when that is nothing.
ItemsKept ==
  LET inTransit == {parcel[t] : t \in {u \in Tasks : at[u] = "get"}} \ {0}
      offered == {parcel[t] : t \in {u \in Tasks : at[u] = "put"}}
      waiting == {p[1] : p \in {q \in ToSet(putters) : Pending(q[2])}}
      held == Cardinality(UNION {{t} \X (1..todo[t]) : t \in Tasks})
  IN
  /\ \A i, j \in DOMAIN out : i < j => out[i] < out[j]
  /\ ToSet(out) \cap ToSet(queue) = {}
  /\ got \cup inTransit \subseteq ToSet(out) /\ got \cap inTransit = {}
  /\ ~late => ToSet(out) = got \cup inTransit
  /\ 1..puts = Entered \cup offered \cup refused
  /\ Entered \cap (refused \cup waiting) = {}
  /\ unfinished_tasks = Cardinality(Entered) - (Cardinality(got) - held)
  /\ finished <=> unfinished_tasks = 0

\* The tasks in a call and the lists agree; the items wait in the order of their
\* put() calls; each future is settled for the put() it was made for, and each
\* getter that was woken has an item of its own.
QueueSound ==
  /\ NobodyBesideIt /\ ItemsKept
  /\ queue \in Seq(1..puts) /\ out \in Seq(1..puts) /\ puts \in Nat
  /\ getters \in Seq(Tasks \cup {Dead})
  /\ putters \in Seq((1..puts) \X (Tasks \cup {Dead}))
  /\ joiners \in Seq(Tasks) /\ IsInjective(joiners)
  /\ parcel \in [Tasks -> 0..puts] /\ todo \in [Tasks -> Nat]
  /\ unfinished_tasks \in Nat /\ finished \in BOOLEAN
  /\ refused \subseteq 1..puts
  /\ \A t \in Tasks :
       /\ at[t] \in {"body", "end", "put", "get", "join"}
       /\ at[t] \in {"put", "get"} \/ parcel[t] = 0
       /\ t \in ToSet(getters) => at[t] = "get"
       /\ t \in ToSet(joiners) <=> at[t] = "join"
       /\ Settle(t) \in ToSet(ready) => at[t] = "put"
       /\ at[t] = "put" => parcel[t] \notin refused \cup {0}
       /\ at[t] = "get" => (parcel[t] # 0 <=> fut[t] = "result")
       /\ \A u \in Tasks \ {t} : at[u] = at[t] /\ parcel[u] = parcel[t] => parcel[t] = 0
  /\ \A p \in ToSet(putters) : p[2] \in Tasks => at[p[2]] = "put" /\ parcel[p[2]] = p[1]
  /\ \A i, j \in DOMAIN queue : i < j => queue[i] < queue[j]
  /\ \A x \in ToSet(out), y \in ToSet(queue) : x < y
  /\ \A i, j \in DOMAIN putters : i < j => putters[i][1] < putters[j][1]
  /\ \A p \in ToSet(putters) : Pending(p[2]) => \A x \in Entered : x < p[1]
=============================================================================

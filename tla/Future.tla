------------------------------- MODULE Future -------------------------------
(***************************************************************************)
(* concurrent.futures._base: Future, wait() and as_completed().            *)
(*                                                                         *)
(* Clients cancel futures, add callbacks, ask for a result and wait for    *)
(* sets of futures; executors run and finish them.  A section of code      *)
(* under a future's condition is one step (wait() and as_completed() take  *)
(* the conditions of all their futures, which is one step as well, since   *)
(* nobody holds one while waiting for another).  Callbacks run outside the *)
(* condition, each in a step of its own.                                   *)
(*                                                                         *)
(* notify_all() raises when a timed sleeper removes itself while notify()  *)
(* copies the deque (see module Condition), of the future's condition or   *)
(* of the event of a waiter.  Whoever completes the future then leaves it  *)
(* completed, but some are not told and no callback is called.  A timed    *)
(* sleeper may do that at any moment, so the raising outcomes are actions  *)
(* of their own.                                                           *)
(***************************************************************************)
EXTENDS Integers, Sequences, SequencesExt, FiniteSets

CONSTANTS Futures, Clients, Executors,
          MaxCalls       \* bound on the calls of one client

ASSUME FutureAssumption ==
  /\ IsFiniteSet(Futures)
  /\ Clients \cap Executors = {}
  /\ MaxCalls \in Nat

VARIABLES
  state,      \* _state of each future, "unborn" before it is made
  raised,     \* _exception is set
  waiters,    \* _waiters: the clients whose waiter is installed
  callbacks,  \* _done_callbacks, each named after the client that added it
  called,     \* the callbacks of a future that were called, in order
  todo,       \* the callbacks each thread has still to call
  client,     \* what each client is doing, with its _Waiter
  skipped     \* history: the futures whose completion raised before the callbacks

futureVars == <<state, raised, waiters, callbacks, called, todo, client, skipped>>

Actors == Clients \cup Executors
States == {"unborn", "PENDING", "RUNNING", "CANCELLED", "CANCELLED_AND_NOTIFIED", "FINISHED"}
Done == {"CANCELLED", "CANCELLED_AND_NOTIFIED", "FINISHED"}
\* What wait() and as_completed() take for done.
Settled == {"CANCELLED_AND_NOTIFIED", "FINISHED"}
Modes == {"FIRST_COMPLETED", "FIRST_EXCEPTION", "ALL_COMPLETED"}

\* A client between calls; event, finished, left are of its condition or waiter,
\* missed: history, the futures of the call whose completion raised before it
\* had told this client.
Idle(calls) ==
  [pc |-> "idle", mode |-> "none", timed |-> FALSE, fs |-> {}, event |-> FALSE,
   finished |-> <<>>, left |-> 0, got |-> <<>>, rest |-> {}, late |-> FALSE,
   missed |-> {}, calls |-> calls]

FutureInit ==
  /\ state = [f \in Futures |-> "unborn"]
  /\ raised = [f \in Futures |-> FALSE]
  /\ waiters = [f \in Futures |-> {}]
  /\ callbacks = [f \in Futures |-> <<>>]
  /\ called = [f \in Futures |-> <<>>]
  /\ todo = [a \in Actors |-> <<>>]
  /\ client = [c \in Clients |-> Idle(0)]
  /\ skipped = {}

Born == {f \in Futures : state[f] # "unborn"}
Free(c) == client[c].pc = "idle" /\ todo[c] = <<>>
MayCall(c) == Free(c) /\ client[c].calls < MaxCalls
Call(c) == Idle(client[c].calls + 1)

-----------------------------------------------------------------------------
(* What happens to a future.                                               *)

\* Mutant: notify_all() is forgotten.
NotifyNobody(f, r) == r

\* Condition.notify_all(): whoever sleeps in result() or exception().
NotifyAll(f, r) ==
  IF r.pc = "result" /\ f \in r.fs THEN [r EXCEPT !.event = TRUE] ELSE r

\* Mutants: the first future that is done wakes the waiter; the last one does not.
DecrementWakes(r) == [r EXCEPT !.left = @ - 1, !.event = TRUE]
DecrementTooFar(r) == [r EXCEPT !.left = @ - 1, !.event = @ \/ r.left = 0]

\* A waiter of ALL_COMPLETED or FIRST_EXCEPTION counts what is still pending.
Decrement(r) == [r EXCEPT !.left = @ - 1, !.event = @ \/ r.left = 1]

\* waiter.add_result(), add_exception() or add_cancelled().
AddTo(r, f, how) ==
  LET added == [r EXCEPT !.finished = Append(@, f)] IN
  IF r.mode \in {"FIRST_COMPLETED", "AS_COMPLETED"} \/ (r.mode = "FIRST_EXCEPTION" /\ how = "exception")
  THEN [added EXCEPT !.event = TRUE]
  ELSE Decrement(added)

TellWaiters(f, how) ==
  [c \in Clients |-> IF c \in waiters[f] THEN AddTo(client[c], f, how) ELSE client[c]]

\* The notify_all() of a waiter's event raises: its timed client, whose event is
\* being set, takes itself off.  Some have been told before, the others are not.
SetRaises(r, f, how) ==
  /\ r.pc \in {"wait", "generate"} /\ r.timed
  /\ ~r.event /\ AddTo(r, f, how).event
Miss(f, r) == [r EXCEPT !.missed = @ \cup {f}]
TellSome(told, f, how) ==
  [c \in Clients |-> IF c \in told THEN AddTo(client[c], f, how)
                     ELSE IF c \in waiters[f] THEN Miss(f, client[c]) ELSE client[c]]

\* The notify_all() of the future raises: a timed sleeper takes itself off.
NotifyAllRaises(f) ==
  \E c \in Clients : client[c].pc = "result" /\ client[c].timed /\ f \in client[c].fs
PassOver(f, r) == IF r.pc = "result" /\ f \in r.fs THEN Miss(f, r) ELSE r

\* _invoke_callbacks(), to be done by a.
CallbacksTodo(a, f) == [todo EXCEPT ![a] = [i \in DOMAIN callbacks[f] |-> <<f, callbacks[f][i]>>]]

\* A call that concerns no future.
CallElsewhere(c) ==
  /\ MayCall(c)
  /\ client' = [client EXCEPT ![c] = Call(c)]
  /\ UNCHANGED <<state, raised, waiters, callbacks, called, todo, skipped>>

Create(f) ==
  /\ state[f] = "unborn"
  /\ state' = [state EXCEPT ![f] = "PENDING"]
  /\ UNCHANGED <<raised, waiters, callbacks, called, todo, client, skipped>>

\* cancel() changes nothing when the future runs or is done already.
Cancel(c, f) ==
  /\ MayCall(c) /\ state[f] = "PENDING"
  /\ state' = [state EXCEPT ![f] = "CANCELLED"]
  /\ client' = [d \in Clients |-> NotifyAll(f, IF d = c THEN Call(c) ELSE client[d])]
  /\ todo' = CallbacksTodo(c, f)
  /\ UNCHANGED <<raised, waiters, callbacks, called, skipped>>

\* Nobody is notified; the RuntimeError goes to the caller, no callback is called.
CancelRaises(c, f) ==
  /\ MayCall(c) /\ state[f] = "PENDING" /\ NotifyAllRaises(f)
  /\ state' = [state EXCEPT ![f] = "CANCELLED"]
  /\ client' = [d \in Clients |-> PassOver(f, IF d = c THEN Call(c) ELSE client[d])]
  /\ skipped' = skipped \cup {f}
  /\ UNCHANGED <<raised, waiters, callbacks, called, todo>>

SetRunningOrNotifyCancel(e, f) ==
  /\ UNCHANGED <<raised, waiters, callbacks, called, todo, skipped>>
  /\ \/ /\ state[f] = "CANCELLED"
        /\ state' = [state EXCEPT ![f] = "CANCELLED_AND_NOTIFIED"]
        /\ client' = TellWaiters(f, "cancelled")
     \/ /\ state[f] = "PENDING"
        /\ state' = [state EXCEPT ![f] = "RUNNING"]
        /\ UNCHANGED client

NotifyCancelRaises(e, f) ==
  /\ state[f] = "CANCELLED"
  /\ \E told \in SUBSET waiters[f] :
       /\ \E c \in told : SetRaises(client[c], f, "cancelled")
       /\ client' = TellSome(told, f, "cancelled")
  /\ state' = [state EXCEPT ![f] = "CANCELLED_AND_NOTIFIED"]
  /\ UNCHANGED <<raised, waiters, callbacks, called, todo, skipped>>

\* set_result() and set_exception().
Finish(e, f, how) ==
  /\ state' = [state EXCEPT ![f] = "FINISHED"]
  /\ raised' = [raised EXCEPT ![f] = how = "exception"]
  /\ client' = LET told == TellWaiters(f, how) IN [c \in Clients |-> NotifyAll(f, told[c])]
  /\ todo' = CallbacksTodo(e, f)
  /\ UNCHANGED <<waiters, callbacks, called, skipped>>

\* They raise, at the event of one of the waiters or after that.
FinishRaises(e, f, how) ==
  /\ \E told \in SUBSET waiters[f] :
       /\ \/ \E c \in told : SetRaises(client[c], f, how)
          \/ told = waiters[f] /\ NotifyAllRaises(f)
       /\ client' = LET some == TellSome(told, f, how) IN [c \in Clients |-> PassOver(f, some[c])]
  /\ state' = [state EXCEPT ![f] = "FINISHED"]
  /\ raised' = [raised EXCEPT ![f] = how = "exception"]
  /\ skipped' = skipped \cup {f}
  /\ UNCHANGED <<waiters, callbacks, called, todo>>

\* Mutant: the callback is listed even if the future is done already.
AddCallbackUnchecked(c, f) ==
  /\ MayCall(c) /\ f \in Born
  /\ c \notin ToSet(callbacks[f]) \cup ToSet(called[f])
  /\ callbacks' = [callbacks EXCEPT ![f] = Append(@, c)]
  /\ client' = [client EXCEPT ![c] = Call(c)]
  /\ UNCHANGED <<state, raised, waiters, called, todo, skipped>>

\* A callback of a done future is called by the caller itself.
AddDoneCallback(c, f) ==
  /\ MayCall(c) /\ f \in Born
  /\ c \notin ToSet(callbacks[f]) \cup ToSet(called[f])
  /\ IF state[f] \notin Done
     THEN /\ callbacks' = [callbacks EXCEPT ![f] = Append(@, c)]
          /\ UNCHANGED todo
     ELSE /\ todo' = [todo EXCEPT ![c] = << <<f, c>> >>]
          /\ UNCHANGED callbacks
  /\ client' = [client EXCEPT ![c] = Call(c)]
  /\ UNCHANGED <<state, raised, waiters, called, skipped>>

\* Thread a calls its next callback.
Callback(a) ==
  /\ todo[a] # <<>>
  /\ LET f == Head(todo[a])[1] IN
       called' = [called EXCEPT ![f] = Append(@, Head(todo[a])[2])]
  /\ todo' = [todo EXCEPT ![a] = Tail(@)]
  /\ UNCHANGED <<state, raised, waiters, callbacks, client, skipped>>

-----------------------------------------------------------------------------
(* result() and exception().                                               *)

Result(c, f, timed) ==
  /\ MayCall(c) /\ f \in Born /\ state[f] \notin Done
  /\ client' = [client EXCEPT ![c] = [Call(c) EXCEPT !.pc = "result", !.timed = timed, !.fs = {f}]]
  /\ UNCHANGED <<state, raised, waiters, callbacks, called, todo, skipped>>

\* Back from the condition: the state decides, not why the wait ended.
GotResult(c) ==
  /\ client[c].pc = "result" /\ (client[c].event \/ client[c].timed)
  /\ client' = [client EXCEPT ![c].pc = "return",
                              ![c].late = \A f \in client[c].fs : state[f] \notin Done]
  /\ UNCHANGED <<state, raised, waiters, callbacks, called, todo, skipped>>

-----------------------------------------------------------------------------
(* wait() and as_completed().                                              *)

\* wait() has its answer before it made a waiter.
Enough(fs, mode) ==
  LET done == {f \in fs : state[f] \in Settled} IN
  \/ done = fs
  \/ mode = "FIRST_COMPLETED" /\ done # {}
  \/ mode = "FIRST_EXCEPTION" /\ \E f \in done : raised[f]

\* What is done goes into the answer, a waiter is installed on every future.
CreateAndInstallWaiter(c, fs, mode, timed, pc) ==
  LET done == {f \in fs : state[f] \in Settled} IN
  /\ client' = [client EXCEPT ![c] =
       [Call(c) EXCEPT !.pc = pc, !.mode = mode, !.timed = timed, !.fs = fs, !.rest = fs,
                       !.got = SetToSeq(done), !.left = Cardinality(fs \ done)]]
  /\ waiters' = [f \in Futures |-> IF f \in fs THEN waiters[f] \cup {c} ELSE waiters[f]]
  /\ UNCHANGED <<state, raised, callbacks, called, todo, skipped>>

\* A wait() that has its answer at once is left out: it changes nothing.
Wait(c, fs, mode, timed) ==
  /\ MayCall(c) /\ fs \subseteq Born /\ ~Enough(fs, mode)
  /\ CreateAndInstallWaiter(c, fs, mode, timed, "wait")

\* waiter.event.wait() returns.
Woken(c) ==
  /\ client[c].pc = "wait" /\ (client[c].event \/ client[c].timed)
  /\ client' = [client EXCEPT ![c].pc = "remove", ![c].late = ~client[c].event]
  /\ UNCHANGED <<state, raised, waiters, callbacks, called, todo, skipped>>

\* as_completed(), up to its first wait: what is done is yielded at once.
AsCompleted(c, fs, timed) ==
  /\ MayCall(c) /\ fs \subseteq Born
  /\ CreateAndInstallWaiter(c, fs, "AS_COMPLETED", timed,
       IF \A f \in fs : state[f] \in Settled THEN "remove" ELSE "generate")

\* The list of the waiter is taken and yielded, until nothing is pending.
TakeFinished(c) ==
  /\ client[c].pc = "generate" /\ (client[c].event \/ client[c].timed)
  /\ LET got == client[c].got \o client[c].finished IN
       client' = [client EXCEPT ![c].got = got, ![c].finished = <<>>, ![c].event = FALSE,
                                ![c].pc = IF client[c].fs \subseteq ToSet(got) THEN "remove" ELSE @]
  /\ UNCHANGED <<state, raised, waiters, callbacks, called, todo, skipped>>

\* The deadline of as_completed() is over, or its consumer closes the generator.
GiveUp(c) ==
  /\ client[c].pc = "generate" /\ client[c].timed
  /\ client' = [client EXCEPT ![c].pc = "remove", ![c].late = TRUE]
  /\ UNCHANGED <<state, raised, waiters, callbacks, called, todo, skipped>>

\* The waiter is removed from one future after the other; wait() then adds
\* what the waiter has got to its answer.
RemoveWaiter(c) ==
  /\ client[c].pc = "remove"
  /\ \E f \in client[c].rest :
       LET rest == client[c].rest \ {f}
           removed == [client[c] EXCEPT !.rest = rest] IN
       /\ waiters' = [waiters EXCEPT ![f] = @ \ {c}]
       /\ client' = [client EXCEPT ![c] =
            IF rest # {} THEN removed
            ELSE [removed EXCEPT !.pc = "return",
                                 !.got = IF client[c].mode \in Modes THEN @ \o client[c].finished ELSE @]]
  /\ UNCHANGED <<state, raised, callbacks, called, todo, skipped>>

Return(c) ==
  /\ client[c].pc = "return"
  /\ client' = [client EXCEPT ![c] = Idle(client[c].calls)]
  /\ UNCHANGED <<state, raised, waiters, callbacks, called, todo, skipped>>

-----------------------------------------------------------------------------
Calls == {"cancel", "callback", "result", "as_completed"} \cup Modes

\* A client makes a call of one of these kinds.
FutureCall(c, kinds) ==
  \/ "cancel" \in kinds /\ \E f \in Futures : Cancel(c, f) \/ CancelRaises(c, f)
  \/ "callback" \in kinds /\ \E f \in Futures : AddDoneCallback(c, f)
  \/ "result" \in kinds /\ \E f \in Futures, timed \in BOOLEAN : Result(c, f, timed)
  \/ \E fs \in SUBSET Futures \ {{}}, timed \in BOOLEAN :
       \/ "as_completed" \in kinds /\ AsCompleted(c, fs, timed)
       \/ \E mode \in Modes \cap kinds : Wait(c, fs, mode, timed)

\* A client goes on with its call.
FutureProceed(c) ==
  Callback(c) \/ GotResult(c) \/ Woken(c) \/ TakeFinished(c) \/ GiveUp(c) \/ RemoveWaiter(c) \/ Return(c)

\* Any executor: it runs a future whenever it likes, and finishes what it runs.
FutureNext ==
  \/ \E f \in Futures : Create(f)
  \/ \E c \in Clients : FutureCall(c, Calls) \/ CallElsewhere(c) \/ FutureProceed(c)
  \/ \E e \in Executors : Callback(e)
  \/ \E e \in Executors, f \in Futures :
       \/ SetRunningOrNotifyCancel(e, f) \/ NotifyCancelRaises(e, f)
       \/ /\ state[f] = "RUNNING" /\ todo[e] = <<>>
          /\ \E how \in {"result", "exception"} : Finish(e, f, how) \/ FinishRaises(e, f, how)

FutureSpec == FutureInit /\ [][FutureNext]_futureVars
-----------------------------------------------------------------------------
(* Properties.                                                             *)

CallRecords ==
  [pc : {"idle", "result", "wait", "generate", "remove", "return"},
   mode : Modes \cup {"none", "AS_COMPLETED"}, timed : BOOLEAN, fs : SUBSET Futures,
   event : BOOLEAN, finished : Seq(Futures), left : Int, got : Seq(Futures),
   rest : SUBSET Futures, late : BOOLEAN, missed : SUBSET Futures,
   calls : 0..MaxCalls]

FutureTypeOK ==
  /\ state \in [Futures -> States] /\ raised \in [Futures -> BOOLEAN]
  /\ waiters \in [Futures -> SUBSET Clients]
  /\ callbacks \in [Futures -> Seq(Clients)] /\ called \in [Futures -> Seq(Clients)]
  /\ todo \in [Actors -> Seq(Futures \X Clients)]
  /\ client \in [Clients -> CallRecords]
  /\ skipped \subseteq Futures

\* add_done_callback(): "The callable will always be called", once: of a future
\* that is done a callback was called or some thread has still to call it, it is
\* not called twice, and never before the future is done.  Only if cancel(),
\* set_result() or set_exception() raised out of a notify_all() are the callbacks
\* that were listed not called.
CallbacksOnce ==
  \A f \in Futures :
    /\ state[f] \notin Done => called[f] = <<>>
    /\ IsInjective(called[f])
    /\ \A a \in Actors : \A i \in DOMAIN todo[a] : todo[a][i][1] = f =>
         /\ state[f] \in Done
         /\ todo[a][i][2] \notin ToSet(called[f])
         /\ \A b \in Actors : \A j \in DOMAIN todo[b] : todo[b][j] = todo[a][i] => a = b /\ i = j
    /\ state[f] \in Done /\ f \notin skipped => \A c \in ToSet(callbacks[f]) :
         c \in ToSet(called[f]) \/ \E a \in Actors : <<f, c>> \in ToSet(todo[a])

\* A waiter is installed on just the futures it has not been removed from.
WaitersInstalled ==
  \A c \in Clients, f \in Futures :
    c \in waiters[f] <=> client[c].pc \in {"wait", "generate", "remove"} /\ f \in client[c].rest

\* What the waiter of this client has seen.
Seen(r) == ToSet(r.got) \cup ToSet(r.finished)

\* These futures are what wait() was asked to wait for.
Sufficient(r, seen) ==
  /\ r.mode = "ALL_COMPLETED" => r.fs \subseteq seen
  /\ r.mode = "FIRST_COMPLETED" => seen # {}
  /\ r.mode = "FIRST_EXCEPTION" => r.fs \subseteq seen \/ \E f \in seen : raised[f]

\* Who sleeps in result(), wait() or as_completed() although there is what it
\* waits for has been notified; a waiter is installed on just the futures it has
\* not been removed from.  No completion is lost to a waiter, except the one that
\* raised out of a notify_all() before it came to this waiter.
WaiterWillWake ==
  /\ WaitersInstalled
  /\ \A c \in Clients : LET r == client[c]
                         settled == {f \in r.fs \ r.missed : state[f] \in Settled} IN
    /\ r.pc = "result" /\ (\E f \in r.fs \ r.missed : state[f] \in Done) => r.event
    /\ r.pc = "wait" /\ Sufficient(r, settled) => r.event
    /\ r.pc = "generate" /\ settled \ ToSet(r.got) # {} => r.event

AnswerTrue(r) ==
  r.pc = "return" =>
    /\ ~r.timed => ~r.late
    /\ r.mode # "none" => \A f \in ToSet(r.got) : f \in r.fs /\ state[f] \in Settled
    /\ r.mode = "ALL_COMPLETED" /\ ~r.late => r.fs \subseteq ToSet(r.got)
    /\ r.mode = "FIRST_COMPLETED" /\ ~r.late => r.got # <<>>
    /\ r.mode = "FIRST_EXCEPTION" /\ ~r.late =>
         r.fs \subseteq ToSet(r.got) \/ \E f \in ToSet(r.got) : raised[f]
    /\ r.mode = "AS_COMPLETED" =>
         /\ IsInjective(r.got)
         /\ ~r.late => ToSet(r.got) = r.fs

\* What a call gives back is true.  Without a timeout result() does not raise
\* TimeoutError, wait() returns because it has enough, as_completed() yields
\* every future; all of them name only done futures and as_completed() none
\* twice ("If any given Futures are duplicated, they will be returned once").
AnswersTrue == \A c \in Clients : AnswerTrue(client[c])
-----------------------------------------------------------------------------
(* What is true between any two steps.                                     *)

\* Nothing is listed twice; a callback that is still to be called comes from the
\* list or was just added by the thread itself.
CallbacksListed ==
  \A f \in Futures :
    /\ IsInjective(callbacks[f])
    /\ \A a \in Actors : \A i \in DOMAIN todo[a] :
         todo[a][i][1] = f => todo[a][i][2] \in ToSet(callbacks[f]) \cup {a}

RaisedWhenFinished == \A f \in Futures : raised[f] => state[f] = "FINISHED"

\* The waiter has seen just what is settled and was not missed, none twice.
SeenIsSettled(r) ==
  r.pc \in {"wait", "generate", "remove"} =>
    /\ r.rest \subseteq r.fs
    /\ \A f \in Seen(r) : f \in r.fs /\ state[f] \in Settled
    /\ \A f \in r.rest \ r.missed : state[f] \in Settled => f \in Seen(r)
    /\ IsInjective(r.got) /\ IsInjective(r.finished) /\ ToSet(r.got) \cap ToSet(r.finished) = {}
    /\ r.pc # "remove" => r.rest = r.fs

\* A waiter is woken just when it has seen enough, and counts what is missing.
EventTrue(r) ==
  /\ r.pc = "result" =>
       /\ r.event => \E f \in r.fs : state[f] \in Done
       /\ (\E f \in r.fs \ r.missed : state[f] \in Done) => r.event
  /\ r.pc = "wait" =>
       /\ r.mode \in Modes /\ r.fs # {} /\ (r.event <=> Sufficient(r, Seen(r)))
       /\ r.mode # "FIRST_COMPLETED" /\ ~r.event => r.left = Cardinality(r.fs \ Seen(r))
  /\ r.pc = "generate" => r.mode = "AS_COMPLETED" /\ (r.event <=> r.finished # <<>>)

\* Only a caller with a timeout gives up.
LateTrue(r) ==
  /\ r.pc \notin {"remove", "return"} => ~r.late
  /\ r.late => r.timed
  /\ r.pc \in {"idle", "result"} => r.mode = "none"
  /\ r.pc = "remove" => r.mode # "none"
  /\ r.pc = "remove" /\ ~r.late => Sufficient(r, Seen(r))
  /\ r.pc = "remove" /\ ~r.late /\ r.mode = "AS_COMPLETED" => ToSet(r.got) = r.fs

Honest(r) == SeenIsSettled(r) /\ EventTrue(r) /\ LateTrue(r) /\ AnswerTrue(r)

\* CallbacksListed says why no callback is called twice; Honest, that what a
\* waiter was told and what it saw at the start are just the futures that are
\* done and were not missed, so that its count, its event and its answer are right.
FutureIInv ==
  /\ FutureTypeOK /\ CallbacksOnce /\ CallbacksListed
  /\ RaisedWhenFinished /\ WaitersInstalled /\ \A c \in Clients : Honest(client[c])
=============================================================================

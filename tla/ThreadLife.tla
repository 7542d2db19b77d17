----------------------------- MODULE ThreadLife -----------------------------
(***************************************************************************)
(* threading.Thread: start(), join(), is_alive(), the life of the thread   *)
(* behind the object, and _shutdown(), which the main thread runs at exit. *)
(* The _tstate_lock of a thread is taken by itself when it begins and is   *)
(* released by C code when its thread state is gone; who joins it acquires *)
(* and releases that lock and then calls _stop().  Steps are the           *)
(* statements between which another thread may run.                        *)
(***************************************************************************)
EXTENDS Integers, FiniteSets

CONSTANTS AllThreads, Main, Daemons,
          StarterSets,  \* which threads may start others, in the programs considered
          None,
          MaxCalls      \* bound on the calls of each thread

ASSUME ThreadAssumption ==
  /\ Main \in AllThreads \ Daemons /\ Daemons \subseteq AllThreads
  /\ StarterSets \subseteq SUBSET AllThreads
  /\ None \notin AllThreads /\ MaxCalls \in [AllThreads -> Nat]

VARIABLES
  starters,  \* the threads that start others, in this program
  life,      \* where _bootstrap_inner() of each thread is, "ended" when C code is done
  started,   \* _started is set
  stopped,   \* _is_stopped
  bound,     \* _tstate_lock is not None
  held,      \* who holds the lock that _tstate_lock is or was bound to
  active, limbo,
  call,      \* the method each thread is in
  calls,     \* how many calls each thread has made
  main       \* _shutdown(): its phase and the rest of the lists it goes through

lifeVars == <<starters, life, started, stopped, bound, held, active, limbo, call, calls, main>>

NoCall == [op |-> "none", on |-> None, at |-> "none", timed |-> FALSE]

LifeInit ==
  /\ starters \in StarterSets
  /\ life = [t \in AllThreads |-> IF t = Main THEN "run" ELSE "new"]
  /\ started = [t \in AllThreads |-> t = Main]
  /\ stopped = [t \in AllThreads |-> FALSE]
  /\ bound = [t \in AllThreads |-> t = Main]
  /\ held = [t \in AllThreads |-> IF t = Main THEN Main ELSE None]
  /\ active = {Main} /\ limbo = {}
  /\ call = [t \in AllThreads |-> NoCall]
  /\ calls = [t \in AllThreads |-> 0]
  /\ main = [phase |-> "running", rest |-> {}, late |-> {}]

\* A thread that runs the program's code may call a method.
Runs(a) == life[a] = "run" /\ call[a] = NoCall /\ (a = Main => main.phase = "running")
MayCall(a) == Runs(a) /\ calls[a] < MaxCalls[a]
At(a, at) == call[a].at = at /\ main.phase \notin {"over", "aborted"}
GoTo(a, at) == call' = [call EXCEPT ![a].at = at]
Counted(a) == calls' = [calls EXCEPT ![a] = @ + 1]

-----------------------------------------------------------------------------
(* start().  It is called at most once, as its documentation requires, and  *)
(* a daemon starts daemons, which is what a thread is unless told otherwise. *)

Start(a, t) ==
  /\ MayCall(a) /\ a \in starters /\ life[t] = "new" /\ t \notin limbo
  /\ a \in Daemons => t \in Daemons
  /\ limbo' = limbo \cup {t}
  /\ call' = [call EXCEPT ![a] = [NoCall EXCEPT !.op = "start", !.on = t, !.at = "create"]]
  /\ Counted(a)
  /\ UNCHANGED <<starters, life, started, stopped, bound, held, active, main>>

StartNewThread(a) ==
  /\ At(a, "create")
  /\ life' = [life EXCEPT ![call[a].on] = "boot"]
  /\ GoTo(a, "started")
  /\ UNCHANGED <<starters, started, stopped, bound, held, active, limbo, calls, main>>

\* No thread can be had: start() raises.
CannotStart(a) ==
  /\ At(a, "create")
  /\ limbo' = limbo \ {call[a].on}
  /\ GoTo(a, "return")
  /\ UNCHANGED <<starters, life, started, stopped, bound, held, active, calls, main>>

StartedWait(a) ==
  /\ At(a, "started") /\ started[call[a].on]
  /\ GoTo(a, "return")
  /\ UNCHANGED <<starters, life, started, stopped, bound, held, active, limbo, calls, main>>

-----------------------------------------------------------------------------
(* _bootstrap_inner().                                                     *)

Lives(t, at) == life[t] = at /\ main.phase \notin {"over", "aborted"}
Becomes(t, at) == life' = [life EXCEPT ![t] = at]

SetTstateLock(t) ==
  /\ Lives(t, "boot")
  /\ Becomes(t, "locked")
  /\ bound' = [bound EXCEPT ![t] = TRUE]
  /\ held' = [held EXCEPT ![t] = t]
  /\ UNCHANGED <<starters, started, stopped, active, limbo, call, calls, main>>

SetStarted(t) ==
  /\ Lives(t, "locked")
  /\ Becomes(t, "started")
  /\ started' = [started EXCEPT ![t] = TRUE]
  /\ UNCHANGED <<starters, stopped, bound, held, active, limbo, call, calls, main>>

Register(t) ==
  /\ Lives(t, "started")
  /\ Becomes(t, "run")
  /\ active' = active \cup {t} /\ limbo' = limbo \ {t}
  /\ UNCHANGED <<starters, started, stopped, bound, held, call, calls, main>>

\* run() is over and the thread removes itself from _active.
Unregister(t) ==
  /\ t # Main /\ Runs(t) /\ main.phase \notin {"over", "aborted"}
  /\ Becomes(t, "exit")
  /\ active' = active \ {t}
  /\ UNCHANGED <<starters, started, stopped, bound, held, limbo, call, calls, main>>

\* C code deletes the thread state and then calls release_sentinel().
ReleaseSentinel(t) ==
  /\ Lives(t, "exit")
  /\ Becomes(t, "ended")
  /\ held' = [held EXCEPT ![t] = None]
  /\ UNCHANGED <<starters, started, stopped, bound, active, limbo, call, calls, main>>

-----------------------------------------------------------------------------
(* join() and is_alive().                                                  *)

\* _wait_for_tstate_lock() reads _tstate_lock.
WaitForTstateLock(a, op, t, timed) ==
  call' = [call EXCEPT ![a] = [op |-> op, on |-> t, timed |-> timed,
                               at |-> IF bound[t] THEN "acquire" ELSE "unbound"]]

\* join() of oneself, or of a thread that was not started, raises RuntimeError.
Join(a, t, timed) ==
  /\ MayCall(a) /\ started[t] /\ t # a
  /\ WaitForTstateLock(a, "join", t, timed)
  /\ Counted(a)
  /\ UNCHANGED <<starters, life, started, stopped, bound, held, active, limbo, main>>

IsAlive(a, t) ==
  /\ MayCall(a) /\ started[t] /\ ~stopped[t]
  /\ WaitForTstateLock(a, "is_alive", t, TRUE)
  /\ Counted(a)
  /\ UNCHANGED <<starters, life, started, stopped, bound, held, active, limbo, main>>

\* The lock was None: assert self._is_stopped.
AssertStopped(a) ==
  /\ At(a, "unbound")
  /\ GoTo(a, IF stopped[call[a].on] THEN "return" ELSE "error")
  /\ UNCHANGED <<starters, life, started, stopped, bound, held, active, limbo, calls, main>>

Acquire(a) ==
  /\ At(a, "acquire") /\ held[call[a].on] = None
  /\ held' = [held EXCEPT ![call[a].on] = a]
  /\ GoTo(a, "release")
  /\ UNCHANGED <<starters, life, started, stopped, bound, active, limbo, calls, main>>

\* Mutant: a lock that was not acquired is taken for one that was.
NotAcquiredUnchecked(a) ==
  /\ At(a, "acquire") /\ call[a].timed /\ held[call[a].on] # None
  /\ GoTo(a, "mark")
  /\ UNCHANGED <<starters, life, started, stopped, bound, held, active, limbo, calls, main>>

\* is_alive() does not wait, join() only so long.
NotAcquired(a) ==
  /\ At(a, "acquire") /\ call[a].timed /\ held[call[a].on] # None
  /\ GoTo(a, "return")
  /\ UNCHANGED <<starters, life, started, stopped, bound, held, active, limbo, calls, main>>

\* Mutant: the lock is not given to the next one that joins.
ReleaseForgotten(a) ==
  /\ At(a, "release")
  /\ GoTo(a, "mark")
  /\ UNCHANGED <<starters, life, started, stopped, bound, held, active, limbo, calls, main>>

ReleaseLock(a) ==
  /\ At(a, "release")
  /\ held' = [held EXCEPT ![call[a].on] = None]
  /\ GoTo(a, "stop")
  /\ UNCHANGED <<starters, life, started, stopped, bound, active, limbo, calls, main>>

\* _stop() reads _tstate_lock again.
StopReads(a) ==
  /\ At(a, "stop")
  /\ GoTo(a, IF bound[call[a].on] THEN "assert" ELSE "mark")
  /\ UNCHANGED <<starters, life, started, stopped, bound, held, active, limbo, calls, main>>

\* assert not lock.locked()
AssertUnlocked(a) ==
  /\ At(a, "assert")
  /\ GoTo(a, IF held[call[a].on] = None THEN "mark" ELSE "error")
  /\ UNCHANGED <<starters, life, started, stopped, bound, held, active, limbo, calls, main>>

Mark(a) ==
  /\ At(a, "mark")
  /\ stopped' = [stopped EXCEPT ![call[a].on] = TRUE]
  /\ GoTo(a, "unbind")
  /\ UNCHANGED <<starters, life, started, bound, held, active, limbo, calls, main>>

Unbind(a) ==
  /\ At(a, "unbind")
  /\ bound' = [bound EXCEPT ![call[a].on] = FALSE]
  /\ GoTo(a, "return")
  /\ UNCHANGED <<starters, life, started, stopped, held, active, limbo, calls, main>>

\* The call returns or raises to the program, which goes on.
Return(a) ==
  /\ At(a, "return") \/ At(a, "error")
  /\ a = Main => main.phase = "running"
  /\ call' = [call EXCEPT ![a] = NoCall]
  /\ UNCHANGED <<starters, life, started, stopped, bound, held, active, limbo, calls, main>>

-----------------------------------------------------------------------------
(* _shutdown(), by the main thread.                                        *)

\* Its own lock is released for whoever joins it, then _stop() is called.
ShutdownBegins ==
  /\ Runs(Main)
  /\ held' = [held EXCEPT ![Main] = None]
  /\ call' = [call EXCEPT ![Main] = [NoCall EXCEPT !.op = "stop", !.on = Main, !.at = "stop"]]
  /\ main' = [main EXCEPT !.phase = "stop"]
  /\ UNCHANGED <<starters, life, started, stopped, bound, active, limbo, calls>>

\* _pickSomeNonDaemonThread() lists the threads, the active ones first.
Enumerate ==
  /\ At(Main, "return") /\ main.phase \in {"stop", "join"}
  /\ main' = [phase |-> "pick", rest |-> active \ Daemons, late |-> limbo \ Daemons]
  /\ call' = [call EXCEPT ![Main] = NoCall]
  /\ UNCHANGED <<starters, life, started, stopped, bound, held, active, limbo, calls>>

\* is_alive() of the next thread of the list; it need not look at the lock of
\* one that is stopped or has not started.
PickNext(t) ==
  /\ main.phase = "pick" /\ call[Main] = NoCall
  /\ t \in IF main.rest # {} THEN main.rest ELSE main.late
  /\ main' = [main EXCEPT !.rest = @ \ {t}, !.late = @ \ {t}]
  /\ IF started[t] /\ ~stopped[t]
     THEN WaitForTstateLock(Main, "is_alive", t, TRUE)
     ELSE UNCHANGED call
  /\ UNCHANGED <<starters, life, started, stopped, bound, held, active, limbo, calls>>

\* It is alive and picked, and joined.
JoinPicked ==
  /\ main.phase = "pick" /\ At(Main, "return")
  /\ IF stopped[call[Main].on]
     THEN call' = [call EXCEPT ![Main] = NoCall] /\ UNCHANGED main
     ELSE /\ WaitForTstateLock(Main, "join", call[Main].on, FALSE)
          /\ main' = [phase |-> "join", rest |-> {}, late |-> {}]
  /\ UNCHANGED <<starters, life, started, stopped, bound, held, active, limbo, calls>>

\* None was picked: the main thread deletes itself and the interpreter goes.
ShutdownEnds ==
  /\ main.phase = "pick" /\ call[Main] = NoCall /\ main.rest = {} /\ main.late = {}
  /\ main' = [main EXCEPT !.phase = "over"]
  /\ active' = active \ {Main}
  /\ UNCHANGED <<starters, life, started, stopped, bound, held, limbo, call, calls>>

\* An assertion failed in _shutdown().
ShutdownRaises ==
  /\ At(Main, "error") /\ main.phase # "running"
  /\ main' = [main EXCEPT !.phase = "aborted"]
  /\ UNCHANGED <<starters, life, started, stopped, bound, held, active, limbo, call, calls>>

-----------------------------------------------------------------------------
Lifetime(t) == SetTstateLock(t) \/ SetStarted(t) \/ Register(t) \/ Unregister(t) \/ ReleaseSentinel(t)
Calls(a) ==
  \E t \in AllThreads : Start(a, t) \/ IsAlive(a, t) \/ \E timed \in BOOLEAN : Join(a, t, timed)
Proceed(a) ==
  \/ StartNewThread(a) \/ CannotStart(a) \/ StartedWait(a)
  \/ AssertStopped(a) \/ Acquire(a) \/ NotAcquired(a) \/ ReleaseLock(a)
  \/ StopReads(a) \/ AssertUnlocked(a) \/ Mark(a) \/ Unbind(a) \/ Return(a)
Shutdown ==
  \/ ShutdownBegins \/ Enumerate \/ JoinPicked \/ ShutdownEnds \/ ShutdownRaises
  \/ \E t \in AllThreads : PickNext(t)

LifeNext == Shutdown \/ \E t \in AllThreads : Lifetime(t) \/ Calls(t) \/ Proceed(t)

LifeSpec == LifeInit /\ [][LifeNext]_lifeVars

\* Threads are scheduled, every run() ends and so does the main program; nothing
\* makes a thread call a method.
FairLifeSpec ==
  /\ LifeSpec
  /\ \A t \in AllThreads : WF_lifeVars(Lifetime(t)) /\ WF_lifeVars(Proceed(t))
  /\ WF_lifeVars(Shutdown)

-----------------------------------------------------------------------------
(* Properties.                                                             *)

CallRecords ==
  [op : {"none", "start", "join", "is_alive", "stop"}, on : AllThreads \cup {None},
   at : {"none", "create", "started", "unbound", "acquire", "release", "stop", "assert",
         "mark", "unbind", "return", "error"},
   timed : BOOLEAN]

TypeOK ==
  /\ starters \in StarterSets
  /\ life \in [AllThreads -> {"new", "boot", "locked", "started", "run", "exit", "ended"}]
  /\ started \in [AllThreads -> BOOLEAN] /\ stopped \in [AllThreads -> BOOLEAN]
  /\ bound \in [AllThreads -> BOOLEAN] /\ held \in [AllThreads -> AllThreads \cup {None}]
  /\ active \subseteq AllThreads /\ limbo \subseteq AllThreads \ active
  /\ call \in [AllThreads -> CallRecords]
  /\ calls \in [AllThreads -> Nat] /\ \A t \in AllThreads : calls[t] <= MaxCalls[t]
  /\ main \in [phase : {"running", "stop", "pick", "join", "over", "aborted"},
               rest : SUBSET AllThreads, late : SUBSET AllThreads]

\* "At the end of the thread's life, after all knowledge of the thread is
\* removed from C data structures, C code releases our _tstate_lock"
\* (threading.py:1069): a thread is taken for stopped, and an untimed join()
\* returns, only after that, however many threads look at the same time; and
\* whoever finds no lock finds it stopped (the "obscure" order of _stop()).
StoppedMeansEnded ==
  /\ \A t \in AllThreads \ {Main} : stopped[t] => life[t] = "ended"
  /\ \A t \in AllThreads : started[t] /\ ~bound[t] => stopped[t]
  /\ \A a \in AllThreads :
       call[a].op = "join" /\ ~call[a].timed /\ call[a].at = "return" => stopped[call[a].on]

\* "The entire Python program exits when no alive non-daemon threads are left":
\* when _shutdown() ends, unless an assertion fails in it, run() of each has ended.
RunsBeforeExit ==
  main.phase = "over" => \A t \in AllThreads \ (Daemons \cup {Main}) : life[t] \in {"new", "exit", "ended"}

\* So it is if only the main thread starts threads: the list of the active and
\* the starting ones that _shutdown() makes after each join() shows them all.
ExitAfterRuns == starters = {Main} => RunsBeforeExit

\* The end of a thread is seen neither too early nor not at all.
EndsAreTrue == TypeOK /\ StoppedMeansEnded /\ ExitAfterRuns

Exited == main.phase \in {"over", "aborted"}

\* start() returns; a join() of a thread that has ended returns, however many
\* wait for its one lock, which nobody keeps; and once the other threads have
\* ended, _shutdown() does.  (Threads that join each other wait for ever.)
CallsReturn ==
  /\ \A a \in AllThreads :
       \/ call[a].op = "start"
       \/ /\ call[a].op = "join"
          /\ life[call[a].on] = "ended" \/ (call[a].on = Main /\ main.phase # "running")
       ~> call[a] = NoCall \/ Exited
  /\ main.phase # "running" /\ (\A t \in AllThreads \ {Main} : life[t] \in {"new", "ended"}) ~> Exited

\* _stop(): "Any number of threads _may_ call ._stop() simultaneously [...]
\* and they're not serialized.  That's harmless" (threading.py:978).
StopIsHarmless == \A a \in AllThreads : call[a].at # "error"
-----------------------------------------------------------------------------
(* What is true between any two steps.                                     *)

\* The lock of t was released for good: by C code, or by _shutdown() for Main.
Released(t) == IF t = Main THEN main.phase # "running" ELSE life[t] = "ended"

\* A thread holds its own lock from its beginning to its end.
LifeAgrees ==
  /\ life[Main] = "run"
  /\ \A t \in AllThreads :
       /\ started[t] <=> life[t] \in {"started", "run", "exit", "ended"}
       /\ life[t] \in {"locked", "started", "run", "exit"} /\ ~Released(t) => bound[t] /\ held[t] = t
       /\ stopped[t] => Released(t)
       /\ started[t] /\ ~bound[t] => stopped[t]

\* Who got the lock of another thread found it released for good, and gives it back.
CallAgrees(a, c) ==
  /\ c.at # "none" => c.on \in AllThreads
  /\ c.at \in {"create", "started"} => c.op = "start"
  /\ c.op = "start" => a \in starters /\ (a = Main => main.phase = "running")
  /\ c.at = "acquire" \/ (c.at # "none" /\ c.op # "start") => started[c.on]
  /\ c.at \in {"release", "stop", "assert", "mark", "unbind"} => Released(c.on)
  /\ c.at = "release" => held[c.on] = a
  /\ c.at = "unbind" => stopped[c.on]
  /\ c.op = "join" /\ ~c.timed /\ c.at = "return" => stopped[c.on]

CallsAgree == \A a \in AllThreads : CallAgrees(a, call[a])

\* Who is to be seen by enumerate() is in one of the lists; who has not begun is
\* still waited for by who starts it.
ListsAgree ==
  /\ \A a \in AllThreads : call[a].at = "create" =>
       /\ call[a].on \in limbo /\ life[call[a].on] = "new"
       /\ \A b \in AllThreads : call[b].at = "create" /\ call[b].on = call[a].on => b = a
  /\ \A t \in AllThreads :
       /\ t \in active => life[t] = "run"
       /\ t \in limbo => life[t] \in {"new", "boot", "locked", "started"}
       /\ life[t] \in {"boot", "locked", "started"} => t \in limbo
       /\ life[t] = "run" /\ t # Main => t \in active
       /\ life[t] \in {"boot", "locked"} => \E a \in AllThreads : call[a].at = "started" /\ call[a].on = t

\* No thread that _shutdown() has still to join is missing from what is left of its list.
ShutdownKnows ==
  starters = {Main} /\ main.phase \in {"pick", "over"} =>
    \A t \in AllThreads \ (Daemons \cup {Main}) : life[t] \in {"boot", "locked", "started", "run"} =>
      /\ main.phase = "pick"
      /\ t \in main.rest \cup main.late \/ (call[Main].op = "is_alive" /\ call[Main].on = t)

LifeSound == TypeOK /\ LifeAgrees /\ CallsAgree /\ ListsAgree /\ ShutdownKnows
=============================================================================

---------------------------- MODULE ImportLocks ----------------------------
(***************************************************************************)
(* importlib's import procedure with many threads: _gcd_import,            *)
(* _find_and_load, _lock_unlock_module, the table of module locks with its *)
(* weak references, and the entries of sys.modules.                        *)
(*                                                                         *)
(* The import lock protects the look-up in sys.modules and the table of    *)
(* module locks.  It does not protect what a finished import does: taking  *)
(* its module out of sys.modules when the body raised, and removing the    *)
(* table entry of a lock that has died.                                    *)
(*                                                                         *)
(* A module lock is used here through what it promises (ModuleLock has its *)
(* details): it is recursive, it sleeps while another thread owns it, and  *)
(* it refuses to sleep when the owners wait, one for the other, for the    *)
(* caller.                                                                 *)
(***************************************************************************)
EXTENDS Naturals, SequencesExt

CONSTANTS
  Threads,
  Names,        \* the names of modules
  None,         \* "no thread", "no name", "no lock"
  Dead,         \* a weak reference whose lock is gone
  LockIds,      \* lock objects, a bound: GetLock waits while frames refer to them all
  Programs      \* the programs to run: the package of each name, or None; the
                \* name that the body of each module imports, or None; can
                \* loading fail?  how many imports does each thread begin?

ASSUME ImportAssumption ==
  /\ None \notin Threads \cup Names /\ Dead # None
  /\ Programs \subseteq [parent : [Names -> Names \cup {None}],
                          imports : [Names -> Names \cup {None}],
                          mayFail : BOOLEAN,
                          asks : [Threads -> Nat]]

ASSUME LockAssumption == {None, Dead} \cap LockIds = {}

VARIABLES
  program,       \* the program that runs; never changes
  holder, level, \* the import lock: its thread and its depth
  locks,         \* _module_locks: the lock each entry refers to
  owner, count,  \* of each lock object
  sys_modules,   \* which module object each name has: its number, or 0
  status,        \* the module objects created for each name, in order
  stack,         \* the imports each thread is in, the innermost first
  begun          \* how many imports each thread has begun on its own

vars == <<program, holder, level, locks, owner, count, sys_modules, status, stack, begun>>
importLock == <<holder, level>>
moduleLocks == <<owner, count>>

\* An import in progress.  "begin", "fetch", "load", "wait": in _gcd_import;
\* "acquire", "asleep": in acquire(); "find", "recheck", "spec", "body", "ran",
\* "raise": loading; "unlock": before release(); "callback": in the weak
\* reference's callback; "return": about to go.  module is the number of the module
\* object: being fetched, loaded or returned (0: an exception is raised).
Frames == [name : Names,
           at : {"begin", "fetch", "load", "wait", "acquire", "asleep", "find",
                 "recheck", "spec", "body", "ran", "raise", "unlock", "callback",
                 "return"},
           lock : LockIds \cup {None},
           loads : BOOLEAN,      \* through _find_and_load?
           module : Nat,
           refused : BOOLEAN]    \* did acquire() raise _DeadlockError?


TypeOK ==
  /\ program \in Programs
  /\ holder \in Threads \cup {None} /\ level \in Nat
  /\ locks \in [Names -> LockIds \cup {None, Dead}]
  /\ owner \in [LockIds -> Threads \cup {None}]
  /\ count \in [LockIds -> Nat]
  /\ sys_modules \in [Names -> Nat]
  /\ status \in [Names -> Seq({"initializing", "complete", "failed"})]
  /\ stack \in [Threads -> Seq(Frames)]
  /\ begun \in [Threads -> Nat]
  /\ \A n \in Names : sys_modules[n] <= Len(status[n])

Init ==
  /\ program \in Programs
  /\ holder = None /\ level = 0
  /\ locks = [n \in Names |-> None]
  /\ owner = [l \in LockIds |-> None]
  /\ count = [l \in LockIds |-> 0]
  /\ sys_modules = [n \in Names |-> 0]
  /\ status = [n \in Names |-> <<>>]
  /\ stack = [t \in Threads |-> <<>>]
  /\ begun = [t \in Threads |-> 0]

Top(t) == Head(stack[t])
At(t, place) == stack[t] # <<>> /\ Top(t).at = place
NewFrame(n) == [name |-> n, at |-> "begin", lock |-> None, loads |-> FALSE,
                module |-> 0, refused |-> FALSE]

\* Thread t's innermost import becomes frame; t starts a nested one.
Become(t, frame) == stack' = [stack EXCEPT ![t][1] = frame]
Nest(t, frame, n) == stack' = [stack EXCEPT ![t] = <<NewFrame(n), frame>> \o Tail(@)]
Goto(t, place) == Become(t, [Top(t) EXCEPT !.at = place])

MayLock(t) == holder \in {None, t}
UnlockImports ==
  /\ level' = level - 1
  /\ holder' = IF level = 1 THEN None ELSE holder

\* The locks that frames refer to.
Alive == {l \in LockIds : \E t \in Threads :
            \E i \in DOMAIN stack[t] : stack[t][i].lock = l}

-----------------------------------------------------------------------------
(* _gcd_import()                                                           *)

\* A thread begins an import.
Import(t, n) ==
  /\ stack[t] = <<>> /\ begun[t] < program.asks[t]
  /\ begun' = [begun EXCEPT ![t] = @ + 1]
  /\ stack' = [stack EXCEPT ![t] = <<NewFrame(n)>>]
  /\ UNCHANGED <<program, importLock, locks, moduleLocks, sys_modules, status>>

\* _imp.acquire_lock() and the test "name not in sys.modules".
Lookup(t) ==
  /\ At(t, "begin")
  /\ MayLock(t)
  /\ holder' = t /\ level' = level + 1
  /\ Goto(t, IF sys_modules[Top(t).name] = 0 THEN "load" ELSE "fetch")
  /\ UNCHANGED <<program, locks, moduleLocks, sys_modules, status, begun>>

\* module = sys.modules[name].  When the name has gone, KeyError leaves
\* _gcd_import with the import lock held.
Fetch(t) ==
  LET m == sys_modules[Top(t).name] IN
  /\ At(t, "fetch")
  /\ Become(t, [Top(t) EXCEPT !.module = m, !.at = IF m = 0 THEN "return" ELSE "wait"])
  /\ UNCHANGED <<program, importLock, locks, moduleLocks, sys_modules, status, begun>>

\* MUTANT: the table is not asked.
GetNewLock(t) ==
  LET n == Top(t).name
      l == CHOOSE new \in LockIds \ Alive : TRUE IN
  /\ At(t, "load") \/ At(t, "wait")
  /\ locks' = [locks EXCEPT ![n] = l]
  /\ Become(t, [Top(t) EXCEPT !.lock = l, !.at = "acquire", !.loads = Top(t).at = "load"])
  /\ UnlockImports
  /\ UNCHANGED <<program, moduleLocks, sys_modules, status, begun>>

\* _get_module_lock(): the lock in the table, or a new one when there is none or
\* it has died; then _imp.release_lock().
GetLock(t) ==
  LET n == Top(t).name
      l == IF locks[n] \in LockIds THEN locks[n]
           ELSE CHOOSE new \in LockIds \ Alive : TRUE IN
  /\ At(t, "load") \/ At(t, "wait")
  /\ locks[n] \in LockIds \/ Alive # LockIds
  /\ locks' = [locks EXCEPT ![n] = l]
  /\ Become(t, [Top(t) EXCEPT !.lock = l, !.at = "acquire", !.loads = Top(t).at = "load"])
  /\ UnlockImports
  /\ UNCHANGED <<program, moduleLocks, sys_modules, status, begun>>

-----------------------------------------------------------------------------
(* acquire() and release() of a module lock                                *)

\* MUTANT: no circle is seen.
NoCircle(t, l) == FALSE

\* The thread that u waits for.
Blocker(u) ==
  IF At(u, "acquire") \/ At(u, "asleep") THEN owner[Top(u).lock] ELSE None

\* The owner of lock l waits for a lock whose owner waits ... for a lock of t:
\* t is in every set of threads that the chain of owners does not leave.
Circle(t, l) ==
  \A C \in SUBSET Threads :
    owner[l] \in C /\ (\A u \in C : Blocker(u) \in C \cup {None}) => t \in C

Acquire(t) ==
  LET l == Top(t).lock IN
  /\ At(t, "acquire")
  /\ owner[l] \in {None, t}
  /\ owner' = [owner EXCEPT ![l] = t]
  /\ count' = [count EXCEPT ![l] = @ + 1]
  /\ Goto(t, IF Top(t).loads THEN "find" ELSE "unlock")
  /\ UNCHANGED <<program, importLock, locks, sys_modules, status, begun>>

Sleep(t) ==
  LET l == Top(t).lock IN
  /\ At(t, "acquire")
  /\ owner[l] \notin {None, t} /\ ~Circle(t, l)
  /\ Goto(t, "asleep")
  /\ UNCHANGED <<program, importLock, locks, moduleLocks, sys_modules, status, begun>>

Wake(t) ==
  /\ At(t, "asleep")
  /\ owner[Top(t).lock] = None
  /\ Goto(t, "acquire")
  /\ UNCHANGED <<program, importLock, locks, moduleLocks, sys_modules, status, begun>>

\* t's innermost import gives up its lock object.  The last reference takes the
\* object with it, and the table's weak reference calls back.
Leave(t, frame) ==
  LET n == frame.name
      others == \E u \in Threads : \E i \in DOMAIN stack[u] :
                  stack[u][i].lock = frame.lock /\ ~(u = t /\ i = 1)
      dies == ~others /\ locks[n] = frame.lock IN
  /\ locks' = IF dies THEN [locks EXCEPT ![n] = Dead] ELSE locks
  /\ Become(t, [frame EXCEPT !.lock = None, !.at = IF dies THEN "callback" ELSE "return"])

\* _DeadlockError: _lock_unlock_module() accepts the module as it is;
\* _find_and_load() has not entered its with block and lets it through.
Refuse(t) ==
  LET l == Top(t).lock IN
  /\ At(t, "acquire")
  /\ owner[l] \notin {None, t} /\ Circle(t, l)
  /\ Leave(t, [Top(t) EXCEPT !.refused = TRUE])
  /\ UNCHANGED <<program, importLock, moduleLocks, sys_modules, status, begun>>

\* MUTANT: the lock is released when the import has succeeded.
UnlockOnSuccess(t) ==
  LET l == Top(t).lock
      n == IF Top(t).module = 0 THEN 0 ELSE 1 IN
  /\ At(t, "unlock")
  /\ count' = [count EXCEPT ![l] = @ - n]
  /\ owner' = [owner EXCEPT ![l] = IF count[l] = n THEN None ELSE @]
  /\ Leave(t, Top(t))
  /\ UNCHANGED <<program, importLock, sys_modules, status, begun>>

\* release(), and the frame lets go of the lock.
Unlock(t) ==
  LET l == Top(t).lock IN
  /\ At(t, "unlock")
  /\ count' = [count EXCEPT ![l] = @ - 1]
  /\ owner' = [owner EXCEPT ![l] = IF count[l] = 1 THEN None ELSE @]
  /\ Leave(t, Top(t))
  /\ UNCHANGED <<program, importLock, sys_modules, status, begun>>

\* cb(): del _module_locks[name], whatever is there now.
Callback(t) ==
  /\ At(t, "callback")
  /\ locks' = [locks EXCEPT ![Top(t).name] = None]
  /\ Goto(t, "return")
  /\ UNCHANGED <<program, importLock, moduleLocks, sys_modules, status, begun>>

-----------------------------------------------------------------------------
(* _find_and_load_unlocked()                                               *)

\* The package comes first.
FindParent(t) ==
  LET p == program.parent[Top(t).name] IN
  /\ At(t, "find")
  /\ IF p = None THEN Goto(t, "spec")
     ELSE IF sys_modules[p] = 0 THEN Nest(t, [Top(t) EXCEPT !.at = "recheck"], p)
     ELSE Goto(t, "recheck")
  /\ UNCHANGED <<program, importLock, locks, moduleLocks, sys_modules, status, begun>>

\* Importing the package may have loaded the module; the package may be gone.
Recheck(t) ==
  LET n == Top(t).name IN
  /\ At(t, "recheck")
  /\ IF sys_modules[n] # 0 \/ sys_modules[program.parent[n]] = 0
     THEN Become(t, [Top(t) EXCEPT !.module = sys_modules[n], !.at = "unlock"])
     ELSE Goto(t, "spec")
  /\ UNCHANGED <<program, importLock, locks, moduleLocks, sys_modules, status, begun>>

\* _find_spec() asks the finders under the import lock; then a new module object
\* goes into sys.modules (_installed_safely.__enter__).
Install(t) ==
  LET n == Top(t).name
      m == Len(status[n]) + 1 IN
  /\ At(t, "spec")
  /\ MayLock(t)
  /\ status' = [status EXCEPT ![n] = Append(@, "initializing")]
  /\ sys_modules' = [sys_modules EXCEPT ![n] = m]
  /\ Become(t, [Top(t) EXCEPT !.module = m, !.at = "body"])
  /\ UNCHANGED <<program, importLock, locks, moduleLocks, begun>>

\* No finder knows the name: ImportError.
NotFound(t) ==
  /\ At(t, "spec")
  /\ MayLock(t) /\ program.mayFail
  /\ Goto(t, "unlock")
  /\ UNCHANGED <<program, importLock, locks, moduleLocks, sys_modules, status, begun>>

\* The body runs, up to the end of the import in it.
RunBody(t) ==
  LET n == Top(t).name IN
  /\ At(t, "body")
  /\ IF program.imports[n] = None THEN Goto(t, "ran")
     ELSE Nest(t, [Top(t) EXCEPT !.at = "ran"], program.imports[n])
  /\ UNCHANGED <<program, importLock, locks, moduleLocks, sys_modules, status, begun>>

\* The rest of the body runs; _load_unlocked() returns what sys.modules has now,
\* and the package gets an attribute (KeyError when either has gone).
Complete(t) ==
  LET n == Top(t).name
      p == program.parent[n]
      gone == p # None /\ sys_modules[p] = 0 IN
  /\ At(t, "ran")
  /\ status' = [status EXCEPT ![n][Top(t).module] = "complete"]
  /\ Become(t, [Top(t) EXCEPT !.module = IF gone THEN 0 ELSE sys_modules[n],
                              !.at = "unlock"])
  /\ UNCHANGED <<program, importLock, locks, moduleLocks, sys_modules, begun>>

\* The body raises.
BodyRaises(t) ==
  /\ At(t, "ran") /\ program.mayFail
  /\ Goto(t, "raise")
  /\ UNCHANGED <<program, importLock, locks, moduleLocks, sys_modules, status, begun>>

\* _installed_safely.__exit__ takes the name out of sys.modules again.
Uninstall(t) ==
  LET n == Top(t).name IN
  /\ At(t, "raise")
  /\ status' = [status EXCEPT ![n][Top(t).module] = "failed"]
  /\ sys_modules' = [sys_modules EXCEPT ![n] = 0]
  /\ Become(t, [Top(t) EXCEPT !.module = 0, !.at = "unlock"])
  /\ UNCHANGED <<program, importLock, locks, moduleLocks, begun>>

\* The importer goes on with the module, or its own body raises, or its package
\* could not be loaded.
Return(t) ==
  LET rest == Tail(stack[t])
      place == IF rest[1].at = "ran" THEN "raise" ELSE "unlock" IN
  /\ At(t, "return")
  /\ stack' = [stack EXCEPT ![t] =
       IF rest # <<>> /\ Top(t).module = 0 THEN [rest EXCEPT ![1].at = place] ELSE rest]
  /\ UNCHANGED <<program, importLock, locks, moduleLocks, sys_modules, status, begun>>

-----------------------------------------------------------------------------
\* What t does in an import it has begun.
Proceed(t) ==
  \/ Lookup(t) \/ Fetch(t) \/ GetLock(t)
  \/ Acquire(t) \/ Sleep(t) \/ Wake(t) \/ Refuse(t) \/ Unlock(t) \/ Callback(t)
  \/ FindParent(t) \/ Recheck(t) \/ Install(t) \/ NotFound(t)
  \/ RunBody(t) \/ Complete(t) \/ BodyRaises(t) \/ Uninstall(t) \/ Return(t)

\* All imports are done.
Finished ==
  /\ \A t \in Threads : stack[t] = <<>> /\ begun[t] = program.asks[t]
  /\ UNCHANGED vars

Next ==
  \/ \E t \in Threads : Proceed(t) \/ \E n \in Names : Import(t, n)
  \/ Finished

Spec == Init /\ [][Next]_vars

-----------------------------------------------------------------------------
(* Properties.                                                             *)

\* Thread t holds the lock of module n in order to load it.
Loads(t, n) ==
  \E i \in DOMAIN stack[t] :
    LET f == stack[t][i] IN
    f.name = n /\ f.loads /\ f.at \in {"find", "recheck", "spec", "body", "ran", "raise",
                                      "unlock"}

\* A circle: some modules each of which imports, or is inside, another of them.
Circular ==
  \E S \in SUBSET Names :
    S # {} /\ \A n \in S : {program.imports[n], program.parent[n]} \cap S # {}

\* Nothing fails and there is no circle.
Straight == ~program.mayFail /\ ~Circular

\* "importing a module takes a per-module lock. This correctly serializes
\* importation of a given module from multiple threads" (Doc/whatsnew/3.3.rst):
\* no two threads load one module at the same time.
ExclusiveLoad ==
  Straight =>
    \A n \in Names : \A t, u \in Threads : Loads(t, n) /\ Loads(u, n) => t = u

\* "preventing other threads from seeing incomplete module objects" (imp.rst):
\* an import gives a module that is loaded, whichever thread loaded it.
NoneIncomplete ==
  Straight =>
    \A t \in Threads :
      LET f == Top(t) IN
      At(t, "return") /\ f.module # 0 => status[f.name][f.module] = "complete"

\* Whoever imports gets the module: no look-up or lock raises.
StraightSucceeds ==
  Straight => \A t \in Threads : At(t, "return") => Top(t).module # 0

\* "a thread executing an import first holds a global import lock, then sets up
\* a per-module lock" (imp.rst): the import lock is held by a thread inside its
\* look-up and by nobody else; no path leaves it locked.
\* Without failures and circles threads do not notice each other.
StraightImports == ExclusiveLoad /\ NoneIncomplete /\ StraightSucceeds

ImportLockFree ==
  \A t \in Threads :
    (IF holder = t THEN level ELSE 0)
    = IF At(t, "fetch") \/ At(t, "load") \/ At(t, "wait") THEN 1 ELSE 0

\* Whatever fails on the way, a lock object belongs to the thread whose frames
\* have acquired and not released it, that many times, and to nobody else;
\* nor does the import lock stay behind when nothing fails.
LocksReleased ==
  /\ Straight => ImportLockFree
  /\ \A l \in LockIds :
       /\ owner[l] = None <=> count[l] = 0
       /\ \A t \in Threads :
            (IF owner[l] = t THEN count[l] ELSE 0)
            = Cardinality({i \in DOMAIN stack[t] :
                stack[t][i].lock = l /\ stack[t][i].at \notin {"acquire", "asleep"}})

\* test_locks.LifetimeTests: no entry outlives its lock; a dead one is being removed.
NoStaleEntry ==
  \A n \in Names :
    /\ locks[n] \in LockIds => locks[n] \in Alive
    /\ locks[n] = Dead => \E t \in Threads : At(t, "callback") /\ Top(t).name = n

\* Both kinds of locks and the table are in order.
LocksKept == TypeOK /\ LocksReleased /\ NoStaleEntry

\* "Python ensures that circular imports work without any deadlocks" (imp.rst):
\* while loading does not fail, some thread that is importing can go on.
ImportsGoOn ==
  ~program.mayFail /\ (\E t \in Threads : stack[t] # <<>>)
    => \E t \in Threads : ENABLED Proceed(t)
=============================================================================

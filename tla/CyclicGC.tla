------------------------------ MODULE CyclicGC ------------------------------
(***************************************************************************)
(* Reference counts, deallocation, weak references and the cyclic garbage  *)
(* collector of Modules/gcmodule.c, with the Python code they call back:   *)
(* finalizers (tp_finalize, and the older tp_del) and weakref callbacks.   *)
(*                                                                         *)
(* One thread of control: a stack of frames.  A frame runs Python code,    *)
(* or is at a point of a tp_dealloc or of collect() from which Python code *)
(* may be called; the code called runs in a frame above it, and may change *)
(* the heap in every way that what it can reach allows.                    *)
(***************************************************************************)
EXTENDS GCReach, Sequences, SequencesExt

CONSTANTS
  Objects,     \* instances of classes
  Weakrefs,    \* weak reference objects
  None,
  MaxWork,     \* bound: objects and the changes Python code makes to the heap
  MaxCollects  \* bound: collections

ASSUME NodeKinds == Nodes = Objects \cup Weakrefs /\ Objects \cap Weakrefs = {}
ASSUME NoneIsNoNode == None \notin Nodes

VARIABLES
  hasFin,      \* objects whose type has tp_finalize
  hasDel,      \* objects whose type has tp_del
  roots,       \* what variables, gc.garbage and other untracked holders refer to
  target,      \* wr_object of a weak reference
  callback,    \* weak references whose wr_callback is set; their refs are its closure
  life,        \* "new" before allocation, "live", "dead" after tp_free
  finalized,   \* objects with the FINALIZED bit of gc_refs
  trash,       \* the list `unreachable` in its order, from the end of the walk
  cursor,      \* gc of finalize_garbage()
  stack,       \* the frames, innermost last
  steps, collects,
  \* history, for the properties only
  finCalls, cbCalls,  \* calls of a finalizer, of a callback
  cleared,     \* nodes whose tp_clear the collector has called
  found,       \* the trash that delete_garbage() set out to clear
  leaked,      \* Python code got hold of trash that is being cleared
  woken        \* weak references in the trash whose callback a dealloc has called

fixed == <<hasFin, hasDel>>
listVars == <<list, gcRefs, trash>>
weakVars == <<target, callback>>
callVars == <<finCalls, cbCalls>>
pastVars == <<cleared, found, leaked, woken>>
world == <<fixed, roots, life, steps, collects>>
vars == <<reachVars, hasFin, hasDel, roots, target, callback, life, finalized, trash,
          cursor, stack, steps, collects, finCalls, cbCalls, cleared, found, leaked, woken>>

----------------------------------------------------------------------------
(* Frames *)

Frame(do, n, held) == [do |-> do, obj |-> n, holds |-> held]
Python(held) == Frame("python", None, held)

Top == stack[Len(stack)]
Goto(frame) == [stack EXCEPT ![Len(stack)] = frame]
At(do) == Goto([Top EXCEPT !.do = do])
Return == Front(stack)

\* Py_DECREF(n) with the stack s: at 0, _Py_Dealloc() runs at once.
Decref(n, s) ==
  /\ refcnt' = [refcnt EXCEPT ![n] = @ - 1]
  /\ stack' = IF refcnt[n] = 1 THEN Append(s, Frame("dealloc", n, {})) ELSE s

Incref(S) == [n \in Nodes |-> IF n \in S THEN refcnt[n] + 1 ELSE refcnt[n]]

\* A node, and where it is, on the list `unreachable`
Collectable == Range(trash)
IndexOf(n) == IF n = None THEN 0 ELSE CHOOSE i \in DOMAIN trash : trash[i] = n

\* PyObject_GC_UnTrack and _PyObject_GC_TRACK: into the youngest generation
Track(n, l) ==
  /\ list' = [list EXCEPT ![n] = l]
  /\ trash' = IF n \in Collectable THEN RemoveAt(trash, IndexOf(n)) ELSE trash
  /\ gcRefs' = [gcRefs EXCEPT ![n] = IF l = "none" THEN GC_UNTRACKED ELSE GC_REACHABLE]

WeakrefsTo(n) == {w \in Weakrefs : target[w] = n}

\* _PyWeakref_ClearRef() on each of ws
ClearRefs(ws) == target' = [w \in Weakrefs |-> IF w \in ws THEN None ELSE target[w]]

----------------------------------------------------------------------------
(* Python code: the frame on top reaches its own objects and the variables *)

InPython == Top.do = "python"
Access == Reach(roots \cup Top.holds)

\* Heaps that the main program could build are initial states already: it
\* only deletes variables.
Called == Len(stack) > 1

PythonStep ==
  /\ InPython /\ steps + Cardinality({n \in Objects : life[n] # "new"}) < MaxWork
  /\ steps' = steps + 1
  /\ UNCHANGED <<hasFin, hasDel, finalized, cursor, phase, collects, cleared, found, woken, callVars>>

\* What the operations act on is in reach (PythonNext).  A variable is bound,
\* or deleted.
Bind(n) ==
  /\ PythonStep /\ Called
  /\ n \notin roots
  /\ roots' = roots \cup {n}
  /\ refcnt' = Incref({n})
  /\ UNCHANGED <<refs, life, stack, leaked, listVars, weakVars>>

Unbind(n) ==
  /\ PythonStep
  /\ n \in roots
  /\ roots' = roots \ {n}
  /\ Decref(n, stack)
  /\ UNCHANGED <<refs, life, leaked, listVars, weakVars>>

\* An attribute of m is set, or deleted.
SetAttr(m, n) ==
  /\ PythonStep /\ Called
  /\ n \notin refs[m]
  /\ refs' = [refs EXCEPT ![m] = @ \cup {n}]
  /\ refcnt' = Incref({n})
  /\ UNCHANGED <<roots, life, stack, leaked, listVars, weakVars>>

DelAttr(m, n) ==
  /\ PythonStep /\ Called
  /\ n \in refs[m]
  /\ refs' = [refs EXCEPT ![m] = @ \ {n}]
  /\ Decref(n, stack)
  /\ UNCHANGED <<roots, life, leaked, listVars, weakVars>>

\* Is the collector past check_garbage()?
Clearing == phase = "delete"

\* weakref_call(): PyWeakref_GET_OBJECT hides an object whose count is 0.
Deref(w) ==
  /\ PythonStep /\ Called
  /\ target[w] # None /\ refcnt[target[w]] > 0 /\ target[w] \notin roots
  /\ roots' = roots \cup {target[w]}
  /\ refcnt' = Incref({target[w]})
  /\ leaked' = (leaked \/ (Clearing /\ target[w] \in found))
  /\ UNCHANGED <<refs, life, stack, listVars, weakVars>>

\* new_weakref(): to an object in reach, perhaps with a callback (whose
\* closure holds the objects of held)
NewWeakref(w, n, held) ==
  /\ PythonStep /\ Called
  /\ life[w] = "new"
  /\ life' = [life EXCEPT ![w] = "live"]
  /\ target' = [target EXCEPT ![w] = n]
  /\ \/ callback' = callback /\ held = {}
     \/ callback' = callback \cup {w}
  /\ refs' = [refs EXCEPT ![w] = held]
  /\ roots' = roots \cup {w}
  /\ refcnt' = [Incref(held) EXCEPT ![w] = 1]
  /\ Track(w, "young")
  /\ UNCHANGED <<stack, leaked>>

\* The function returns: its references go one by one.
PythonReturn ==
  /\ Top.do \in {"python", "leave"} /\ Len(stack) > 1
  /\ \/ Top.holds = {} /\ stack' = Return /\ refcnt' = refcnt
     \/ \E n \in Top.holds : Decref(n, Goto(Frame("leave", None, Top.holds \ {n})))
  /\ UNCHANGED <<refs, phase, finalized, cursor, callVars, pastVars, world, listVars,
                 weakVars>>

----------------------------------------------------------------------------
(* Deallocation: subtype_dealloc() and weakref_dealloc() *)

\* The body of subtype_dealloc() up to the call of tp_finalize, which
\* PyObject_CallFinalizerFromDealloc() brackets with a count of 1.
DeallocObject ==
  LET n == Top.obj IN
  /\ Top.do = "dealloc" /\ n \in Objects
  /\ Track(n, IF n \in hasFin \cup hasDel THEN "young" ELSE "none")
  /\ IF n \in hasFin \ finalized
       THEN /\ refcnt' = [refcnt EXCEPT ![n] = 2]
            /\ stack' = Append(At("dealloc.finalized"), Python({n}))
            /\ finCalls' = [finCalls EXCEPT ![n] = @ + 1]
       ELSE /\ stack' = At("dealloc.weakrefs")
            /\ UNCHANGED <<refcnt, finCalls>>
  /\ UNCHANGED <<refs, phase, finalized, cursor, cbCalls, pastVars, world, weakVars>>

\* Back from tp_finalize, or from tp_del: is the object alive again?
Resurrected == refcnt[Top.obj] > 1

FinalizerDone ==
  LET n == Top.obj IN
  /\ Top.do \in {"dealloc.finalized", "dealloc.deleted"}
  /\ finalized' = IF Top.do = "dealloc.finalized" THEN finalized \cup {n} ELSE finalized
  /\ refcnt' = [refcnt EXCEPT ![n] = @ - 1]
  /\ stack' = IF Resurrected THEN Return
              ELSE At(IF Top.do = "dealloc.finalized" THEN "dealloc.weakrefs" ELSE "dealloc.untrack")
  /\ UNCHANGED <<refs, phase, cursor, callVars, pastVars, world, listVars, weakVars>>

\* PyObject_ClearWeakRefs(): all are cleared, then those with a callback
\* called, except a weak reference that is dying itself.
ClearWeakRefs ==
  LET n == Top.obj
      called == {w \in WeakrefsTo(n) \cap callback : refcnt[w] > 0} IN
  /\ Top.do = "dealloc.weakrefs"
  /\ ClearRefs(WeakrefsTo(n))
  /\ callback' = callback \ WeakrefsTo(n)
  /\ refcnt' = Incref(called)
  /\ stack' = Goto(Frame("dealloc.callbacks", n, called))
  /\ woken' = woken \cup (called \cap Collectable)
  /\ UNCHANGED <<refs, phase, finalized, cursor, callVars, cleared, found, leaked, world, listVars>>

\* handle_callback(): the callback goes with the call.
CallCallback(w) ==
  /\ Top.do = "dealloc.callbacks" /\ w \in Top.holds
  /\ refs' = [refs EXCEPT ![w] = {}]
  /\ stack' = Append(Goto([Top EXCEPT !.holds = @ \ {w}]), Python({w} \cup refs[w]))
  /\ cbCalls' = [cbCalls EXCEPT ![w] = @ + 1]
  /\ leaked' = (leaked \/ (Clearing /\ w \in found))
  /\ UNCHANGED <<refcnt, phase, finalized, cursor, finCalls, cleared, found, woken, world, listVars,
                 weakVars>>

\* tp_del, which sets the count to 1 as tp_finalize's caller does
CallDel ==
  LET n == Top.obj IN
  /\ Top.do = "dealloc.callbacks" /\ Top.holds = {}
  /\ IF n \in hasDel
       THEN /\ refcnt' = [refcnt EXCEPT ![n] = 2]
            /\ stack' = Append(At("dealloc.deleted"), Python({n}))
       ELSE stack' = At("dealloc.untrack") /\ refcnt' = refcnt
  /\ UNCHANGED <<refs, phase, finalized, cursor, callVars, pastVars, world, listVars,
                 weakVars>>

\* Untracked again; weak references that the finalizer made are cleared and
\* never called.
UntrackDying ==
  LET n == Top.obj IN
  /\ Top.do = "dealloc.untrack"
  /\ Track(n, "none")
  /\ IF n \in hasFin \cup hasDel THEN ClearRefs(WeakrefsTo(n)) ELSE target' = target
  /\ stack' = At("dealloc.clear")
  /\ UNCHANGED <<refs, refcnt, phase, callback, finalized, cursor, callVars, pastVars, world>>

\* weakref_dealloc(): clear_weakref() drops referent and callback.
DeallocWeakref ==
  LET w == Top.obj IN
  /\ Top.do = "dealloc" /\ w \in Weakrefs
  /\ Track(w, "none")
  /\ ClearRefs({w})
  /\ callback' = callback \ {w}
  /\ stack' = At("dealloc.clear")
  /\ UNCHANGED <<refs, refcnt, phase, finalized, cursor, callVars, pastVars, world>>

\* Slots, dict and callback are dropped one by one, by tp_dealloc and by
\* tp_clear alike.
ClearOne(m) ==
  LET n == Top.obj IN
  /\ Top.do \in {"dealloc.clear", "gc.clear"} /\ m \in refs[n]
  /\ refs' = [refs EXCEPT ![n] = @ \ {m}]
  /\ Decref(m, stack)
  /\ UNCHANGED <<phase, finalized, cursor, callVars, pastVars, world, listVars, weakVars>>

Free ==
  LET n == Top.obj IN
  /\ Top.do = "dealloc.clear" /\ refs[n] = {}
  /\ life' = [life EXCEPT ![n] = "dead"]
  /\ stack' = Return
  /\ UNCHANGED <<reachVars, fixed, roots, finalized, trash, cursor, steps, collects, callVars,
                 pastVars, weakVars>>

----------------------------------------------------------------------------
(* The collector *)

Collecting == phase # "idle"
Collector == Top.do = "gc"

\* gc.collect(), or the trigger in _PyObject_GC_Malloc(): not when collecting.
Collect(full) ==
  /\ InPython /\ ~Collecting
  /\ collects < MaxCollects /\ collects' = collects + 1
  /\ list' = [n \in Nodes |-> IF full /\ list[n] = "old" THEN "young" ELSE list[n]]
  /\ phase' = "update_refs"
  /\ stack' = Append(stack, Frame("gc", None, {}))
  /\ UNCHANGED <<refs, refcnt, gcRefs, fixed, roots, life, finalized, trash, cursor, steps,
                 callVars, pastVars, weakVars>>

restVars == <<world, weakVars, finalized, trash, cursor, stack, callVars, pastVars>>

UpdateRefs == Collector /\ update_refs /\ UNCHANGED restVars
SubtractRefs == Collector /\ subtract_refs /\ UNCHANGED restVars
MoveUnreachable == Collector /\ (\E n \in Nodes : move_unreachable(n)) /\ UNCHANGED restVars
MergeYoung == Collector /\ merge_young /\ UNCHANGED restVars

\* move_legacy_finalizers() and move_legacy_finalizer_reachable(): objects
\* with tp_del and what they reach are not touched.
MoveLegacyFinalizers ==
  LET unreachable == On("unreachable")
      legacy == unreachable \cap hasDel
      kept == unreachable \cap Reach(legacy) IN
  /\ Collector /\ phase = "legacy"
  /\ list' = [n \in Nodes |-> IF n \in kept THEN "finalizers" ELSE list[n]]
  /\ gcRefs' = [n \in Nodes |-> IF n \in kept THEN GC_REACHABLE ELSE gcRefs[n]]
  /\ trash' \in SetToSeqs(unreachable \ kept)
  /\ phase' = "weakrefs"
  /\ UNCHANGED <<refs, refcnt, finalized, cursor, stack, callVars, pastVars, world, weakVars>>

\* handle_weakrefs(), first pass: no weak reference to trash survives, and
\* the callbacks of those that are not trash themselves are to be called.
HandleWeakrefs ==
  LET hit == {w \in Weakrefs : target[w] \in Collectable}
      toCall == {w \in hit \cap callback : gcRefs[w] # GC_TENTATIVELY_UNREACHABLE} IN
  /\ Collector /\ phase = "weakrefs"
  /\ ClearRefs(hit)
  /\ refcnt' = Incref(toCall)
  /\ list' = [n \in Nodes |-> IF n \in toCall THEN "callbacks" ELSE list[n]]
  /\ stack' = Goto([Top EXCEPT !.holds = toCall])
  /\ phase' = "callbacks"
  /\ UNCHANGED <<refs, gcRefs, callback, finalized, trash, cursor, callVars, pastVars, world>>

\* Second pass: the callback stays in the weak reference while it runs.
InvokeCallback(w) ==
  /\ Collector /\ phase = "callbacks" /\ Top.obj = None
  /\ list[w] = "callbacks"
  /\ refcnt' = Incref({w})
  /\ stack' = Append(Goto([Top EXCEPT !.obj = w]), Python({w}))
  /\ cbCalls' = [cbCalls EXCEPT ![w] = @ + 1]
  /\ UNCHANGED <<refs, phase, finalized, cursor, finCalls, pastVars, world, listVars,
                 weakVars>>

\* Mutant: the reference of the first pass is not given up.
CallbackKept ==
  LET w == Top.obj IN
  /\ Collector /\ phase = "callbacks" /\ w # None
  /\ list' = [list EXCEPT ![w] = "old"]
  /\ stack' = Goto(Frame("gc", None, Top.holds \ {w}))
  /\ UNCHANGED <<refs, refcnt, gcRefs, phase, finalized, trash, cursor, callVars, pastVars,
                 world, weakVars>>

\* Give up the reference of the first pass; the weak reference may die.
\* If it is still on the list, it goes to the older generation.
CallbackDone ==
  LET w == Top.obj IN
  /\ Collector /\ phase = "callbacks" /\ w # None
  /\ \/ w \in Top.holds
        /\ Decref(w, Goto([Top EXCEPT !.holds = @ \ {w}]))
        /\ list' = list
     \/ /\ w \notin Top.holds
        /\ list' = IF list[w] = "callbacks" THEN [list EXCEPT ![w] = "old"] ELSE list
        /\ stack' = Goto([Top EXCEPT !.obj = None])
        /\ refcnt' = refcnt
  /\ UNCHANGED <<refs, gcRefs, phase, finalized, trash, cursor, callVars, pastVars, world,
                 weakVars>>

CallbacksDone ==
  /\ Collector /\ phase = "callbacks" /\ Top.obj = None /\ On("callbacks") = {}
  /\ phase' = "finalize" /\ cursor' = None
  /\ UNCHANGED <<refs, refcnt, finalized, stack, callVars, pastVars, world, listVars,
                 weakVars>>

\* finalize_garbage(): the cursor is None at the head of the list.  A cursor
\* that has left the list leads nowhere.
CursorOnList == cursor = None \/ cursor \in Collectable
Before(n) == IF IndexOf(n) = 1 THEN None ELSE trash[IndexOf(n) - 1]

\* Mutant: the object is not marked finalized.
FinalizeAgain ==
  LET n == trash[IndexOf(cursor) + 1] IN
  /\ Collector /\ phase = "finalize" /\ Top.obj = None
  /\ CursorOnList /\ IndexOf(cursor) < Len(trash)
  /\ cursor' = n
  /\ IF n \in hasFin \ finalized
       THEN /\ refcnt' = [refcnt EXCEPT ![n] = @ + 2]
            /\ stack' = Append(Goto([Top EXCEPT !.obj = n]), Python({n}))
            /\ finCalls' = [finCalls EXCEPT ![n] = @ + 1]
       ELSE UNCHANGED <<refcnt, stack, finCalls>>
  /\ UNCHANGED <<refs, phase, finalized, cbCalls, pastVars, world, listVars, weakVars>>

FinalizeNext ==
  LET n == trash[IndexOf(cursor) + 1] IN
  /\ Collector /\ phase = "finalize" /\ Top.obj = None
  /\ CursorOnList /\ IndexOf(cursor) < Len(trash)
  /\ cursor' = n
  /\ IF n \in hasFin \ finalized
       THEN /\ finalized' = finalized \cup {n}
            /\ refcnt' = [refcnt EXCEPT ![n] = @ + 2]
            /\ stack' = Append(Goto([Top EXCEPT !.obj = n]), Python({n}))
            /\ finCalls' = [finCalls EXCEPT ![n] = @ + 1]
       ELSE UNCHANGED <<finalized, refcnt, stack, finCalls>>
  /\ UNCHANGED <<refs, phase, cbCalls, pastVars, world, listVars, weakVars>>

\* Back from the finalizer: step back if the object is about to go.
FinalizedOne ==
  LET n == Top.obj IN
  /\ Collector /\ phase = "finalize" /\ n # None
  /\ cursor' = IF refcnt[n] = 1 THEN Before(n) ELSE cursor
  /\ Decref(n, Goto([Top EXCEPT !.obj = None]))
  /\ UNCHANGED <<refs, phase, finalized, callVars, pastVars, world, listVars, weakVars>>

\* Mutant: the trash is cleared without another look.
ClearRegardless ==
  /\ Collector /\ phase = "finalize" /\ Top.obj = None
  /\ CursorOnList /\ IndexOf(cursor) = Len(trash)
  /\ gcRefs' = Subtract("unreachable") /\ found' = Collectable /\ phase' = "delete"
  /\ cursor' = None
  /\ UNCHANGED <<refs, refcnt, list, finalized, trash, stack, callVars, cleared, leaked, woken,
                 world, weakVars>>

\* check_garbage(), then revive_garbage() or on to delete_garbage()
CheckGarbage ==
  LET revived == \E n \in Collectable : Subtract("unreachable")[n] # 0 IN
  /\ Collector /\ phase = "finalize" /\ Top.obj = None
  /\ CursorOnList /\ IndexOf(cursor) = Len(trash)
  /\ IF revived
       THEN /\ gcRefs' = [n \in Nodes |-> IF n \in Collectable THEN GC_REACHABLE ELSE gcRefs[n]]
            /\ list' = [n \in Nodes |-> IF n \in Collectable THEN "old" ELSE list[n]]
            /\ trash' = <<>> /\ found' = found /\ phase' = "done"
       ELSE /\ gcRefs' = Subtract("unreachable") /\ found' = Collectable /\ phase' = "delete"
            /\ UNCHANGED <<list, trash>>
  /\ cursor' = None
  /\ UNCHANGED <<refs, refcnt, finalized, stack, callVars, cleared, leaked, woken, world, weakVars>>

\* delete_garbage(): tp_clear of the first object, in a frame of its own
ClearFirst ==
  LET n == Head(trash) IN
  /\ Collector /\ phase = "delete" /\ Top.obj = None /\ trash # <<>>
  /\ refcnt' = Incref({n})
  /\ IF n \in Weakrefs THEN ClearRefs({n}) /\ callback' = callback \ {n}
                       ELSE UNCHANGED <<weakVars>>
  /\ cleared' = cleared \cup {n}
  /\ stack' = Append(Goto([Top EXCEPT !.obj = n]), Frame("gc.clear", n, {}))
  /\ UNCHANGED <<refs, phase, finalized, cursor, callVars, found, leaked, woken, world, listVars>>

\* Mutant: the reference held during tp_clear is not given up.
ClearForgets ==
  /\ Top.do = "gc.clear" /\ refs[Top.obj] = {}
  /\ stack' = Return
  /\ UNCHANGED <<refs, refcnt, phase, finalized, cursor, callVars, pastVars, world, listVars,
                 weakVars>>

ClearReturns ==
  /\ Top.do = "gc.clear" /\ refs[Top.obj] = {}
  /\ Decref(Top.obj, Return)
  /\ UNCHANGED <<refs, phase, finalized, cursor, callVars, pastVars, world, listVars,
                 weakVars>>

\* Still first on the list: alive, and moved to the older generation
KeepOrForget ==
  LET n == Top.obj IN
  /\ Collector /\ phase = "delete" /\ n # None
  /\ IF trash # <<>> /\ Head(trash) = n THEN Track(n, "old") ELSE UNCHANGED <<listVars>>
  /\ stack' = Goto([Top EXCEPT !.obj = None])
  /\ UNCHANGED <<refs, refcnt, phase, finalized, cursor, callVars, pastVars, world, weakVars>>

DeleteDone ==
  /\ Collector /\ phase = "delete" /\ Top.obj = None /\ trash = <<>>
  /\ phase' = "done"
  /\ UNCHANGED <<refs, refcnt, list, gcRefs, restVars>>

\* handle_legacy_finalizers(): gc.garbage keeps the objects with tp_del.
HandleLegacyFinalizers ==
  LET kept == On("finalizers") IN
  /\ Collector /\ phase = "done"
  /\ roots' = roots \cup (kept \cap hasDel)
  /\ refcnt' = Incref((kept \cap hasDel) \ roots)
  /\ list' = [n \in Nodes |-> IF n \in kept THEN "old" ELSE list[n]]
  /\ found' = {} /\ woken' = {}
  /\ phase' = "idle"
  /\ stack' = Return
  /\ UNCHANGED <<refs, gcRefs, fixed, life, finalized, trash, cursor, steps, collects,
                 callVars, cleared, leaked, weakVars>>

----------------------------------------------------------------------------
(* A heap the interpreter can be in, seen from its main program *)

HeapInit ==
  /\ refs \in [Nodes -> SUBSET Nodes] /\ \A w \in Weakrefs : refs[w] \subseteq Objects
  /\ roots \in SUBSET Nodes
  /\ refcnt = [n \in Nodes |-> Cardinality(From(Nodes, n)) + (IF n \in roots THEN 1 ELSE 0)]
  /\ life = [n \in Nodes |-> IF refcnt[n] > 0 THEN "live" ELSE "new"]
  /\ \A n \in Nodes : life[n] = "new" => refs[n] = {}
  /\ target \in [Weakrefs -> {n \in Objects : life[n] = "live"} \cup {None}]
  /\ callback \in SUBSET Weakrefs
  /\ \A w \in Weakrefs : life[w] = "new" => target[w] = None /\ w \notin callback
  /\ \A w \in Weakrefs : refs[w] # {} => w \in callback

Init ==
  /\ HeapInit
  /\ list \in [Nodes -> {"young", "old", "none"}]
  /\ \A n \in Nodes : list[n] = "none" <=> life[n] = "new"
  /\ hasFin \in SUBSET Objects /\ hasDel \in SUBSET Objects
  /\ \A n \in hasFin \cup hasDel : life[n] = "live"
  /\ gcRefs = [n \in Nodes |-> IF life[n] = "new" THEN GC_UNTRACKED ELSE GC_REACHABLE]
  /\ phase = "idle" /\ finalized = {} /\ trash = <<>> /\ cursor = None
  /\ stack = <<Python({})>> /\ steps = 0 /\ collects = 0
  /\ finCalls = [n \in Objects |-> 0] /\ cbCalls = [w \in Weakrefs |-> 0]
  /\ cleared = {} /\ found = {} /\ leaked = FALSE /\ woken = {}

\* update_refs() meets an object in the middle of its tp_dealloc, or the
\* cursor of finalize_garbage() points at what is no longer on its list:
\* what the code does from here on is undefined, and not followed.
MeetsDying == phase = "update_refs" /\ \E n \in On("young") : refcnt[n] = 0
CursorLost == phase = "finalize" /\ Collector /\ Top.obj = None /\ ~CursorOnList

Rest == (Len(stack) = 1 \/ MeetsDying \/ CursorLost) /\ UNCHANGED vars

PythonNext ==
  \/ InPython /\ LET reach == Access
                     objects == Access \cap Objects IN
       \/ \E n \in reach : Bind(n)
       \/ \E m \in objects, n \in reach : SetAttr(m, n) \/ DelAttr(m, n)
       \/ \E w \in reach \cap Weakrefs : Deref(w)
       \/ \E w \in Weakrefs, n \in objects, held \in SUBSET objects : NewWeakref(w, n, held)
  \/ \E n \in roots : Unbind(n)
  \/ \E full \in BOOLEAN : Collect(full)
  \/ PythonReturn

DeallocNext ==
  \/ DeallocObject \/ FinalizerDone \/ ClearWeakRefs \/ CallDel \/ UntrackDying
  \/ DeallocWeakref \/ Free
  \/ \E n \in Nodes : ClearOne(n)
  \/ \E w \in Weakrefs : CallCallback(w)

CollectNext ==
  \/ UpdateRefs \/ SubtractRefs \/ MoveUnreachable \/ MergeYoung
  \/ MoveLegacyFinalizers \/ HandleWeakrefs \/ CallbackDone \/ CallbacksDone
  \/ FinalizeNext \/ FinalizedOne \/ CheckGarbage
  \/ ClearFirst \/ ClearReturns \/ KeepOrForget \/ DeleteDone \/ HandleLegacyFinalizers
  \/ \E w \in Weakrefs : InvokeCallback(w)

Next == PythonNext \/ DeallocNext \/ CollectNext \/ Rest

Spec == Init /\ [][Next]_vars

----------------------------------------------------------------------------
(* Properties *)

Frames(n, dos) == {i \in DOMAIN stack : stack[i].obj = n /\ stack[i].do \in dos}
Live == {n \in Nodes : life[n] = "live"}

\* References the interpreter itself holds to n for a while
Borrowed(n) ==
  Cardinality({i \in DOMAIN stack : n \in stack[i].holds})
    + Cardinality(Frames(n, {"dealloc.finalized", "dealloc.deleted", "gc.clear"}))
    + (IF phase = "finalize" THEN Cardinality(Frames(n, {"gc"})) ELSE 0)

\* An object's count is the number of references to it, and it is on its
\* way out exactly when there is none: no step of a dealloc, of a callback
\* or of the collector takes or leaves a reference too many.
RefcountsTrue ==
  \A n \in Nodes :
    /\ refcnt[n] = Cardinality(From(Nodes, n)) + (IF n \in roots THEN 1 ELSE 0) + Borrowed(n)
    /\ life[n] = "dead" => refcnt[n] = 0 /\ refs[n] = {} /\ list[n] = "none"
    /\ life[n] = "live" /\ refcnt[n] = 0 =>
         \E i \in DOMAIN stack : stack[i].obj = n /\ stack[i].do \notin {"gc", "gc.clear"}

\* What the walk calls trash is trash: WalkInvariant all along, and after it,
\* while callbacks run in handle_weakrefs(), no reference comes into the trash
\* from anywhere else, nor does a weak reference lead to it: "nothing in CT is
\* reachable from the callback either" (gcmodule.c:673).  The exception: the
\* callback drops an older object, and a weak reference to that one which is
\* trash is called too.
TrashIsTrash ==
  /\ WalkInvariant
  /\ phase \in {"legacy", "weakrefs", "callbacks"} /\ woken = {} =>
       LET T == On("unreachable") IN \A n \in T : refcnt[n] = Cardinality(From(T, n))
  /\ phase = "callbacks" /\ woken = {} => \A w \in Weakrefs : target[w] \notin Collectable
  /\ trash # <<>> => Collectable = On("unreachable") /\ IsInjective(trash)

\* Python code never sees an object that is dead, dying, or emptied by
\* tp_clear, and no weak reference leads to a dead one.  The exceptions are
\* known: a weak reference made by a finalizer of the trash leads back to it,
\* or a trash weak reference to an older object is called when that object
\* dies of the clearing.
PythonSeesWhole ==
  /\ InPython /\ ~leaked =>
       \A n \in Access : life[n] = "live" /\ refcnt[n] > 0 /\ n \notin cleared
  /\ \A w \in Weakrefs : target[w] # None => life[w] = "live" /\ life[target[w]] = "live"

\* Each object is finalized once at most, by whichever of its dealloc and the
\* collector comes first, and each callback is called once at most.
CalledOnce ==
  /\ \A n \in Objects : finCalls[n] <= 1
  /\ \A w \in Weakrefs : cbCalls[w] <= 1

\* What check_garbage() found unreachable still is gone when the collection
\* ends, unless it was leaked to Python code.
Reclaims ==
  [][phase = "done" /\ phase' = "idle" =>
       \A n \in found : life[n] = "dead" \/ leaked]_vars

\* "What we can and must stop is running any Python code that could access
\* CT" (gc_weakref.txt:155): no Python code runs with objects in reach that
\* the collector is clearing.
NoLeak == InPython /\ Clearing => Access \cap found = {}

\* "DO NOT restore GC tracking at this point.  weakref callbacks [...] may
\* trigger GC, and if self is tracked at that point, it will look like trash
\* to GC" (typeobject.c:1090): the collector never meets a dying object.
NoDyingTracked == ~MeetsDying

\* The cursor of finalize_garbage() stays on the list it walks.
CursorStays == ~CursorLost
=============================================================================

------------------------------ MODULE GCReach ------------------------------
(***************************************************************************)
(* How the cyclic collector finds trash (Modules/gcmodule.c): no Python    *)
(* code runs meanwhile, so refs and refcnt stand still.  update_refs()     *)
(* copies the reference counts of the generation under collection,         *)
(* subtract_refs() takes off the references that come from inside it, and  *)
(* move_unreachable() walks its list, moving to `unreachable` what has no  *)
(* reference left and back what turns out to be reached later.             *)
(*                                                                         *)
(* An object is on one of the collector's lists, or on none when it is     *)
(* not tracked.  The order of a list is left open here: Scan(n) may take   *)
(* any object that the walk has not reached yet.                           *)
(***************************************************************************)
EXTENDS Integers, FiniteSets

CONSTANT Nodes            \* the objects (PyGC_Head and what follows it)

ASSUME FiniteNodes == IsFiniteSet(Nodes)

VARIABLES
  refs,       \* refs[n]: the objects n holds a strong reference to
  refcnt,     \* ob_refcnt
  list,       \* the list n is linked into
  gcRefs,     \* gc.gc_refs
  phase       \* which of the walks the collector is in

reachVars == <<refs, refcnt, list, gcRefs, phase>>

GC_UNTRACKED == -2
GC_REACHABLE == -3
GC_TENTATIVELY_UNREACHABLE == -4

Lists == {"young", "old", "unreachable", "finalizers", "callbacks", "none"}
On(l) == {n \in Nodes : list[n] = l}

\* The references into n from the objects of S
From(S, n) == {m \in S : n \in refs[m]}

\* What can be reached from S along strong references: in every closed set
Closed(S) == \A n \in S : refs[n] \subseteq S
Reach(S) ==
  LET closures == {T \in SUBSET Nodes : S \subseteq T /\ Closed(T)} IN
  {n \in Nodes : \A T \in closures : n \in T}

----------------------------------------------------------------------------
\* update_refs(): a count of 0 is a dying object, which must not be here.
update_refs ==
  /\ phase = "update_refs"
  /\ \A n \in On("young") : refcnt[n] # 0
  /\ gcRefs' = [n \in Nodes |-> IF n \in On("young") THEN refcnt[n] ELSE gcRefs[n]]
  /\ phase' = "subtract_refs"
  /\ UNCHANGED <<refs, refcnt, list>>

\* subtract_refs() with visit_decref(): only the generation has gcRefs > 0.
Subtract(l) ==
  [n \in Nodes |-> IF n \in On(l) THEN refcnt[n] - Cardinality(From(On(l), n)) ELSE gcRefs[n]]

subtract_refs ==
  /\ phase = "subtract_refs"
  /\ gcRefs' = Subtract("young")
  /\ phase' = "move_unreachable"
  /\ UNCHANGED <<refs, refcnt, list>>

\* Not reached by the walk: its count is still a count
Unscanned == {n \in On("young") : gcRefs[n] >= 0}

\* Mutant: what was moved to `unreachable` is not moved back.
MarkWaiting(n) ==
  LET told == {m \in refs[n] : m # n /\ gcRefs[m] = 0} IN
  /\ gcRefs' = [m \in Nodes |-> CASE m = n -> GC_REACHABLE
                                  [] m \in told -> 1
                                  [] OTHER -> gcRefs[m]]
  /\ list' = list

\* visit_reachable() on everything n refers to
MarkReachable(n) ==
  LET told == {m \in refs[n] : m # n /\ gcRefs[m] \in {0, GC_TENTATIVELY_UNREACHABLE}} IN
  /\ gcRefs' = [m \in Nodes |-> CASE m = n -> GC_REACHABLE
                                  [] m \in told -> 1
                                  [] OTHER -> gcRefs[m]]
  /\ list' = [m \in Nodes |-> IF m \in told THEN "young" ELSE list[m]]

\* One turn of the loop of move_unreachable()
move_unreachable(n) ==
  /\ phase = "move_unreachable"
  /\ n \in Unscanned
  /\ \/ gcRefs[n] > 0 /\ MarkReachable(n)
     \/ /\ gcRefs[n] = 0
        /\ gcRefs' = [gcRefs EXCEPT ![n] = GC_TENTATIVELY_UNREACHABLE]
        /\ list' = [list EXCEPT ![n] = "unreachable"]
  /\ UNCHANGED <<refs, refcnt, phase>>

\* The walk is over: what stayed in young joins the next older generation.
merge_young ==
  /\ phase = "move_unreachable"
  /\ Unscanned = {}
  /\ list' = [n \in Nodes |-> IF list[n] = "young" THEN "old" ELSE list[n]]
  /\ phase' = "legacy"
  /\ UNCHANGED <<refs, refcnt, gcRefs>>

----------------------------------------------------------------------------
Examined == On("young") \cup On("unreachable")

\* What has a reference from outside the generation under collection: from
\* an older object, or one that no object holds (a variable, the C stack)
Outside(S) ==
  {n \in S : refcnt[n] > Cardinality(From(S, n))}

\* Once the counts are subtracted an object is told "directly reachable from
\* outside" exactly by a positive count, every object moved aside is not
\* referenced by a scanned one, and every scanned one is reachable
\* (the comment at gcmodule.c:450).
WalkInvariant ==
  phase = "move_unreachable" =>
    /\ \A n \in Examined : gcRefs[n] # GC_UNTRACKED
    /\ {n \in On("young") : gcRefs[n] # 0} \subseteq Reach(Outside(Examined))
    /\ \A n \in On("unreachable") : n \notin Outside(Examined)
    /\ \A n \in On("young"), m \in Examined :
         gcRefs[n] = GC_REACHABLE /\ m \in refs[n] => list[m] = "young" /\ gcRefs[m] # 0
============================================================================

--------------------------- MODULE CyclicGCProofs ---------------------------
(***************************************************************************)
(* Theorems about reference counts, deallocation and the cyclic collector, *)
(* for any finite set of objects and weak references, any heap, and        *)
(* whatever the Python code that is called back does with it.              *)
(*                                                                         *)
(* The first part counts the references the stack holds; then comes one    *)
(* lemma per action for each part of the invariant the action can disturb. *)
(***************************************************************************)
EXTENDS CyclicGC, SequenceTheorems, FiniteSetTheorems, TLAPS

-----------------------------------------------------------------------------
(* The inductive invariant                                                 *)

Dying == {"dealloc", "dealloc.weakrefs", "dealloc.callbacks", "dealloc.untrack", "dealloc.clear"}
Bracketed == {"dealloc.finalized", "dealloc.deleted"}
Deallocs == Dying \cup Bracketed
Code == {"python", "leave"}

Phases == {"idle", "update_refs", "subtract_refs", "move_unreachable", "legacy", "weakrefs",
           "callbacks", "finalize", "delete", "done"}

\* No Python code runs in these,
Silent == {"update_refs", "subtract_refs", "move_unreachable", "legacy", "weakrefs", "done"}

\* and in these trash is the list `unreachable` in order.
Ordered == {"weakrefs", "callbacks", "finalize", "delete"}

\* The frames there can be.
FrameSet ==
  {f \in [do : Code \cup Deallocs \cup {"gc", "gc.clear"}, obj : Nodes \cup {None},
          holds : SUBSET Nodes] :
     /\ f.do \in Code => f.obj = None
     /\ f.do \in Deallocs \cup {"gc.clear"} => f.obj \in Nodes
     /\ f.do \in Deallocs \ {"dealloc", "dealloc.clear"} => f.obj \in Objects
     /\ f.do \in (Deallocs \ {"dealloc.callbacks"}) \cup {"gc.clear"} => f.holds = {}
     /\ f.do \in {"dealloc.callbacks", "gc"} => f.holds \subseteq Weakrefs}

HeapType ==
  /\ refs \in [Nodes -> SUBSET Nodes] /\ refcnt \in [Nodes -> Nat]
  /\ roots \in SUBSET Nodes
  /\ hasFin \in SUBSET Objects /\ hasDel \in SUBSET Objects
  /\ target \in [Weakrefs -> Objects \cup {None}] /\ callback \in SUBSET Weakrefs
  /\ life \in [Nodes -> {"new", "live", "dead"}]
  /\ \A w \in Weakrefs : refs[w] \subseteq Objects

TypeOK ==
  /\ HeapType
  /\ list \in [Nodes -> Lists] /\ gcRefs \in [Nodes -> Int] /\ phase \in Phases
  /\ finalized \in SUBSET Objects
  /\ trash \in Seq(Nodes) /\ cursor \in Nodes \cup {None}
  /\ stack \in Seq(FrameSet) /\ stack # <<>>
  /\ finCalls \in [Objects -> Nat] /\ cbCalls \in [Weakrefs -> Nat]
  /\ cleared \in SUBSET Nodes /\ found \in SUBSET Nodes /\ leaked \in BOOLEAN
  /\ woken \in SUBSET Nodes

Is(i, do) == i \in DOMAIN stack /\ stack[i].do = do

\* Main code below, one dealloc of an object at most, the newest on top; one
\* collection at most, and the tp_clear it calls right above it.
StackSound ==
  /\ stack[1].do = "python"
  /\ \A i, j \in DOMAIN stack :
       stack[i].do \in Deallocs /\ stack[j].do \in Deallocs /\ stack[i].obj = stack[j].obj => i = j
  /\ \A i \in DOMAIN stack : stack[i].do = "dealloc" => i = Len(stack)
  /\ \A i \in DOMAIN stack : stack[i].do = "dealloc.deleted" => stack[i].obj \in hasDel

\* Where the collector is.
CollectorSound ==
  /\ \A i, j \in DOMAIN stack : stack[i].do = "gc" /\ stack[j].do = "gc" => i = j
  /\ phase # "idle" <=> \E i \in DOMAIN stack : stack[i].do = "gc"
  /\ phase \in Silent => Top = Frame("gc", None, {})
  /\ \A i \in DOMAIN stack : stack[i].do = "gc.clear" =>
       phase = "delete" /\ i > 1 /\ stack[i-1].do = "gc" /\ stack[i-1].obj = stack[i].obj
  /\ \A i \in DOMAIN stack : stack[i].do = "gc" =>
       /\ stack[i].holds # {} => phase = "callbacks"
       /\ \A w \in stack[i].holds : list[w] = "callbacks"
       /\ stack[i].obj # None => phase \in {"callbacks", "finalize", "delete"}
       /\ stack[i].obj # None /\ phase = "callbacks" => stack[i].obj \in Weakrefs
       /\ stack[i].obj # None /\ phase = "finalize" =>
            stack[i].obj = cursor /\ cursor \in Collectable
       /\ stack[i].obj # None /\ phase = "delete" => stack[i].obj \in found

CountsTrue ==
  \A n \in Nodes :
    refcnt[n] = Cardinality(From(Nodes, n)) + (IF n \in roots THEN 1 ELSE 0) + Borrowed(n)

\* What is dead or dying.
NotLive ==
  \A n \in Nodes : life[n] # "live" => refcnt[n] = 0 /\ refs[n] = {} /\ list[n] = "none"

ZeroLeaves ==
  \A n \in Nodes : life[n] = "live" /\ refcnt[n] = 0 =>
    \E i \in DOMAIN stack : stack[i].do \in Deallocs /\ stack[i].obj = n

LeavingSound ==
  /\ \A i \in DOMAIN stack : stack[i].do \in Deallocs => life[stack[i].obj] = "live"
  /\ \A i \in DOMAIN stack : stack[i].do \in Dying => refcnt[stack[i].obj] = 0
  /\ \A i \in DOMAIN stack : stack[i].do = "dealloc.clear" =>
       /\ list[stack[i].obj] = "none"
       /\ stack[i].obj \in Weakrefs => target[stack[i].obj] = None

LifeSound == NotLive /\ ZeroLeaves /\ LeavingSound

\* Weak references to what is dead or about to go are cleared.
WeakSound ==
  /\ \A w \in Weakrefs : target[w] # None => life[w] = "live" /\ life[target[w]] = "live"
  /\ \A i \in DOMAIN stack, w \in Weakrefs :
       \/ stack[i].do \in {"dealloc.callbacks", "dealloc.clear"}
       \/ (stack[i].do = "dealloc.untrack" /\ stack[i].obj \notin hasDel)
       => target[w] # stack[i].obj

\* The collector's lists.
ListSound ==
  /\ phase \in Ordered => Collectable = On("unreachable") /\ IsInjective(trash)
  /\ phase \notin Ordered => trash = <<>>
  /\ phase \in {"idle", "update_refs", "subtract_refs", "done"} => On("unreachable") = {}
  /\ \A n \in Nodes : list[n] = "callbacks" => phase = "callbacks" /\ n \in Weakrefs
  /\ \A n \in Nodes :
       \/ gcRefs[n] \in {GC_UNTRACKED, GC_REACHABLE}
       \/ list[n] = "unreachable"
       \/ (list[n] = "young" /\ phase \in {"subtract_refs", "move_unreachable"})
  /\ \A i \in DOMAIN stack : stack[i].do \in Deallocs \ {"dealloc"} =>
       list[stack[i].obj] \notin {"unreachable", "finalizers"}
  /\ phase \in {"weakrefs", "callbacks", "finalize", "delete"} => On("unreachable") \cap hasDel = {}

\* During the walk.
WalkSound ==
  /\ phase \in {"subtract_refs", "move_unreachable"} => \A n \in Examined : refcnt[n] > 0
  /\ phase = "move_unreachable" =>
       /\ \A n \in On("young") : gcRefs[n] = GC_REACHABLE \/ gcRefs[n] >= 0
       /\ \A n \in On("unreachable") : gcRefs[n] = GC_TENTATIVELY_UNREACHABLE
       /\ \A n \in On("young") : gcRefs[n] # 0 => n \in Reach(Outside(Examined))
       /\ \A n \in Examined :
            gcRefs[n] \in {0, GC_TENTATIVELY_UNREACHABLE} => n \notin Outside(Examined)
       /\ \A n \in On("young"), m \in Examined :
            gcRefs[n] = GC_REACHABLE /\ m \in refs[n] => list[m] = "young" /\ gcRefs[m] # 0

\* Nothing but T itself refers to T, nor does code that runs or will run.
Sealed(T) ==
  \A n \in T :
    /\ From(Nodes, n) \subseteq T
    /\ n \notin roots
    /\ \A i \in DOMAIN stack : stack[i].do # "dealloc.callbacks" => n \notin stack[i].holds

\* What the walk has set aside, until a finalizer is called.
TrashSound ==
  /\ phase \in {"legacy", "weakrefs"} \/ (phase = "callbacks" /\ woken = {}) =>
       /\ Sealed(On("unreachable"))
       /\ \A i \in DOMAIN stack :
            /\ stack[i].holds \cap On("unreachable") = {}
            /\ stack[i].do \in Deallocs => stack[i].obj \notin On("unreachable")
  /\ phase \in {"legacy", "weakrefs"} =>
       \A n \in On("unreachable") : gcRefs[n] = GC_TENTATIVELY_UNREACHABLE
  /\ phase = "callbacks" /\ woken = {} => \A w \in Weakrefs : target[w] \notin On("unreachable")

\* Every object up to the cursor has been finalized.
FinalizeSound ==
  /\ phase = "finalize" =>
       \A i, j \in DOMAIN trash :
         trash[j] = cursor /\ i <= j /\ trash[i] \in hasFin => trash[i] \in finalized
  /\ found \cap hasDel = {} /\ found \cap hasFin \subseteq finalized

\* While the trash is cleared, and unless it leaks.
FoundSound ==
  /\ phase \notin {"delete", "done"} => found = {}
  /\ phase = "delete" => Collectable \subseteq found
  /\ \A n \in found : life[n] # "new"
  /\ phase = "delete" => \A i \in DOMAIN stack : stack[i].do \in Bracketed => stack[i].obj \notin found

ClearedSound ==
  /\ ~leaked => \A n \in cleared : (life[n] = "dead" \/ (phase = "delete" /\ n \in found))
  /\ phase = "done" /\ ~leaked => \A n \in found : life[n] = "dead"

FoundSealed ==
  phase = "delete" /\ ~leaked =>
       /\ Sealed(found)
       /\ \A i, j \in DOMAIN stack : stack[j].do = "gc" =>
            /\ stack[i].holds \cap found # {} => i > j
            /\ stack[i].do \in Deallocs /\ stack[i].obj \in found => i > j
            /\ stack[j].obj # None => refs[stack[j].obj] = {} \/ Is(j + 1, "gc.clear")
       /\ \A n \in found \ Collectable :
            \/ refs[n] = {}
            \/ \E i \in DOMAIN stack : stack[i].do \in Dying /\ stack[i].obj = n

DeleteSound == FoundSound /\ ClearedSound /\ FoundSealed

\* Calls that have been made, and those still to be made.
CallsSound ==
  /\ \A n \in Objects :
       /\ finCalls[n] <= 1
       /\ finCalls[n] = 1 => n \in finalized \/ \E i \in DOMAIN stack :
            stack[i].do = "dealloc.finalized" /\ stack[i].obj = n
  /\ \A w \in Weakrefs :
       /\ cbCalls[w] <= 1
       /\ life[w] = "new" => cbCalls[w] = 0
       /\ target[w] # None => cbCalls[w] = 0 /\ list[w] # "callbacks"
       /\ list[w] = "callbacks" => target[w] = None
       /\ list[w] = "callbacks" /\ (\A i \in DOMAIN stack : stack[i].do = "gc" => stack[i].obj # w)
            => cbCalls[w] = 0
       /\ \A i \in DOMAIN stack : stack[i].do = "dealloc.callbacks" /\ w \in stack[i].holds =>
            /\ cbCalls[w] = 0 /\ target[w] = None /\ list[w] # "callbacks"
            /\ \A j \in DOMAIN stack :
                 stack[j].do = "dealloc.callbacks" /\ w \in stack[j].holds => i = j

IInv ==
  /\ TypeOK /\ StackSound /\ CollectorSound /\ CountsTrue /\ LifeSound /\ WeakSound /\ ListSound
  /\ WalkSound /\ TrashSound /\ FinalizeSound /\ DeleteSound /\ CallsSound
-----------------------------------------------------------------------------
(* Counting references                                                     *)

One(b) == IF b THEN 1 ELSE 0

Keepers == {"dealloc.finalized", "dealloc.deleted", "gc.clear"}

\* What the frames of s hold of n, in phase ph, and one frame of them.
Owed(s, ph, n) ==
  Cardinality({i \in DOMAIN s : n \in s[i].holds})
    + Cardinality({i \in DOMAIN s : s[i].obj = n /\ s[i].do \in Keepers})
    + (IF ph = "finalize" THEN Cardinality({i \in DOMAIN s : s[i].obj = n /\ s[i].do \in {"gc"}})
       ELSE 0)

Weight(f, ph, n) ==
  One(n \in f.holds) + One(f.obj = n /\ f.do \in Keepers)
    + One(ph = "finalize" /\ f.obj = n /\ f.do = "gc")

LEMMA BorrowedIsOwed == \A n \in Nodes : Borrowed(n) = Owed(stack, phase, n)
BY DEF Borrowed, Owed, Frames, Keepers

LEMMA BorrowedIsOwedNext == \A n \in Nodes : Borrowed(n)' = Owed(stack', phase', n)
BY DEF Borrowed, Owed, Frames, Keepers

Places(s, F) == {i \in DOMAIN s : s[i] \in F}

LEMMA PlacesFinite ==
  ASSUME NEW S, NEW s \in Seq(S), NEW F
  PROVE  IsFiniteSet(Places(s, F)) /\ Cardinality(Places(s, F)) \in Nat
<1>1. DOMAIN s = 1..Len(s) /\ Len(s) \in Nat
  BY LenProperties
<1>2. IsFiniteSet(1..Len(s))
  BY <1>1, FS_Interval
<1>3. Places(s, F) \subseteq 1..Len(s)
  BY <1>1 DEF Places
<1> QED BY <1>2, <1>3, FS_Subset, FS_CardinalityType

LEMMA PlacesAppend ==
  ASSUME NEW S, NEW s \in Seq(S), NEW f \in S, NEW F
  PROVE  Cardinality(Places(Append(s, f), F)) = Cardinality(Places(s, F)) + One(f \in F)
<1> DEFINE a == Append(s, f)
<1>1. /\ DOMAIN s = 1..Len(s) /\ Len(s) \in Nat
      /\ DOMAIN a = 1..(Len(s) + 1)
      /\ \A i \in 1..Len(s) : a[i] = s[i]
      /\ a[Len(s) + 1] = f
  BY AppendProperties, LenProperties
<1> HIDE DEF a
<1>2. Len(s) + 1 \notin Places(s, F)
  BY <1>1 DEF Places
<1>3. CASE f \in F
  <2>1. Places(a, F) = Places(s, F) \cup {Len(s) + 1}
    BY <1>1, <1>3 DEF Places
  <2> QED BY <2>1, <1>2, <1>3, PlacesFinite, FS_AddElement DEF a, One
<1>4. CASE f \notin F
  <2>1. Places(a, F) = Places(s, F)
    BY <1>1, <1>4 DEF Places
  <2> QED BY <2>1, <1>4, PlacesFinite DEF a, One
<1> QED BY <1>3, <1>4

LEMMA PlacesFront ==
  ASSUME NEW S, NEW s \in Seq(S), s # <<>>, NEW F
  PROVE  Cardinality(Places(Front(s), F)) = Cardinality(Places(s, F)) - One(s[Len(s)] \in F)
<1>1. Len(s) \in Nat \ {0} /\ DOMAIN s = 1..Len(s) /\ \A i \in 1..Len(s) : s[i] \in S
  BY EmptySeq, LenProperties
<1> DEFINE r == Front(s)
<1>2. /\ r \in Seq(S) /\ Len(r) = Len(s) - 1
      /\ \A i \in 1..(Len(s) - 1) : r[i] = s[i]
  BY <1>1, SubSeqProperties DEF Front
<1>3. DOMAIN r = 1..(Len(s) - 1)
  BY <1>2, LenProperties
<1> HIDE DEF r
<1>4. CASE s[Len(s)] \in F
  <2>1. Places(r, F) = Places(s, F) \ {Len(s)} /\ Len(s) \in Places(s, F)
    BY <1>1, <1>2, <1>3, <1>4 DEF Places
  <2> QED BY <2>1, <1>4, PlacesFinite, FS_RemoveElement DEF r, One
<1>5. CASE s[Len(s)] \notin F
  <2>1. Places(r, F) = Places(s, F)
    BY <1>1, <1>2, <1>3, <1>5 DEF Places
  <2> QED BY <2>1, <1>5, PlacesFinite DEF r, One
<1> QED BY <1>4, <1>5

\* The frames that Owed() counts, as sets of frames.
Holding(n) == {f \in FrameSet : n \in f.holds}
Keeping(n) == {f \in FrameSet : f.obj = n /\ f.do \in Keepers}
Walking(n) == {f \in FrameSet : f.obj = n /\ f.do \in {"gc"}}

LEMMA OwedByPlaces ==
  ASSUME NEW s \in Seq(FrameSet), NEW ph, NEW n
  PROVE  Owed(s, ph, n) = Cardinality(Places(s, Holding(n))) + Cardinality(Places(s, Keeping(n)))
           + (IF ph = "finalize" THEN Cardinality(Places(s, Walking(n))) ELSE 0)
<1>1. \A i \in DOMAIN s : s[i] \in FrameSet
  BY LenProperties
<1>2. {i \in DOMAIN s : n \in s[i].holds} = Places(s, Holding(n))
  BY <1>1 DEF Places, Holding
<1>3. {i \in DOMAIN s : s[i].obj = n /\ s[i].do \in Keepers} = Places(s, Keeping(n))
  BY <1>1 DEF Places, Keeping
<1>4. {i \in DOMAIN s : s[i].obj = n /\ s[i].do \in {"gc"}} = Places(s, Walking(n))
  BY <1>1 DEF Places, Walking
<1> QED BY <1>2, <1>3, <1>4 DEF Owed

LEMMA OwedNat ==
  ASSUME NEW s \in Seq(FrameSet), NEW ph, NEW n
  PROVE  Owed(s, ph, n) \in Nat
BY OwedByPlaces, PlacesFinite

LEMMA OwedAppend ==
  ASSUME NEW s \in Seq(FrameSet), NEW f \in FrameSet, NEW ph, NEW n
  PROVE  Owed(Append(s, f), ph, n) = Owed(s, ph, n) + Weight(f, ph, n)
<1>1. Append(s, f) \in Seq(FrameSet)
  BY AppendProperties
<1> DEFINE a == Append(s, f)
<1>2. /\ Cardinality(Places(a, Holding(n))) = Cardinality(Places(s, Holding(n))) + One(n \in f.holds)
      /\ Cardinality(Places(a, Keeping(n)))
           = Cardinality(Places(s, Keeping(n))) + One(f.obj = n /\ f.do \in Keepers)
      /\ Cardinality(Places(a, Walking(n)))
           = Cardinality(Places(s, Walking(n))) + One(f.obj = n /\ f.do = "gc")
  BY PlacesAppend DEF Holding, Keeping, Walking, One
<1>3. /\ Cardinality(Places(s, Holding(n))) \in Nat /\ Cardinality(Places(s, Keeping(n))) \in Nat
      /\ Cardinality(Places(s, Walking(n))) \in Nat
  BY PlacesFinite
<1> HIDE DEF a
<1>4. a \in Seq(FrameSet)
  BY <1>1 DEF a
<1>5. Owed(a, ph, n) = Cardinality(Places(a, Holding(n))) + Cardinality(Places(a, Keeping(n)))
           + (IF ph = "finalize" THEN Cardinality(Places(a, Walking(n))) ELSE 0)
  BY <1>4, OwedByPlaces
<1>6. Owed(s, ph, n) = Cardinality(Places(s, Holding(n))) + Cardinality(Places(s, Keeping(n)))
           + (IF ph = "finalize" THEN Cardinality(Places(s, Walking(n))) ELSE 0)
  BY OwedByPlaces
<1> QED BY <1>2, <1>3, <1>5, <1>6 DEF a, Weight, One

LEMMA OwedFront ==
  ASSUME NEW s \in Seq(FrameSet), s # <<>>, NEW ph, NEW n
  PROVE  Owed(Front(s), ph, n) = Owed(s, ph, n) - Weight(s[Len(s)], ph, n)
<1> DEFINE a == Front(s)
           f == s[Len(s)]
<1>1. a \in Seq(FrameSet) /\ f \in FrameSet
  <2>1. Len(s) \in Nat \ {0} /\ \A i \in 1..Len(s) : s[i] \in FrameSet
    BY EmptySeq, LenProperties
  <2> QED BY <2>1, SubSeqProperties DEF Front
<1>2. /\ Cardinality(Places(a, Holding(n))) = Cardinality(Places(s, Holding(n))) - One(n \in f.holds)
      /\ Cardinality(Places(a, Keeping(n)))
           = Cardinality(Places(s, Keeping(n))) - One(f.obj = n /\ f.do \in Keepers)
      /\ Cardinality(Places(a, Walking(n)))
           = Cardinality(Places(s, Walking(n))) - One(f.obj = n /\ f.do = "gc")
  BY <1>1, PlacesFront DEF Holding, Keeping, Walking, One
<1>3. /\ Cardinality(Places(s, Holding(n))) \in Nat /\ Cardinality(Places(s, Keeping(n))) \in Nat
      /\ Cardinality(Places(s, Walking(n))) \in Nat
  BY PlacesFinite
<1> HIDE DEF a
<1>4. a \in Seq(FrameSet)
  BY <1>1
<1>5. Owed(a, ph, n) = Cardinality(Places(a, Holding(n))) + Cardinality(Places(a, Keeping(n)))
           + (IF ph = "finalize" THEN Cardinality(Places(a, Walking(n))) ELSE 0)
  BY <1>4, OwedByPlaces
<1>6. Owed(s, ph, n) = Cardinality(Places(s, Holding(n))) + Cardinality(Places(s, Keeping(n)))
           + (IF ph = "finalize" THEN Cardinality(Places(s, Walking(n))) ELSE 0)
  BY OwedByPlaces
<1> HIDE DEF f
<1>7. Owed(a, ph, n) = Owed(s, ph, n) - Weight(f, ph, n)
  BY <1>2, <1>3, <1>5, <1>6 DEF Weight, One
<1> QED BY <1>7 DEF a, f

LEMMA SetIsFrontAppend ==
  ASSUME NEW S, NEW s \in Seq(S), s # <<>>, NEW g \in S
  PROVE  /\ [s EXCEPT ![Len(s)] = g] = Append(Front(s), g)
         /\ Front(s) \in Seq(S) /\ Len(Front(s)) = Len(s) - 1
         /\ \A i \in 1..(Len(s) - 1) : Front(s)[i] = s[i]
<1>1. Len(s) \in Nat \ {0} /\ DOMAIN s = 1..Len(s) /\ \A i \in 1..Len(s) : s[i] \in S
  BY EmptySeq, LenProperties
<1>2. /\ Front(s) \in Seq(S) /\ Len(Front(s)) = Len(s) - 1
      /\ \A i \in 1..(Len(s) - 1) : Front(s)[i] = s[i]
  BY <1>1, SubSeqProperties DEF Front
<1> DEFINE a == [s EXCEPT ![Len(s)] = g]
           b == Append(Front(s), g)
<1>3. /\ a \in Seq(S) /\ Len(a) = Len(s)
      /\ \A i \in 1..Len(s) : a[i] = IF i = Len(s) THEN g ELSE s[i]
  BY <1>1, ExceptSeq
<1>4. /\ b \in Seq(S) /\ Len(b) = Len(s)
      /\ \A i \in 1..Len(s) : b[i] = IF i = Len(s) THEN g ELSE s[i]
  <2>1. /\ b \in Seq(S) /\ Len(b) = Len(Front(s)) + 1
        /\ \A i \in 1..Len(Front(s)) : b[i] = Front(s)[i]
        /\ b[Len(Front(s)) + 1] = g
    BY <1>2, AppendProperties
  <2> QED BY <2>1, <1>1, <1>2
<1> HIDE DEF a, b
<1>5. a = b
  BY <1>3, <1>4, SeqEqual
<1> QED BY <1>2, <1>5 DEF a, b

LEMMA WeightNat == \A f, ph, n : Weight(f, ph, n) \in Nat
BY DEF Weight, One

LEMMA OwedSet ==
  ASSUME NEW s \in Seq(FrameSet), s # <<>>, NEW a \in Seq(FrameSet), Len(a) = Len(s),
         \A i \in 1..Len(s) : i # Len(s) => a[i] = s[i], NEW ph, NEW n
  PROVE  Owed(a, ph, n) = Owed(s, ph, n) - Weight(s[Len(s)], ph, n) + Weight(a[Len(s)], ph, n)
<1> DEFINE r == Front(s)
           g == a[Len(s)]
<1>1. Len(s) \in Nat \ {0} /\ g \in FrameSet
  <2>1. Len(s) \in Nat \ {0} /\ Len(s) \in 1..Len(a)
    BY EmptySeq
  <2> QED BY <2>1, LenProperties
<1>2. /\ r \in Seq(FrameSet) /\ Len(r) = Len(s) - 1
      /\ \A i \in 1..(Len(s) - 1) : r[i] = s[i]
  BY <1>1, SetIsFrontAppend
<1> HIDE DEF r, g
<1>3. /\ Append(r, g) \in Seq(FrameSet) /\ Len(Append(r, g)) = Len(r) + 1
      /\ \A i \in 1..Len(r) : Append(r, g)[i] = r[i]
      /\ Append(r, g)[Len(r) + 1] = g
  BY <1>1, <1>2, AppendProperties
<1>4. \A i \in 1..Len(a) : Append(r, g)[i] = a[i]
  BY <1>1, <1>2, <1>3 DEF g
<1>5. a = Append(r, g)
  BY <1>1, <1>2, <1>3, <1>4, SeqEqual
<1>6. Owed(a, ph, n) = Owed(r, ph, n) + Weight(g, ph, n)
  BY <1>1, <1>2, <1>5, OwedAppend
<1>7. Owed(r, ph, n) = Owed(s, ph, n) - Weight(s[Len(s)], ph, n)
  BY OwedFront DEF r
<1> QED BY <1>6, <1>7 DEF g

\* What is held or kept is owed; and what is not owed is neither.
LEMMA OwedPositive ==
  ASSUME NEW s \in Seq(FrameSet), NEW ph, NEW n, NEW i \in DOMAIN s, Weight(s[i], ph, n) > 0
  PROVE  Owed(s, ph, n) > 0
<1>1. s[i] \in FrameSet
  BY LenProperties
<1>2. \/ i \in Places(s, Holding(n)) \/ i \in Places(s, Keeping(n))
      \/ ph = "finalize" /\ i \in Places(s, Walking(n))
  BY <1>1 DEF Places, Holding, Keeping, Walking, Weight, One
<1>3. ASSUME NEW F, i \in Places(s, F) PROVE Cardinality(Places(s, F)) > 0
  BY <1>3, PlacesFinite, FS_EmptySet
<1>4. \A F : Cardinality(Places(s, F)) \in Nat
  BY PlacesFinite
<1> QED BY <1>2, <1>3, <1>4, OwedByPlaces

\* The phase matters only if the collector has an object in hand.
LEMMA OwedPhase ==
  ASSUME NEW s \in Seq(FrameSet), NEW p1, NEW p2, NEW n,
         \A i \in DOMAIN s : s[i].do = "gc" => s[i].obj # n
  PROVE  Owed(s, p1, n) = Owed(s, p2, n)
<1>1. Places(s, Walking(n)) = {}
  BY DEF Places, Walking
<1>2. Cardinality(Places(s, Walking(n))) = 0
  BY <1>1, FS_EmptySet
<1>3. \A F : Cardinality(Places(s, F)) \in Nat
  BY PlacesFinite
<1> QED BY <1>2, <1>3, OwedByPlaces

\* Who refers to n, in the heap r.
Sources(r, n) == {m \in Nodes : n \in r[m]}

LEMMA SourcesFinite ==
  ASSUME NEW r, NEW n
  PROVE  IsFiniteSet(Sources(r, n)) /\ Cardinality(Sources(r, n)) \in Nat
BY FiniteNodes, FS_Subset, FS_CardinalityType DEF Sources

LEMMA SourcesSet ==
  ASSUME NEW r, NEW q, NEW m \in Nodes, NEW n, \A x \in Nodes : x # m => q[x] = r[x]
  PROVE  Cardinality(Sources(q, n))
           = Cardinality(Sources(r, n)) - One(n \in r[m]) + One(n \in q[m])
<1> DEFINE P == Sources(r, n) \ {m}
<1>1. IsFiniteSet(P) /\ Cardinality(P) = Cardinality(Sources(r, n)) - One(n \in r[m])
      /\ Cardinality(Sources(r, n)) \in Nat /\ m \notin P
  <2>1. m \in Sources(r, n) <=> n \in r[m]
    BY DEF Sources
  <2> QED BY <2>1, SourcesFinite, FS_RemoveElement DEF One
<1>2. CASE n \in q[m]
  <2>1. Sources(q, n) = P \cup {m}
    BY <1>2 DEF Sources
  <2> HIDE DEF P
  <2>2. Cardinality(P \cup {m}) = Cardinality(P) + 1
    BY <1>1, FS_AddElement
  <2> QED BY <2>1, <2>2, <1>1, <1>2 DEF One
<1>3. CASE n \notin q[m]
  <2>1. Sources(q, n) = P
    BY <1>3 DEF Sources
  <2> HIDE DEF P
  <2> QED BY <2>1, <1>1, <1>3 DEF One
<1> QED BY <1>2, <1>3

\* What a count should be, with the heap r, the variables v, and the stack s
\* in phase ph.
Due(r, v, s, ph, n) == Cardinality(Sources(r, n)) + One(n \in v) + Owed(s, ph, n)

LEMMA CountsAreDue ==
  CountsTrue <=> \A n \in Nodes : refcnt[n] = Due(refs, roots, stack, phase, n)
BY BorrowedIsOwed DEF CountsTrue, Due, Sources, From, One

LEMMA CountsAreDueNext ==
  CountsTrue' <=> \A n \in Nodes : refcnt'[n] = Due(refs', roots', stack', phase', n)
BY BorrowedIsOwedNext DEF CountsTrue, Due, Sources, From, One

-----------------------------------------------------------------------------
(* The stack                                                               *)

LEMMA StackFacts ==
  ASSUME NEW s \in Seq(FrameSet), s # <<>>
  PROVE  /\ Len(s) \in Nat \ {0} /\ DOMAIN s = 1..Len(s)
         /\ \A i \in 1..Len(s) : s[i] \in FrameSet
BY EmptySeq, LenProperties

LEMMA PushFacts ==
  ASSUME NEW s \in Seq(FrameSet), NEW f \in FrameSet
  PROVE  /\ Append(s, f) \in Seq(FrameSet) /\ Append(s, f) # <<>>
         /\ Len(Append(s, f)) = Len(s) + 1 /\ DOMAIN Append(s, f) = 1..(Len(s) + 1)
         /\ \A i \in 1..Len(s) : Append(s, f)[i] = s[i]
         /\ Append(s, f)[Len(s) + 1] = f
<1>1. Len(s) \in Nat
  BY LenProperties
<1> QED BY <1>1, AppendProperties, LenProperties

LEMMA SetFacts ==
  ASSUME NEW s \in Seq(FrameSet), s # <<>>, NEW f \in FrameSet,
         NEW a, a = [s EXCEPT ![Len(s)] = f]
  PROVE  /\ a \in Seq(FrameSet) /\ a # <<>> /\ Len(a) = Len(s) /\ DOMAIN a = 1..Len(s)
         /\ \A i \in 1..Len(s) : i # Len(s) => a[i] = s[i]
         /\ a[Len(s)] = f
<1>1. Len(s) \in Nat \ {0} /\ Len(s) \in 1..Len(s)
  BY StackFacts
<1>2. /\ a \in Seq(FrameSet) /\ Len(a) = Len(s)
  BY <1>1, ExceptSeq
<1>3. DOMAIN a = 1..Len(s)
  BY <1>2, LenProperties
<1>4. a # <<>>
  BY <1>1, <1>2, EmptySeq
<1>5. DOMAIN s = 1..Len(s)
  BY StackFacts
<1>6. \A i \in 1..Len(s) : i # Len(s) => a[i] = s[i]
  BY <1>5
<1>7. a[Len(s)] = f
  BY <1>1, <1>5
<1> QED BY <1>2, <1>3, <1>4, <1>6, <1>7

LEMMA FrontFacts ==
  ASSUME NEW s \in Seq(FrameSet), s # <<>>
  PROVE  /\ Front(s) \in Seq(FrameSet)
         /\ Len(Front(s)) = Len(s) - 1 /\ DOMAIN Front(s) = 1..(Len(s) - 1)
         /\ \A i \in 1..(Len(s) - 1) : Front(s)[i] = s[i]
         /\ Len(s) > 1 => Front(s) # <<>>
<1>1. Len(s) \in Nat \ {0} /\ \A i \in 1..Len(s) : s[i] \in FrameSet
  BY StackFacts
<1>2. /\ Front(s) \in Seq(FrameSet) /\ Len(Front(s)) = Len(s) - 1
      /\ \A i \in 1..(Len(s) - 1) : Front(s)[i] = s[i]
  <2>1. s[Len(s)] \in FrameSet
    BY <1>1
  <2> QED BY <2>1, SetIsFrontAppend
<1>3. DOMAIN Front(s) = 1..(Len(s) - 1)
  BY <1>2, LenProperties
<1>4. Len(s) > 1 => Front(s) # <<>>
  BY <1>2, EmptySeq
<1> QED BY <1>2, <1>3, <1>4

-----------------------------------------------------------------------------
(* Reachability, and what a count says                                     *)

LEMMA ReachWithin ==
  ASSUME NEW S, NEW T \in SUBSET Nodes, S \subseteq T, Closed(T)
  PROVE  Reach(S) \subseteq T
BY DEF Reach

LEMMA ReachBase ==
  ASSUME NEW S, NEW n \in S, n \in Nodes
  PROVE  n \in Reach(S)
BY DEF Reach

LEMMA ReachStep ==
  ASSUME NEW S, NEW n \in Reach(S), NEW m \in refs[n], m \in Nodes
  PROVE  m \in Reach(S)
BY DEF Reach, Closed

LEMMA ReachNodes == \A S : Reach(S) \subseteq Nodes
BY DEF Reach

\* What is referred to has a count.
Counted ==
  \A n \in Nodes :
    /\ n \in roots => refcnt[n] > 0
    /\ \A m \in Nodes : n \in refs[m] => refcnt[n] > 0
    /\ \A i \in DOMAIN stack :
         \/ n \in stack[i].holds
         \/ stack[i].obj = n /\ stack[i].do \in Keepers
         \/ stack[i].obj = n /\ stack[i].do = "gc" /\ phase = "finalize"
         => refcnt[n] > 0

LEMMA Referenced == TypeOK /\ CountsTrue => Counted
<1> SUFFICES ASSUME TypeOK, CountsTrue, NEW n \in Nodes
             PROVE  /\ n \in roots => refcnt[n] > 0
                    /\ \A m \in Nodes : n \in refs[m] => refcnt[n] > 0
                    /\ \A i \in DOMAIN stack :
                         \/ n \in stack[i].holds
                         \/ stack[i].obj = n /\ stack[i].do \in Keepers
                         \/ stack[i].obj = n /\ stack[i].do = "gc" /\ phase = "finalize"
                         => refcnt[n] > 0
  BY DEF Counted
<1>1. refcnt[n] = Due(refs, roots, stack, phase, n)
  BY CountsAreDue
<1>2. stack \in Seq(FrameSet)
  BY DEF TypeOK
<1>3. Cardinality(Sources(refs, n)) \in Nat /\ Owed(stack, phase, n) \in Nat
  BY <1>2, SourcesFinite, OwedNat
<1>4. n \in roots => refcnt[n] > 0
  BY <1>1, <1>3 DEF Due, One
<1>5. ASSUME NEW m \in Nodes, n \in refs[m] PROVE refcnt[n] > 0
  <2>1. m \in Sources(refs, n)
    BY <1>5 DEF Sources
  <2>2. Cardinality(Sources(refs, n)) > 0
    BY <2>1, <1>3, SourcesFinite, FS_EmptySet
  <2> QED BY <2>2, <1>1, <1>3 DEF Due, One
<1>6. ASSUME NEW i \in DOMAIN stack,
             \/ n \in stack[i].holds
             \/ stack[i].obj = n /\ stack[i].do \in Keepers
             \/ stack[i].obj = n /\ stack[i].do = "gc" /\ phase = "finalize"
      PROVE  refcnt[n] > 0
  <2>1. Weight(stack[i], phase, n) > 0
    BY <1>6 DEF Weight, One
  <2>2. Owed(stack, phase, n) > 0
    BY <2>1, <1>2, OwedPositive
  <2> QED BY <2>2, <1>1, <1>3 DEF Due, One
<1> QED BY <1>4, <1>5, <1>6

LEMMA ReferencedNext == TypeOK' /\ CountsTrue' => Counted'
BY Referenced, PTL

\* A count that the references from inside S make up leaves no other.
Inside(S, n) ==
  /\ From(Nodes, n) \subseteq S
  /\ n \notin roots
  /\ \A i \in DOMAIN stack :
       /\ n \notin stack[i].holds
       /\ stack[i].obj = n => stack[i].do \notin Keepers

LEMMA CountedInside ==
  ASSUME TypeOK, CountsTrue, NEW S \in SUBSET Nodes, NEW n \in Nodes,
         refcnt[n] <= Cardinality(From(S, n))
  PROVE  Inside(S, n)
<1>1. refcnt[n] = Due(refs, roots, stack, phase, n)
  BY CountsAreDue
<1>2. stack \in Seq(FrameSet)
  BY DEF TypeOK
<1>3. Cardinality(Sources(refs, n)) \in Nat /\ Owed(stack, phase, n) \in Nat
  BY <1>2, SourcesFinite, OwedNat
<1>4. Sources(refs, n) = From(Nodes, n) /\ From(S, n) \subseteq From(Nodes, n)
  BY DEF Sources, From
<1>5. /\ IsFiniteSet(From(Nodes, n)) /\ Cardinality(From(S, n)) \in Nat
      /\ Cardinality(From(S, n)) <= Cardinality(From(Nodes, n))
  BY <1>4, SourcesFinite, FS_Subset, FS_CardinalityType
<1>6. Cardinality(From(S, n)) = Cardinality(From(Nodes, n)) /\ n \notin roots /\ Owed(stack, phase, n) = 0
  BY <1>1, <1>3, <1>4, <1>5 DEF Due, One
<1>7. From(S, n) = From(Nodes, n)
  BY <1>4, <1>5, <1>6, FS_Subset
<1>8. From(Nodes, n) \subseteq S
  BY <1>7 DEF From
<1>9. ASSUME NEW i \in DOMAIN stack
      PROVE  /\ n \notin stack[i].holds
             /\ stack[i].obj = n => stack[i].do \notin Keepers
  <2>1. ~(Weight(stack[i], phase, n) > 0)
    BY <1>2, <1>6, OwedPositive
  <2> QED BY <2>1 DEF Weight, One
<1> QED BY <1>6, <1>8, <1>9 DEF Inside

\* The other way round.
LEMMA InsideCounted ==
  ASSUME TypeOK, CountsTrue, NEW S \in SUBSET Nodes, NEW n \in Nodes,
         Inside(S, n), phase # "finalize"
  PROVE  refcnt[n] = Cardinality(From(S, n))
<1>1. refcnt[n] = Due(refs, roots, stack, phase, n)
  BY CountsAreDue
<1>2. Sources(refs, n) = From(S, n)
  BY DEF Inside, Sources, From
<1>3. {i \in DOMAIN stack : n \in stack[i].holds} = {}
      /\ {i \in DOMAIN stack : stack[i].obj = n /\ stack[i].do \in Keepers} = {}
  BY DEF Inside
<1>4. Owed(stack, phase, n) = 0
  <2>1. Owed(stack, phase, n)
          = Cardinality({i \in DOMAIN stack : n \in stack[i].holds})
              + Cardinality({i \in DOMAIN stack : stack[i].obj = n /\ stack[i].do \in Keepers})
              + 0
    BY DEF Owed
  <2>2. Owed(stack, phase, n) = Cardinality({}) + Cardinality({}) + 0
    BY <1>3, <2>1, Zenon
  <2>3. Cardinality({}) = 0
    BY FS_EmptySet
  <2> QED BY <2>2, <2>3
<1> QED BY <1>1, <1>2, <1>4, SourcesFinite DEF Due, Inside, One

\* A count is never less than the references from inside S.
LEMMA CountedAtLeast ==
  ASSUME TypeOK, CountsTrue, NEW S \in SUBSET Nodes, NEW n \in Nodes
  PROVE  Cardinality(From(S, n)) \in Nat /\ refcnt[n] >= Cardinality(From(S, n))
<1>1. refcnt[n] = Due(refs, roots, stack, phase, n)
  BY CountsAreDue
<1>2. Cardinality(Sources(refs, n)) \in Nat /\ Owed(stack, phase, n) \in Nat
  BY SourcesFinite, OwedNat DEF TypeOK
<1>3. From(S, n) \subseteq Sources(refs, n)
  BY DEF Sources, From
<1>4. /\ Cardinality(From(S, n)) \in Nat
      /\ Cardinality(From(S, n)) <= Cardinality(Sources(refs, n))
  BY <1>3, SourcesFinite, FS_Subset, FS_CardinalityType
<1> QED BY <1>1, <1>2, <1>4 DEF Due, One

-----------------------------------------------------------------------------
(* What Python code can see                                                *)

Seen == {n \in Nodes : refcnt[n] > 0}

LEMMA AccessSeen ==
  ASSUME TypeOK, CountsTrue, LifeSound
  PROVE  Access \subseteq Seen /\ \A n \in Seen : n \in Nodes /\ refcnt[n] > 0 /\ life[n] = "live"
<1>1. Counted
  BY Referenced
<1>2. Len(stack) \in DOMAIN stack
  BY StackFacts DEF TypeOK
<1>3. roots \cup Top.holds \subseteq Seen
  <2>1. \A n \in Top.holds : n \in Nodes
    BY <1>2, StackFacts DEF TypeOK, Top, FrameSet
  <2> QED BY <1>1, <1>2, <2>1 DEF Seen, Top, Counted, TypeOK, HeapType
<1>4. Closed(Seen)
  BY <1>1 DEF Closed, Seen, Counted, TypeOK, HeapType
<1>5. Access \subseteq Seen
  BY <1>3, <1>4, ReachWithin DEF Access, Seen
<1>6. ASSUME NEW n \in Seen PROVE n \in Nodes /\ refcnt[n] > 0 /\ life[n] = "live"
  BY DEF Seen, LifeSound, NotLive
<1> QED BY <1>5, <1>6

LEMMA AccessSealed ==
  ASSUME TypeOK, NEW T \in SUBSET Nodes, Sealed(T), InPython
  PROVE  Access \cap T = {}
<1>1. Len(stack) \in DOMAIN stack
  BY StackFacts DEF TypeOK
<1>2. Top.holds \subseteq Nodes
  BY <1>1, StackFacts DEF TypeOK, Top, FrameSet
<1>3. roots \cup Top.holds \subseteq Nodes \ T
  BY <1>1, <1>2 DEF Sealed, Top, InPython, TypeOK, HeapType
<1>4. Closed(Nodes \ T)
  BY DEF Closed, Sealed, From, TypeOK, HeapType
<1> QED BY <1>3, <1>4, ReachWithin DEF Access

-----------------------------------------------------------------------------
(* Python code changes the heap                                            *)

\* What the frames of a stack are like.
LEMMA FrameFacts ==
  ASSUME TypeOK, NEW i \in DOMAIN stack
  PROVE  /\ stack[i] \in FrameSet /\ i \in 1..Len(stack)
         /\ stack[i].obj \in Nodes \cup {None} /\ stack[i].holds \subseteq Nodes
         /\ stack[i].do \in Code => stack[i].obj = None
         /\ stack[i].do \in Deallocs \cup {"gc.clear"} => stack[i].obj \in Nodes
         /\ stack[i].do \in Deallocs \ {"dealloc", "dealloc.clear"} => stack[i].obj \in Objects
         /\ stack[i].do \in (Deallocs \ {"dealloc.callbacks"}) \cup {"gc.clear"} => stack[i].holds = {}
         /\ stack[i].do \in {"dealloc.callbacks", "gc"} => stack[i].holds \subseteq Weakrefs
BY StackFacts DEF TypeOK, FrameSet

\* s is the stack with what the frame on top refers to given up, or with
\* that frame gone, when it was one of Python code or of a tp_clear.
Shrunk(s) ==
  /\ s \in Seq(FrameSet) /\ s # <<>> /\ Len(s) <= Len(stack) /\ s[1].do = "python"
  /\ \A i \in DOMAIN s : i # Len(s) => s[i] = stack[i]
  /\ \A i \in DOMAIN s :
       /\ s[i].holds \subseteq stack[i].holds
       /\ s[i].do = stack[i].do \/ (s[i].do \in Code /\ stack[i].do \in Code)
       /\ s[i].obj = stack[i].obj \/ (stack[i].do = "gc" /\ s[i].obj = None)
  /\ \A i \in DOMAIN stack : i > Len(s) =>
       \/ stack[i].do \in Code
       \/ stack[i].do = "gc.clear" /\ refs[stack[i].obj] = {}

\* The variables that giving up a reference leaves alone.
keptVars == <<hasFin, hasDel, life, list, gcRefs, trash, target, callback, phase, finalized,
              finCalls, cbCalls, cleared, found, leaked, woken>>

Dropped(n, s) ==
  /\ \/ n \in Nodes /\ refcnt[n] > 0 /\ Decref(n, s)
     \/ refcnt' = refcnt /\ stack' = s
  /\ UNCHANGED keptVars
  /\ refs' \in [Nodes -> SUBSET Nodes] /\ \A m \in Nodes : refs'[m] \subseteq refs[m]
  /\ roots' \subseteq roots

LEMMA DroppedFacts ==
  ASSUME IInv, NEW n, NEW s, Shrunk(s), Dropped(n, s)
  PROVE  /\ s \in Seq(FrameSet) /\ Len(s) \in Nat \ {0} /\ DOMAIN s = 1..Len(s)
         /\ Len(stack) \in Nat \ {0} /\ DOMAIN stack = 1..Len(stack) /\ DOMAIN s \subseteq DOMAIN stack
         /\ stack' \in Seq(FrameSet) /\ stack' # <<>> /\ Len(stack') \in Nat \ {0}
         /\ DOMAIN stack' = 1..Len(stack') /\ DOMAIN s \subseteq DOMAIN stack'
         /\ \A i \in DOMAIN s : stack'[i] = s[i]
         /\ \A i \in DOMAIN stack' : i \notin DOMAIN s =>
              /\ i = Len(s) + 1 /\ i = Len(stack') /\ n \in Nodes /\ refcnt[n] = 1 /\ refcnt'[n] = 0
              /\ stack'[i].do = "dealloc" /\ stack'[i].obj = n /\ stack'[i].holds = {}
         /\ refcnt' \in [Nodes -> Nat]
         /\ \A m \in Nodes : m # n => refcnt'[m] = refcnt[m]
         /\ \A m \in Nodes : refcnt'[m] <= refcnt[m]
         /\ n \in Nodes /\ refcnt[n] > 0 /\ refcnt'[n] = 0 => Len(s) + 1 \in DOMAIN stack'
<1>1. /\ s \in Seq(FrameSet) /\ Len(s) \in Nat \ {0} /\ DOMAIN s = 1..Len(s)
      /\ Len(stack) \in Nat \ {0} /\ DOMAIN stack = 1..Len(stack) /\ DOMAIN s \subseteq DOMAIN stack
  BY StackFacts DEF Shrunk, IInv, TypeOK
<1>2. refcnt \in [Nodes -> Nat]
  BY DEF IInv, TypeOK, HeapType
<1> DEFINE f == Frame("dealloc", n, {})
<1>3. n \in Nodes => f \in FrameSet /\ f.do = "dealloc" /\ f.obj = n /\ f.holds = {}
  BY DEF Frame, FrameSet, Deallocs, Dying, Code
<1>4. CASE n \in Nodes /\ refcnt[n] > 0 /\ Decref(n, s) /\ refcnt[n] = 1
  <2>1. stack' = Append(s, f) /\ refcnt' = [refcnt EXCEPT ![n] = refcnt[n] - 1]
    BY <1>4 DEF Decref
  <2> HIDE DEF f
  <2>2. /\ stack' \in Seq(FrameSet) /\ stack' # <<>>
        /\ Len(stack') = Len(s) + 1 /\ DOMAIN stack' = 1..(Len(s) + 1)
        /\ \A i \in 1..Len(s) : stack'[i] = s[i]
        /\ stack'[Len(s) + 1] = f
    BY <2>1, <1>1, <1>3, <1>4, PushFacts
  <2>3. refcnt' \in [Nodes -> Nat] /\ refcnt'[n] = 0 /\ \A m \in Nodes : m # n => refcnt'[m] = refcnt[m]
    BY <2>1, <1>2, <1>4
  <2>4. \A m \in Nodes : refcnt'[m] <= refcnt[m]
    BY <2>3, <1>2
  <2>5. f.do = "dealloc" /\ f.obj = n /\ f.holds = {}
    BY <1>3, <1>4
  <2> QED BY <2>2, <2>3, <2>4, <2>5, <1>1, <1>4
<1>5. CASE n \in Nodes /\ refcnt[n] > 0 /\ Decref(n, s) /\ refcnt[n] # 1
  <2>1. stack' = s /\ refcnt' = [refcnt EXCEPT ![n] = refcnt[n] - 1]
    BY <1>5 DEF Decref
  <2>2. /\ refcnt' \in [Nodes -> Nat] /\ refcnt'[n] # 0 /\ refcnt'[n] <= refcnt[n]
        /\ \A m \in Nodes : m # n => refcnt'[m] = refcnt[m]
    BY <2>1, <1>2, <1>5
  <2> QED BY <2>1, <2>2, <1>1, <1>5 DEF Shrunk
<1>6. CASE refcnt' = refcnt /\ stack' = s
  <2>1. refcnt' \in [Nodes -> Nat] /\ \A m \in Nodes : refcnt'[m] = refcnt[m] /\ refcnt'[m] <= refcnt[m]
    BY <1>6, <1>2
  <2>2. stack' \in Seq(FrameSet) /\ stack' # <<>> /\ Len(stack') \in Nat \ {0} /\ DOMAIN stack' = 1..Len(stack')
        /\ DOMAIN stack' = DOMAIN s
    BY <1>6, <1>1 DEF Shrunk
  <2>3. ~(n \in Nodes /\ refcnt[n] > 0 /\ refcnt'[n] = 0)
    BY <1>6, <1>2
  <2> QED BY <2>1, <2>2, <2>3, <1>6, <1>1
<1> QED BY <1>2, <1>4, <1>5, <1>6 DEF Dropped

LEMMA NotSilent ==
  ASSUME TypeOK, CollectorSound, ~Collector
  PROVE  phase \notin Silent
BY DEF CollectorSound, Collector, Frame

LEMMA NoWalkNext == phase' \notin {"subtract_refs", "move_unreachable"} => WalkSound'
BY DEF WalkSound

\* A reference to n is taken, by a variable or by an object in reach.
LEMMA GainStep ==
  ASSUME IInv, InPython, NEW n \in Nodes, refcnt[n] > 0,
         \A m \in Nodes : refcnt'[m] = IF m = n THEN refcnt[m] + 1 ELSE refcnt[m],
         stack' = stack, cursor' = cursor, leaked' \in BOOLEAN, leaked => leaked',
         UNCHANGED <<hasFin, hasDel, life, list, gcRefs, trash, target, callback, phase, finalized,
                     finCalls, cbCalls, cleared, found, woken>>,
         HeapType', CountsTrue', roots' \subseteq roots \cup {n},
         \A m \in Nodes : refs'[m] = refs[m] \/ (m \in Access /\ refs'[m] \subseteq refs[m] \cup {n}),
         phase = "callbacks" /\ woken = {} => n \notin On("unreachable"),
         phase = "delete" /\ ~leaked' => n \notin found
  PROVE  IInv'
<1> USE DEF IInv
<1>1. phase \notin Silent
  BY NotSilent DEF InPython, Collector
<1>2. life[n] = "live"
  BY DEF LifeSound, NotLive
<1>3. TypeOK'
  BY DEF TypeOK
<1>4. \A m \in Access : m \in Nodes /\ life[m] = "live"
  BY AccessSeen
<1>5. StackSound'
  BY DEF StackSound
<1>6. CollectorSound'
  BY <1>1 DEF CollectorSound, Collectable
<1>7. LifeSound'
  <2>1. NotLive'
    BY <1>2, <1>4 DEF LifeSound, NotLive, TypeOK, HeapType
  <2>2. ZeroLeaves'
    <3>1. \A m \in Nodes : refcnt'[m] = 0 => refcnt[m] = 0
      BY DEF TypeOK, HeapType
    <3> QED BY <3>1 DEF LifeSound, ZeroLeaves
  <2>3. LeavingSound'
    <3>1. \A m \in Nodes : refcnt[m] = 0 => refcnt'[m] = 0
      OBVIOUS
    <3>2. \A i \in DOMAIN stack : stack[i].do \in Dying => stack[i].obj \in Nodes
      BY FrameFacts DEF Deallocs
    <3> QED BY <3>1, <3>2 DEF LifeSound, LeavingSound
  <2> QED BY <2>1, <2>2, <2>3 DEF LifeSound
<1>8. WeakSound'
  BY DEF WeakSound
<1>9. ListSound'
  BY DEF ListSound, On, Collectable
<1>10. WalkSound'
  BY <1>1, NoWalkNext DEF Silent
<1>11. TrashSound'
  <2>1. SUFFICES ASSUME phase = "callbacks", woken = {}
                 PROVE  TrashSound'
    BY <1>1 DEF TrashSound, Silent
  <2>2. Sealed(On("unreachable")) /\ On("unreachable") \subseteq Nodes /\ On("unreachable")' = On("unreachable")
    BY <2>1 DEF TrashSound, On
  <2>3. Access \cap On("unreachable") = {} /\ n \notin On("unreachable")
    BY <2>1, <2>2, AccessSealed
  <2>4. Sealed(On("unreachable"))'
    BY <2>2, <2>3 DEF Sealed, From
  <2> QED BY <2>1, <2>2, <2>4 DEF TrashSound
<1>12. FinalizeSound'
  BY DEF FinalizeSound
<1>13. DeleteSound'
  <2>1. FoundSound'
    BY DEF DeleteSound, FoundSound, Collectable
  <2>2. ClearedSound'
    BY DEF DeleteSound, ClearedSound
  <2>3. FoundSealed'
    <3>1. SUFFICES ASSUME phase = "delete", ~leaked, ~leaked'
                   PROVE  FoundSealed'
      BY DEF FoundSealed
    <3>2. Sealed(found) /\ found \subseteq Nodes
      BY <3>1 DEF DeleteSound, FoundSealed, TypeOK
    <3>3. Access \cap found = {} /\ n \notin found
      BY <3>1, <3>2, AccessSealed
    <3>4. \A m \in found : refs'[m] = refs[m]
      BY <3>2, <3>3
    <3>5. Sealed(found)'
      BY <3>2, <3>3 DEF Sealed, From
    <3>6. ASSUME NEW i \in DOMAIN stack, NEW j \in DOMAIN stack, stack[j].do = "gc"
          PROVE  /\ stack[i].holds \cap found # {} => i > j
                 /\ stack[i].do \in Deallocs /\ stack[i].obj \in found => i > j
                 /\ stack[j].obj # None => refs'[stack[j].obj] = {} \/ Is(j + 1, "gc.clear")
      BY <3>1, <3>4, <3>6 DEF DeleteSound, FoundSealed, CollectorSound
    <3>7. \A m \in found \ Collectable :
            \/ refs'[m] = {}
            \/ \E i \in DOMAIN stack : stack[i].do \in Dying /\ stack[i].obj = m
      BY <3>1, <3>4 DEF DeleteSound, FoundSealed
    <3> QED BY <3>5, <3>6, <3>7 DEF FoundSealed, Collectable, Is
  <2> QED BY <2>1, <2>2, <2>3 DEF DeleteSound
<1>14. CallsSound'
  BY DEF CallsSound
<1> QED BY <1>3, <1>5, <1>6, <1>7, <1>8, <1>9, <1>10, <1>11, <1>12, <1>13, <1>14

\* The same, for the counts.
LEMMA GainDue ==
  ASSUME TypeOK, CountsTrue, NEW S \in SUBSET Nodes, refcnt' = Incref(S),
         \A m \in Nodes : Due(refs', roots', stack', phase', m)
                            = Due(refs, roots, stack, phase, m) + (IF m \in S THEN 1 ELSE 0)
  PROVE  CountsTrue'
<1>1. ASSUME NEW m \in Nodes
      PROVE  refcnt'[m] = Due(refs', roots', stack', phase', m)
  <2>1. refcnt[m] = Due(refs, roots, stack, phase, m) /\ refcnt[m] \in Nat
    BY CountsAreDue DEF TypeOK, HeapType
  <2>2. refcnt'[m] = IF m \in S THEN refcnt[m] + 1 ELSE refcnt[m]
    BY DEF Incref
  <2> QED BY <2>1, <2>2
<1> QED BY <1>1, CountsAreDueNext

LEMMA BindStep ==
  ASSUME IInv, InPython, NEW n \in Access, Bind(n)
  PROVE  IInv'
<1> USE DEF IInv
<1>1. n \in Nodes /\ refcnt[n] > 0
  BY AccessSeen
<1>2. /\ refcnt' = Incref({n}) /\ n \notin roots /\ roots' = roots \cup {n} /\ refs' = refs
      /\ stack' = stack /\ cursor' = cursor /\ leaked' = leaked /\ UNCHANGED keptVars
  BY DEF Bind, PythonStep, listVars, weakVars, callVars, keptVars
<1>3. \A m \in Nodes : refcnt'[m] = IF m = n THEN refcnt[m] + 1 ELSE refcnt[m]
  BY <1>2 DEF Incref
<1>4. CountsTrue'
  <2>1. \A m \in Nodes : Due(refs', roots', stack', phase', m)
                           = Due(refs, roots, stack, phase, m) + (IF m \in {n} THEN 1 ELSE 0)
    BY <1>2, SourcesFinite, OwedNat DEF Due, One, TypeOK, keptVars
  <2> QED BY <2>1, <1>1, <1>2, GainDue
<1>5. HeapType'
  BY <1>1, <1>2 DEF TypeOK, HeapType, Incref, keptVars
<1>6. phase = "callbacks" /\ woken = {} => n \notin On("unreachable")
  BY AccessSealed DEF TrashSound, On
<1>7. phase = "delete" /\ ~leaked' => n \notin found
  BY <1>2, AccessSealed DEF DeleteSound, FoundSealed, TypeOK
<1>8. UNCHANGED <<hasFin, hasDel, life, list, gcRefs, trash, target, callback, phase, finalized,
                  finCalls, cbCalls, cleared, found, woken>> /\ leaked' \in BOOLEAN
  BY <1>2 DEF keptVars, TypeOK
<1> QED BY <1>1, <1>2, <1>3, <1>4, <1>5, <1>6, <1>7, <1>8, GainStep

LEMMA SetAttrStep ==
  ASSUME IInv, InPython, NEW m \in Access \cap Objects, NEW n \in Access, SetAttr(m, n)
  PROVE  IInv'
<1> USE DEF IInv
<1>1. m \in Nodes /\ n \in Nodes /\ refcnt[n] > 0
  BY AccessSeen
<1>2. /\ refcnt' = Incref({n}) /\ n \notin refs[m] /\ refs' = [refs EXCEPT ![m] = refs[m] \cup {n}]
      /\ roots' = roots /\ stack' = stack /\ cursor' = cursor /\ leaked' = leaked /\ UNCHANGED keptVars
  BY DEF SetAttr, PythonStep, listVars, weakVars, callVars, keptVars
<1>3. \A x \in Nodes : refcnt'[x] = IF x = n THEN refcnt[x] + 1 ELSE refcnt[x]
  BY <1>2 DEF Incref
<1>r. m \in Nodes /\ \A y \in Nodes : y # m => refs'[y] = refs[y]
  BY <1>1, <1>2 DEF TypeOK, HeapType
<1>q. refs'[m] = refs[m] \cup {n}
  BY <1>1, <1>2 DEF TypeOK, HeapType
<1>4. CountsTrue'
  <2>1. ASSUME NEW x \in Nodes
        PROVE  Due(refs', roots', stack', phase', x)
                 = Due(refs, roots, stack, phase, x) + (IF x \in {n} THEN 1 ELSE 0)
    <3>1. Cardinality(Sources(refs', x))
            = Cardinality(Sources(refs, x)) - One(x \in refs[m]) + One(x \in refs'[m])
      BY <1>r, SourcesSet DEF One
    <3>2. /\ Cardinality(Sources(refs, x)) \in Nat /\ Owed(stack, phase, x) \in Nat
          /\ phase' = phase
      BY <1>2, SourcesFinite, OwedNat DEF TypeOK, keptVars
    <3>3. Cardinality(Sources(refs', x)) = Cardinality(Sources(refs, x)) + (IF x = n THEN 1 ELSE 0)
      BY <3>1, <3>2, <1>q, <1>2 DEF One
    <3> QED BY <3>2, <3>3, <1>2 DEF Due, One
  <2> QED BY <2>1, <1>1, <1>2, GainDue
<1>5. HeapType'
  <2>1. m \notin Weakrefs
    BY NodeKinds
  <2>2. \A w \in Weakrefs : refs'[w] \subseteq Objects
    BY <2>1, <1>r, NodeKinds DEF TypeOK, HeapType
  <2> QED BY <2>2, <1>1, <1>2 DEF TypeOK, HeapType, Incref, keptVars
<1>6. phase = "callbacks" /\ woken = {} => n \notin On("unreachable")
  BY AccessSealed DEF TrashSound, On
<1>7. phase = "delete" /\ ~leaked' => n \notin found
  BY <1>2, AccessSealed DEF DeleteSound, FoundSealed, TypeOK
<1>8. \A x \in Nodes : refs'[x] = refs[x] \/ (x \in Access /\ refs'[x] \subseteq refs[x] \cup {n})
  BY <1>r, <1>q
<1>9. UNCHANGED <<hasFin, hasDel, life, list, gcRefs, trash, target, callback, phase, finalized,
                  finCalls, cbCalls, cleared, found, woken>> /\ leaked' \in BOOLEAN
  BY <1>2 DEF keptVars, TypeOK
<1> QED BY <1>1, <1>2, <1>3, <1>4, <1>5, <1>6, <1>7, <1>8, <1>9, GainStep

LEMMA DerefStep ==
  ASSUME IInv, InPython, NEW w \in Access \cap Weakrefs, Deref(w)
  PROVE  IInv'
<1> USE DEF IInv
<1> DEFINE n == target[w]
<1>1. n \in Nodes /\ refcnt[n] > 0 /\ n \notin roots
  BY NodeKinds DEF Deref, TypeOK, HeapType
<1>2. /\ refcnt' = Incref({n}) /\ roots' = roots \cup {n} /\ refs' = refs
      /\ stack' = stack /\ cursor' = cursor
      /\ leaked' = (leaked \/ (phase = "delete" /\ n \in found))
      /\ UNCHANGED <<hasFin, hasDel, life, list, gcRefs, trash, target, callback, phase, finalized,
                     finCalls, cbCalls, cleared, found, woken>>
  BY DEF Deref, PythonStep, listVars, weakVars, callVars, Clearing
<1>6. phase = "callbacks" /\ woken = {} => n \notin On("unreachable")
  BY DEF TrashSound
<1> HIDE DEF n
<1>3. \A m \in Nodes : refcnt'[m] = IF m = n THEN refcnt[m] + 1 ELSE refcnt[m]
  BY <1>2 DEF Incref
<1>4. CountsTrue'
  <2>1. \A m \in Nodes : Due(refs', roots', stack', phase', m)
                           = Due(refs, roots, stack, phase, m) + (IF m \in {n} THEN 1 ELSE 0)
    BY <1>1, <1>2, SourcesFinite, OwedNat DEF Due, One, TypeOK
  <2> QED BY <2>1, <1>1, <1>2, GainDue
<1>5. HeapType'
  BY <1>1, <1>2 DEF TypeOK, HeapType, Incref
<1>7. leaked' \in BOOLEAN /\ (leaked => leaked') /\ (phase = "delete" /\ ~leaked' => n \notin found)
  BY <1>2 DEF TypeOK
<1> QED BY <1>1, <1>2, <1>3, <1>4, <1>5, <1>6, <1>7, GainStep

-----------------------------------------------------------------------------
(* Giving up references                                                    *)

LEMMA DropStep ==
  ASSUME IInv, NEW n, NEW s, Shrunk(s), Dropped(n, s), CountsTrue', FinalizeSound',
         phase \notin Silent, Top.do # "dealloc", cursor' \in Nodes \cup {None},
         cursor' = cursor \/ (\A i \in DOMAIN s : s[i].do = "gc" => s[i].obj = None),
         phase = "callbacks" => \A i \in DOMAIN s : s[i].obj = stack[i].obj,
         phase = "callbacks" /\ woken = {} => n \notin On("unreachable")
  PROVE  IInv'
<1> USE DEF IInv
<1>s. /\ s \in Seq(FrameSet) /\ Len(s) \in Nat \ {0} /\ DOMAIN s = 1..Len(s)
      /\ Len(stack) \in Nat \ {0} /\ DOMAIN stack = 1..Len(stack) /\ DOMAIN s \subseteq DOMAIN stack
      /\ stack' \in Seq(FrameSet) /\ stack' # <<>> /\ Len(stack') \in Nat \ {0}
      /\ DOMAIN stack' = 1..Len(stack') /\ DOMAIN s \subseteq DOMAIN stack'
      /\ \A i \in DOMAIN s : stack'[i] = s[i]
      /\ \A i \in DOMAIN stack' : i \notin DOMAIN s =>
           /\ i = Len(s) + 1 /\ i = Len(stack') /\ n \in Nodes /\ refcnt[n] = 1 /\ refcnt'[n] = 0
           /\ stack'[i].do = "dealloc" /\ stack'[i].obj = n /\ stack'[i].holds = {}
      /\ refcnt' \in [Nodes -> Nat]
      /\ \A m \in Nodes : m # n => refcnt'[m] = refcnt[m]
      /\ \A m \in Nodes : refcnt'[m] <= refcnt[m]
      /\ n \in Nodes /\ refcnt[n] > 0 /\ refcnt'[n] = 0 => Len(s) + 1 \in DOMAIN stack'
  BY DroppedFacts
<1>e. /\ refs' \in [Nodes -> SUBSET Nodes] /\ \A m \in Nodes : refs'[m] \subseteq refs[m]
      /\ roots' \subseteq roots /\ life' = life /\ leaked' = leaked
      /\ target' = target /\ callback' = callback
      /\ list' = list /\ gcRefs' = gcRefs /\ trash' = trash /\ hasFin' = hasFin /\ hasDel' = hasDel
      /\ finalized' = finalized /\ phase' = phase /\ cleared' = cleared
      /\ found' = found /\ woken' = woken /\ finCalls' = finCalls /\ cbCalls' = cbCalls
  BY DEF Dropped, keptVars
\* The frames of s and the old ones.
<1>f. \A i \in DOMAIN s :
        /\ i \in DOMAIN stack /\ i \in DOMAIN stack' /\ stack'[i] = s[i]
        /\ i # Len(s) => s[i] = stack[i]
        /\ s[i].holds \subseteq stack[i].holds
        /\ s[i].do = stack[i].do \/ (s[i].do \in Code /\ stack[i].do \in Code)
        /\ s[i].obj = stack[i].obj \/ (stack[i].do = "gc" /\ s[i].obj = None)
  BY <1>s DEF Shrunk
<1>d. \A i \in DOMAIN stack : stack[i].do \in Deallocs \cup {"gc"} => i \in DOMAIN s
  BY <1>s DEF Shrunk, Deallocs, Dying, Bracketed, Code
<1>1. TypeOK'
  <2>1. HeapType'
    BY <1>s, <1>e, NodeKinds DEF TypeOK, HeapType
  <2> QED BY <2>1, <1>s, <1>e DEF TypeOK
<1>2. Counted'
  BY <1>1, ReferencedNext
\* A frame of stack' that takes a tp_dealloc is an old one, or the one for n.
<1>3. \A i \in DOMAIN stack' : stack'[i].do \in Deallocs =>
        \/ /\ i \in DOMAIN s /\ i \in DOMAIN stack
           /\ stack'[i].do = stack[i].do /\ stack'[i].obj = stack[i].obj
           /\ stack'[i].holds \subseteq stack[i].holds
        \/ /\ i = Len(s) + 1 /\ i = Len(stack') /\ i \notin DOMAIN s
           /\ n \in Nodes /\ refcnt[n] = 1 /\ refcnt'[n] = 0
           /\ stack'[i].do = "dealloc" /\ stack'[i].obj = n /\ stack'[i].holds = {}
  BY <1>s, <1>f DEF Deallocs, Dying, Bracketed, Code
<1>4. StackSound'
  <2>1. stack'[1].do = "python"
    BY <1>s DEF Shrunk
  <2>2. ASSUME NEW i \in DOMAIN stack', NEW j \in DOMAIN stack',
               stack'[i].do \in Deallocs, stack'[j].do \in Deallocs, stack'[i].obj = stack'[j].obj
        PROVE  i = j
    <3>1. ASSUME NEW h \in DOMAIN s, stack'[h].do \in Deallocs, stack'[h].obj = n,
                 n \in Nodes, refcnt[n] = 1, refcnt'[n] = 0
          PROVE  FALSE
      <4>1. stack[h].do \in Deallocs /\ stack[h].obj = n
        BY <3>1, <1>3, <1>s
      <4>2. stack[h].do \notin Dying
        BY <3>1, <4>1, <1>f DEF LifeSound, LeavingSound
      <4>3. stack'[h].do \in Keepers
        BY <3>1, <4>1, <4>2, <1>3, <1>s DEF Deallocs, Bracketed, Keepers
      <4> QED BY <4>3, <3>1, <1>2, <1>f DEF Counted
    <3> QED BY <3>1, <2>2, <1>3 DEF StackSound
  <2>3. ASSUME NEW i \in DOMAIN stack', stack'[i].do = "dealloc" PROVE i = Len(stack')
    BY <2>3, <1>3, <1>s DEF StackSound, Deallocs, Dying, Top
  <2>4. \A i \in DOMAIN stack' : stack'[i].do = "dealloc.deleted" => stack'[i].obj \in hasDel'
    BY <1>3, <1>e DEF StackSound, Deallocs, Bracketed
  <2> QED BY <2>1, <2>2, <2>3, <2>4 DEF StackSound
<1>5. CollectorSound'
  <2>1. \A i \in DOMAIN stack' : stack'[i].do \in {"gc", "gc.clear"} =>
          /\ i \in DOMAIN s /\ i \in DOMAIN stack /\ stack[i].do = stack'[i].do
          /\ stack'[i].holds \subseteq stack[i].holds
          /\ stack'[i].obj = stack[i].obj \/ stack'[i].obj = None
    BY <1>s, <1>f DEF Code
  <2>2. \A i \in DOMAIN stack : stack[i].do = "gc" => i \in DOMAIN stack' /\ stack'[i].do = "gc"
    BY <1>d, <1>f DEF Code
  <2>3. /\ \A i, j \in DOMAIN stack' : stack'[i].do = "gc" /\ stack'[j].do = "gc" => i = j
        /\ phase' # "idle" <=> \E i \in DOMAIN stack' : stack'[i].do = "gc"
        /\ phase' \notin Silent
    BY <2>1, <2>2, <1>e DEF CollectorSound
  <2>4. ASSUME NEW i \in DOMAIN stack', stack'[i].do = "gc.clear"
        PROVE  phase' = "delete" /\ i > 1 /\ stack'[i-1].do = "gc" /\ stack'[i-1].obj = stack'[i].obj
    <3>1. phase = "delete" /\ i > 1 /\ stack[i-1].do = "gc" /\ stack[i-1].obj = stack[i].obj
      BY <2>1, <2>4 DEF CollectorSound
    <3>2. i \in DOMAIN s /\ i - 1 \in DOMAIN s /\ i - 1 # Len(s)
      BY <2>1, <2>4, <3>1, <1>s
    <3>3. stack'[i-1] = stack[i-1]
      BY <3>2, <1>f
    <3>4. stack'[i].obj = stack[i].obj
      BY <3>2, <1>f, <2>1, <2>4
    <3> QED BY <3>1, <3>3, <3>4, <1>e
  <2>5. ASSUME NEW i \in DOMAIN stack', stack'[i].do = "gc"
        PROVE  /\ stack'[i].holds # {} => phase' = "callbacks"
               /\ \A w \in stack'[i].holds : list'[w] = "callbacks"
               /\ stack'[i].obj # None => phase' \in {"callbacks", "finalize", "delete"}
               /\ stack'[i].obj # None /\ phase' = "callbacks" => stack'[i].obj \in Weakrefs
               /\ stack'[i].obj # None /\ phase' = "finalize" =>
                    stack'[i].obj = cursor' /\ cursor' \in Collectable'
               /\ stack'[i].obj # None /\ phase' = "delete" => stack'[i].obj \in found'
    <3>1. stack'[i].obj # None => cursor' = cursor
      BY <2>1, <2>5, <1>s
    <3> QED BY <2>1, <2>5, <3>1, <1>e DEF CollectorSound, Collectable
  <2> QED BY <2>3, <2>4, <2>5 DEF CollectorSound
<1>6. LifeSound'
  <2>1. NotLive'
    <3>1. \A m \in Nodes : refcnt[m] = 0 => refcnt'[m] = 0
      BY <1>s DEF TypeOK, HeapType
    <3> QED BY <3>1, <1>e DEF LifeSound, NotLive
  <2>2. ZeroLeaves'
    <3>1. ASSUME NEW m \in Nodes, life[m] = "live", refcnt'[m] = 0
          PROVE  \E i \in DOMAIN stack' : stack'[i].do \in Deallocs /\ stack'[i].obj = m
      <4>1. CASE refcnt[m] = 0
        <5>1. PICK i \in DOMAIN stack : stack[i].do \in Deallocs /\ stack[i].obj = m
          BY <3>1, <4>1 DEF LifeSound, ZeroLeaves
        <5>2. i \in DOMAIN s
          BY <5>1, <1>d
        <5> QED BY <5>1, <5>2, <1>f DEF Deallocs, Dying, Bracketed, Code
      <4>2. CASE refcnt[m] # 0
        <5>1. m = n /\ refcnt[n] > 0
          BY <3>1, <4>2, <1>s DEF TypeOK, HeapType
        <5>2. Len(s) + 1 \in DOMAIN stack' /\ Len(s) + 1 \notin DOMAIN s
          BY <5>1, <3>1, <1>s
        <5> QED BY <5>1, <5>2, <1>s DEF Deallocs, Dying
      <4> QED BY <4>1, <4>2
    <3> QED BY <3>1, <1>e DEF ZeroLeaves
  <2>3. LeavingSound'
    <3>1. n \in Nodes /\ refcnt[n] = 1 => life[n] = "live"
      BY DEF LifeSound, NotLive
    <3>2. \A m \in Nodes : refcnt[m] = 0 => refcnt'[m] = 0
      BY <1>s DEF TypeOK, HeapType
    <3>3. \A i \in DOMAIN stack : stack[i].do \in Dying => stack[i].obj \in Nodes
      BY FrameFacts DEF Deallocs
    <3>4. \A i \in DOMAIN stack' : stack'[i].do \in Deallocs => life'[stack'[i].obj] = "live"
      BY <3>1, <1>3, <1>e DEF LifeSound, LeavingSound
    <3>5. \A i \in DOMAIN stack' : stack'[i].do \in Dying => refcnt'[stack'[i].obj] = 0
      BY <3>2, <3>3, <1>3 DEF LifeSound, LeavingSound, Deallocs
    <3>6. \A i \in DOMAIN stack' : stack'[i].do = "dealloc.clear" =>
            /\ list'[stack'[i].obj] = "none"
            /\ stack'[i].obj \in Weakrefs => target'[stack'[i].obj] = None
      BY <1>3, <1>e DEF LifeSound, LeavingSound, Deallocs, Dying
    <3> QED BY <3>4, <3>5, <3>6 DEF LeavingSound
  <2> QED BY <2>1, <2>2, <2>3 DEF LifeSound
<1>7. WeakSound'
  BY <1>3, <1>e DEF WeakSound, Deallocs, Dying
<1>8. ListSound'
  BY <1>3, <1>e DEF ListSound, On, Collectable
<1>9. WalkSound'
  BY <1>e, NoWalkNext DEF Silent
<1>10. TrashSound'
  <2>1. phase' \notin {"legacy", "weakrefs"}
    BY <1>e DEF Silent
  <2>2. SUFFICES ASSUME phase = "callbacks", woken = {}
                 PROVE  TrashSound'
    BY <2>1, <1>e DEF TrashSound
  <2>3. On("unreachable")' = On("unreachable")
    BY <1>e DEF On
  <2>4. Sealed(On("unreachable"))'
    BY <2>2, <2>3, <1>s, <1>f, <1>e DEF TrashSound, Sealed, From, Code
  <2>5. \A i \in DOMAIN stack' :
            /\ stack'[i].holds \cap On("unreachable") = {}
            /\ stack'[i].do \in Deallocs => stack'[i].obj \notin On("unreachable")
    BY <2>2, <1>s, <1>f, <1>3 DEF TrashSound
  <2>6. \A w \in Weakrefs : target'[w] \notin On("unreachable")
    BY <2>2, <1>e DEF TrashSound
  <2> QED BY <2>1, <2>3, <2>4, <2>5, <2>6 DEF TrashSound
<1>11. DeleteSound'
  <2>1. FoundSound'
    BY <1>3, <1>e DEF DeleteSound, FoundSound, Collectable, Deallocs, Bracketed
  <2>2. ClearedSound'
    BY <1>e DEF DeleteSound, ClearedSound
  <2>3. FoundSealed'
    <3>1. SUFFICES ASSUME phase = "delete", ~leaked
                   PROVE  FoundSealed'
      BY <1>e DEF FoundSealed
    <3>2. Sealed(found)'
      <4>1. Sealed(found) /\ found \subseteq Nodes
        BY <3>1 DEF DeleteSound, FoundSealed, TypeOK
      <4>2. ASSUME NEW m \in found
            PROVE  /\ From(Nodes, m)' \subseteq found
                   /\ m \notin roots'
                   /\ \A i \in DOMAIN stack' : stack'[i].do # "dealloc.callbacks" => m \notin stack'[i].holds
        <5>1. From(Nodes, m)' \subseteq found /\ m \notin roots'
          BY <4>1, <4>2, <1>e DEF Sealed, From
        <5>2. \A i \in DOMAIN stack' : stack'[i].do # "dealloc.callbacks" => m \notin stack'[i].holds
          BY <4>1, <4>2, <1>s, <1>f DEF Sealed, Code
        <5> QED BY <5>1, <5>2
      <4> QED BY <4>2, <1>e DEF Sealed
    <3>3. ASSUME NEW i \in DOMAIN stack', NEW j \in DOMAIN stack', stack'[j].do = "gc"
          PROVE  /\ stack'[i].holds \cap found # {} => i > j
                 /\ stack'[i].do \in Deallocs /\ stack'[i].obj \in found => i > j
                 /\ stack'[j].obj # None => refs'[stack'[j].obj] = {} \/ Is(j + 1, "gc.clear")'
      <4>1. j \in DOMAIN s /\ j \in DOMAIN stack /\ stack[j].do = "gc"
        BY <3>3, <1>s, <1>f DEF Code
      <4>2. /\ stack'[i].holds \cap found # {} => i > j
            /\ stack'[i].do \in Deallocs /\ stack'[i].obj \in found => i > j
        BY <3>1, <4>1, <1>s, <1>f, <1>3 DEF DeleteSound, FoundSealed
      <4>3. ASSUME stack'[j].obj # None
            PROVE  refs'[stack'[j].obj] = {} \/ Is(j + 1, "gc.clear")'
        <5>1. stack'[j].obj = stack[j].obj /\ stack[j].obj \in Nodes
          BY <4>1, <4>3, <1>f, FrameFacts
        <5>2. CASE refs[stack[j].obj] = {}
          BY <5>1, <5>2, <1>e
        <5>3. CASE Is(j + 1, "gc.clear") /\ j + 1 \in DOMAIN s
          BY <5>3, <1>f DEF Is, Code
        <5>4. CASE Is(j + 1, "gc.clear") /\ j + 1 \notin DOMAIN s
          <6>1. j + 1 \in DOMAIN stack /\ j + 1 > Len(s) /\ stack[j + 1].do = "gc.clear"
            BY <5>4, <4>1, <1>s DEF Is
          <6>2. refs[stack[j + 1].obj] = {}
            BY <6>1 DEF Shrunk, Code
          <6>3. stack[j + 1].obj = stack[j].obj
            <7>1. PICK h \in DOMAIN stack : h = j + 1
              BY <6>1
            <7>2. h - 1 = j
              BY <7>1, <4>1, <1>s
            <7>3. stack[h - 1].obj = stack[h].obj
              BY <6>1, <7>1 DEF CollectorSound
            <7> QED BY <7>1, <7>2, <7>3
          <6> QED BY <6>2, <6>3, <5>2
        <5> QED BY <5>2, <5>3, <5>4, <3>1, <4>1, <4>3, <5>1 DEF DeleteSound, FoundSealed
      <4> QED BY <4>2, <4>3
    <3>4. ASSUME NEW m \in found \ Collectable
          PROVE  \/ refs'[m] = {}
                 \/ \E i \in DOMAIN stack' : stack'[i].do \in Dying /\ stack'[i].obj = m
      <4>1. CASE refs[m] = {}
        BY <4>1, <1>e DEF TypeOK
      <4>2. ASSUME NEW i \in DOMAIN stack, stack[i].do \in Dying, stack[i].obj = m
            PROVE  stack'[i].do \in Dying /\ stack'[i].obj = m /\ i \in DOMAIN stack'
        BY <4>2, <1>f, <1>d DEF Deallocs, Dying, Code
      <4> QED BY <4>1, <4>2, <3>1 DEF DeleteSound, FoundSealed
    <3> QED BY <3>1, <3>2, <3>3, <3>4, <1>e DEF FoundSealed, Collectable
  <2> QED BY <2>1, <2>2, <2>3 DEF DeleteSound
<1>12. CallsSound'
  <2>1. ASSUME NEW m \in Objects
        PROVE  /\ finCalls'[m] <= 1
               /\ finCalls'[m] = 1 => m \in finalized' \/ \E i \in DOMAIN stack' :
                    stack'[i].do = "dealloc.finalized" /\ stack'[i].obj = m
    <3>1. \A i \in DOMAIN stack : stack[i].do = "dealloc.finalized" =>
            i \in DOMAIN stack' /\ stack'[i].do = "dealloc.finalized" /\ stack'[i].obj = stack[i].obj
      BY <1>f, <1>d DEF Deallocs, Bracketed, Code
    <3> QED BY <3>1, <1>e DEF CallsSound
  <2>2. ASSUME NEW w \in Weakrefs
        PROVE  /\ cbCalls'[w] <= 1
               /\ life'[w] = "new" => cbCalls'[w] = 0
               /\ target'[w] # None => cbCalls'[w] = 0 /\ list'[w] # "callbacks"
               /\ list'[w] = "callbacks" => target'[w] = None
    BY <1>e DEF CallsSound
  <2>3. ASSUME NEW w \in Weakrefs, list'[w] = "callbacks",
               \A i \in DOMAIN stack' : stack'[i].do = "gc" => stack'[i].obj # w
        PROVE  cbCalls'[w] = 0
    <3>1. phase = "callbacks"
      BY <2>3, <1>e, NodeKinds DEF ListSound
    <3>2. \A i \in DOMAIN stack : stack[i].do = "gc" => stack[i].obj # w
      BY <2>3, <3>1, <1>f, <1>d DEF Code
    <3> QED BY <2>3, <3>2, <1>e DEF CallsSound
  <2>4. ASSUME NEW w \in Weakrefs, NEW i \in DOMAIN stack',
               stack'[i].do = "dealloc.callbacks", w \in stack'[i].holds
        PROVE  /\ cbCalls'[w] = 0 /\ target'[w] = None /\ list'[w] # "callbacks"
               /\ \A j \in DOMAIN stack' :
                    stack'[j].do = "dealloc.callbacks" /\ w \in stack'[j].holds => i = j
    <3>1. \A h \in DOMAIN stack' : stack'[h].do = "dealloc.callbacks" =>
            h \in DOMAIN stack /\ stack[h].do = "dealloc.callbacks" /\ stack'[h].holds \subseteq stack[h].holds
      BY <1>3 DEF Deallocs, Dying
    <3> QED BY <3>1, <2>4, <1>e DEF CallsSound
  <2> QED BY <2>1, <2>2, <2>3, <2>4 DEF CallsSound
<1> QED BY <1>1, <1>4, <1>5, <1>6, <1>7, <1>8, <1>9, <1>10, <1>11, <1>12

LEMMA TopFacts ==
  ASSUME TypeOK
  PROVE  /\ stack \in Seq(FrameSet) /\ stack # <<>> /\ Len(stack) \in Nat \ {0}
         /\ DOMAIN stack = 1..Len(stack) /\ Len(stack) \in DOMAIN stack /\ Top = stack[Len(stack)]
         /\ Top \in FrameSet /\ Top.holds \subseteq Nodes
         /\ Top.do \in Code => Top.obj = None
         /\ Top.do \in Deallocs \cup {"gc.clear"} => Top.obj \in Nodes
         /\ Top.do \in (Deallocs \ {"dealloc.callbacks"}) \cup {"gc.clear"} => Top.holds = {}
<1>1. /\ stack \in Seq(FrameSet) /\ stack # <<>> /\ Len(stack) \in Nat \ {0}
      /\ DOMAIN stack = 1..Len(stack) /\ Len(stack) \in DOMAIN stack /\ Top = stack[Len(stack)]
  BY StackFacts DEF TypeOK, Top
<1> QED BY <1>1, FrameFacts

LEMMA DecrefDue ==
  ASSUME TypeOK, CountsTrue, NEW n \in Nodes, NEW s \in Seq(FrameSet), Decref(n, s),
         \A m \in Nodes : Due(refs', roots', s, phase', m)
                            = Due(refs, roots, stack, phase, m) - (IF m = n THEN 1 ELSE 0)
  PROVE  CountsTrue'
<1> DEFINE f == Frame("dealloc", n, {})
<1>1. f \in FrameSet /\ \A ph, m : Weight(f, ph, m) = 0
  BY DEF Frame, FrameSet, Deallocs, Dying, Code, Weight, One, Keepers
<1>2. stack' = Append(s, f) \/ stack' = s
  BY DEF Decref
<1>3. /\ refcnt' = [refcnt EXCEPT ![n] = refcnt[n] - 1]
      /\ refcnt \in [Nodes -> Nat]
  BY DEF Decref, TypeOK, HeapType
<1> HIDE DEF f
<1>4. ASSUME NEW m \in Nodes
      PROVE  refcnt'[m] = Due(refs', roots', stack', phase', m)
  <2>1. Owed(stack', phase', m) = Owed(s, phase', m)
    <3>1. CASE stack' = Append(s, f)
      <4>1. Owed(stack', phase', m) = Owed(s, phase', m) + Weight(f, phase', m)
        BY <1>1, <3>1, OwedAppend
      <4> QED BY <4>1, <1>1, OwedNat
    <3>2. CASE stack' = s
      BY <3>2
    <3> QED BY <3>1, <3>2, <1>2
  <2>2. Due(refs', roots', stack', phase', m) = Due(refs', roots', s, phase', m)
    BY <2>1 DEF Due
  <2>3. refcnt[m] = Due(refs, roots, stack, phase, m)
    BY CountsAreDue
  <2> QED BY <2>2, <2>3, <1>3
<1> QED BY <1>4, CountsAreDueNext

LEMMA ShrunkSelf == TypeOK /\ StackSound => Shrunk(stack)
BY StackFacts DEF Shrunk, TypeOK, StackSound

\* A node that something outside the trash refers to is no trash.
LEMMA DropsNoTrash ==
  ASSUME IInv, phase = "callbacks", woken = {}, NEW n \in Nodes,
         \/ n \in roots
         \/ \E i \in DOMAIN stack : n \in stack[i].holds
         \/ \E i \in DOMAIN stack : stack[i].do \in Deallocs /\ n \in refs[stack[i].obj]
  PROVE  n \notin On("unreachable")
<1>1. \A i \in DOMAIN stack : stack[i].do \in Deallocs => stack[i].obj \in Nodes
  BY FrameFacts DEF IInv
<1> QED BY <1>1 DEF IInv, TrashSound, Sealed, From

LEMMA UnbindStep ==
  ASSUME IInv, InPython, NEW n \in roots, Unbind(n)
  PROVE  IInv'
<1> USE DEF IInv
<1>1. phase \notin Silent
  BY NotSilent DEF InPython, Collector
<1>2. n \in Nodes /\ refcnt[n] > 0
  BY Referenced DEF Counted, TypeOK, HeapType
<1>3. /\ Decref(n, stack) /\ roots' = roots \ {n} /\ refs' = refs /\ phase' = phase
      /\ cursor' = cursor /\ UNCHANGED keptVars
  BY DEF Unbind, PythonStep, keptVars, listVars, weakVars, callVars
<1>4. CountsTrue'
  <2>1. \A m \in Nodes : Due(refs', roots', stack, phase', m)
                           = Due(refs, roots, stack, phase, m) - (IF m = n THEN 1 ELSE 0)
    BY <1>3, SourcesFinite, OwedNat DEF Due, One, TypeOK
  <2> QED BY <2>1, <1>2, <1>3, DecrefDue DEF TypeOK
<1>5. FinalizeSound'
  BY <1>3 DEF FinalizeSound, keptVars
<1>6. Shrunk(stack)
  BY ShrunkSelf
<1>7. Dropped(n, stack)
  BY <1>2, <1>3 DEF Dropped, TypeOK, HeapType
<1>8. phase = "callbacks" /\ woken = {} => n \notin On("unreachable")
  BY <1>2, DropsNoTrash
<1>9. Top.do # "dealloc" /\ cursor' \in Nodes \cup {None}
  BY <1>3 DEF InPython, TypeOK
<1> QED BY <1>1, <1>2, <1>3, <1>4, <1>5, <1>6, <1>7, <1>8, <1>9, DropStep

LEMMA DelAttrStep ==
  ASSUME IInv, InPython, NEW m \in Access, NEW n \in Access, DelAttr(m, n)
  PROVE  IInv'
<1> USE DEF IInv
<1>1. phase \notin Silent
  BY NotSilent DEF InPython, Collector
<1>2. m \in Nodes /\ n \in Nodes /\ refcnt[n] > 0 /\ n \in refs[m]
  BY AccessSeen DEF DelAttr
<1>3. /\ Decref(n, stack) /\ roots' = roots /\ refs' = [refs EXCEPT ![m] = refs[m] \ {n}] /\ phase' = phase
      /\ cursor' = cursor /\ UNCHANGED keptVars
  BY DEF DelAttr, PythonStep, keptVars, listVars, weakVars, callVars
<1>4. CountsTrue'
  <2>1. ASSUME NEW x \in Nodes
        PROVE  Due(refs', roots', stack, phase', x)
                 = Due(refs, roots, stack, phase, x) - (IF x = n THEN 1 ELSE 0)
    <3>0. m \in Nodes /\ \A y \in Nodes : y # m => refs'[y] = refs[y]
      BY <1>2, <1>3 DEF TypeOK, HeapType
    <3>1. refs'[m] = refs[m] \ {n}
      BY <1>2, <1>3 DEF TypeOK, HeapType
    <3>2. Cardinality(Sources(refs', x))
            = Cardinality(Sources(refs, x)) - One(x \in refs[m]) + One(x \in refs'[m])
      BY <3>0, SourcesSet DEF One
    <3> QED BY <3>1, <3>2, <1>2, <1>3, SourcesFinite, OwedNat DEF Due, One, TypeOK
  <2> QED BY <2>1, <1>2, <1>3, DecrefDue DEF TypeOK
<1>5. FinalizeSound'
  BY <1>3 DEF FinalizeSound, keptVars
<1>6. Shrunk(stack)
  BY ShrunkSelf
<1>7. Dropped(n, stack)
  BY <1>2, <1>3 DEF Dropped, TypeOK, HeapType
<1>8. phase = "callbacks" /\ woken = {} => n \notin On("unreachable")
  BY <1>2, AccessSealed DEF TrashSound, On
<1>9. Top.do # "dealloc" /\ cursor' \in Nodes \cup {None}
  BY <1>3 DEF InPython, TypeOK
<1> QED BY <1>1, <1>2, <1>3, <1>4, <1>5, <1>6, <1>7, <1>8, <1>9, DropStep

LEMMA GotoFacts ==
  ASSUME TypeOK, NEW f \in FrameSet, NEW s, s = Goto(f)
  PROVE  /\ s \in Seq(FrameSet) /\ s # <<>> /\ Len(s) = Len(stack) /\ DOMAIN s = 1..Len(stack)
         /\ \A i \in 1..Len(stack) : i # Len(stack) => s[i] = stack[i]
         /\ s[Len(stack)] = f
         /\ \A ph, m : Owed(s, ph, m) = Owed(stack, ph, m) - Weight(Top, ph, m) + Weight(f, ph, m)
<1>1. /\ stack \in Seq(FrameSet) /\ stack # <<>> /\ Top = stack[Len(stack)]
  BY TopFacts
<1>2. /\ s \in Seq(FrameSet) /\ s # <<>> /\ Len(s) = Len(stack) /\ DOMAIN s = 1..Len(stack)
      /\ \A i \in 1..Len(stack) : i # Len(stack) => s[i] = stack[i]
      /\ s[Len(stack)] = f
  BY <1>1, SetFacts DEF Goto
<1>3. ASSUME NEW ph, NEW m
      PROVE  Owed(s, ph, m) = Owed(stack, ph, m) - Weight(Top, ph, m) + Weight(f, ph, m)
  <2>1. /\ stack \in Seq(FrameSet) /\ stack # <<>> /\ s \in Seq(FrameSet)
        /\ Len(s) = Len(stack)
        /\ \A i \in 1..Len(stack) : i # Len(stack) => s[i] = stack[i]
    BY <1>1, <1>2
  <2>2. Owed(s, ph, m) = Owed(stack, ph, m) - Weight(stack[Len(stack)], ph, m)
                              + Weight(s[Len(stack)], ph, m)
    BY <2>1, OwedSet
  <2> QED BY <2>2, <1>1, <1>2
<1> QED BY <1>2, <1>3

LEMMA GotoShrinks ==
  ASSUME TypeOK, StackSound, Len(stack) > 1, NEW f \in FrameSet, NEW s, s = Goto(f),
         f.holds \subseteq Top.holds,
         f.do = Top.do \/ (f.do \in Code /\ Top.do \in Code),
         f.obj = Top.obj \/ (Top.do = "gc" /\ f.obj = None)
  PROVE  Shrunk(s)
<1>1. /\ s \in Seq(FrameSet) /\ s # <<>> /\ Len(s) = Len(stack) /\ DOMAIN s = 1..Len(stack)
      /\ \A i \in 1..Len(stack) : i # Len(stack) => s[i] = stack[i]
      /\ s[Len(stack)] = f
  BY GotoFacts
<1>2. /\ Len(stack) \in Nat /\ DOMAIN stack = 1..Len(stack) /\ Top = stack[Len(stack)]
      /\ stack[1].do = "python"
  BY TopFacts DEF StackSound
<1>3. ASSUME NEW i \in DOMAIN s
      PROVE  /\ i # Len(s) => s[i] = stack[i]
             /\ s[i].holds \subseteq stack[i].holds
             /\ s[i].do = stack[i].do \/ (s[i].do \in Code /\ stack[i].do \in Code)
             /\ s[i].obj = stack[i].obj \/ (stack[i].do = "gc" /\ s[i].obj = None)
  <2>1. CASE i # Len(stack)
    BY <2>1, <1>1
  <2>2. CASE i = Len(stack)
    BY <2>2, <1>1, <1>2
  <2> QED BY <2>1, <2>2, <1>1
<1>4. s[1].do = "python"
  <2>1. 1 \in 1..Len(stack) /\ 1 # Len(stack)
    BY <1>2
  <2>2. s[1] = stack[1]
    BY <2>1, <1>1
  <2> QED BY <2>2, <1>2
<1>5. Len(s) <= Len(stack) /\ \A i \in DOMAIN stack : ~(i > Len(s))
  <2>1. Len(s) = Len(stack) /\ Len(stack) \in Nat /\ DOMAIN stack = 1..Len(stack)
    BY <1>1, <1>2
  <2> QED BY <2>1
<1> QED BY <1>1, <1>3, <1>4, <1>5 DEF Shrunk

LEMMA PythonReturnStep ==
  ASSUME IInv, PythonReturn
  PROVE  IInv'
<1> USE DEF IInv
<1>1. phase \notin Silent
  BY NotSilent DEF PythonReturn, Collector
<1>t. /\ stack \in Seq(FrameSet) /\ stack # <<>> /\ Len(stack) \in Nat \ {0} /\ Len(stack) > 1
      /\ DOMAIN stack = 1..Len(stack) /\ Len(stack) \in DOMAIN stack /\ Top = stack[Len(stack)]
      /\ Top \in FrameSet /\ Top.holds \subseteq Nodes /\ Top.do \in Code /\ Top.obj = None
      /\ stack[1].do = "python"
  BY TopFacts DEF PythonReturn, Code, StackSound
<1>e. /\ roots' = roots /\ refs' = refs /\ phase' = phase /\ cursor' = cursor /\ UNCHANGED keptVars
  BY DEF PythonReturn, keptVars, listVars, weakVars, callVars, world, fixed, pastVars
<1>2. FinalizeSound'
  BY <1>e DEF FinalizeSound, keptVars
<1>3. Top.do # "dealloc" /\ cursor' \in Nodes \cup {None}
  BY <1>t, <1>e DEF Code, TypeOK
<1>4. refs' \in [Nodes -> SUBSET Nodes]
  BY <1>e DEF TypeOK, HeapType
<1>5. CASE Top.holds = {} /\ stack' = Return /\ refcnt' = refcnt
  <2>1. /\ stack' \in Seq(FrameSet) /\ Len(stack') = Len(stack) - 1
        /\ DOMAIN stack' = 1..(Len(stack) - 1) /\ stack' # <<>>
        /\ \A i \in 1..(Len(stack) - 1) : stack'[i] = stack[i]
    BY <1>5, <1>t, FrontFacts DEF Return
  <2>2. Shrunk(stack')
    BY <2>1, <1>t DEF Shrunk, Code
  <2>3. Dropped(None, stack')
    BY <1>5, <1>e, <1>4 DEF Dropped
  <2>4. CountsTrue'
    <3>1. ASSUME NEW m \in Nodes
          PROVE  refcnt'[m] = Due(refs', roots', stack', phase', m)
      <4>1. Weight(Top, phase, m) = 0
        BY <1>5, <1>t DEF Weight, One, Keepers, Code
      <4>2. Owed(stack', phase, m) = Owed(stack, phase, m) - Weight(Top, phase, m)
        BY <1>5, <1>t, OwedFront DEF Return
      <4>3. Owed(stack', phase, m) = Owed(stack, phase, m)
        BY <4>1, <4>2, <1>t, OwedNat
      <4>4. refcnt[m] = Due(refs, roots, stack, phase, m)
        BY CountsAreDue
      <4> QED BY <4>3, <4>4, <1>5, <1>e DEF Due
    <3> QED BY <3>1, CountsAreDueNext
  <2>5. phase = "callbacks" /\ woken = {} => None \notin On("unreachable")
    BY NoneIsNoNode DEF On
  <2>6. \A i \in DOMAIN stack' : stack'[i].obj = stack[i].obj
    BY <2>1
  <2> QED BY <2>2, <2>3, <2>4, <2>5, <2>6, <1>1, <1>2, <1>3, <1>e, DropStep
<1>6. ASSUME NEW n \in Top.holds, Decref(n, Goto(Frame("leave", None, Top.holds \ {n})))
      PROVE  IInv'
  <2>1. n \in Nodes /\ refcnt[n] > 0
    BY <1>t, Referenced DEF Counted
  <2> DEFINE f == Frame("leave", None, Top.holds \ {n})
  <2>2. f \in FrameSet /\ f.do = "leave" /\ f.obj = None /\ f.holds = Top.holds \ {n}
    BY <1>t DEF Frame, FrameSet, Deallocs, Dying, Bracketed, Code
  <2> HIDE DEF f
  <2>3. PICK s : s = Goto(f)
    OBVIOUS
  <2>4. /\ s \in Seq(FrameSet) /\ s # <<>> /\ Len(s) = Len(stack) /\ DOMAIN s = 1..Len(stack)
        /\ \A i \in 1..Len(stack) : i # Len(stack) => s[i] = stack[i]
        /\ s[Len(stack)] = f
        /\ \A ph, m : Owed(s, ph, m) = Owed(stack, ph, m) - Weight(Top, ph, m) + Weight(f, ph, m)
    BY <2>2, <2>3, GotoFacts
  <2>5. Shrunk(s)
    BY <2>2, <2>3, <1>t, GotoShrinks DEF Code
  <2>6. Decref(n, s)
    BY <1>6, <2>3 DEF f
  <2>7. Dropped(n, s)
    BY <2>1, <2>6, <1>e, <1>4 DEF Dropped
  <2>8. CountsTrue'
    <3>1. ASSUME NEW m \in Nodes
          PROVE  Due(refs', roots', s, phase', m)
                   = Due(refs, roots, stack, phase, m) - (IF m = n THEN 1 ELSE 0)
      <4>1. Owed(s, phase, m) = Owed(stack, phase, m) - Weight(Top, phase, m) + Weight(f, phase, m)
        BY <2>4
      <4>2. Weight(f, phase, m) = Weight(Top, phase, m) - (IF m = n THEN 1 ELSE 0)
        BY <2>2, <1>t, <1>6 DEF Weight, One, Keepers, Code
      <4>3. Owed(stack, phase, m) \in Nat /\ Weight(Top, phase, m) \in Nat
        BY <1>t, OwedNat, WeightNat
      <4>4. Owed(s, phase, m) = Owed(stack, phase, m) - (IF m = n THEN 1 ELSE 0)
        BY <4>1, <4>2, <4>3
      <4> QED BY <4>3, <4>4, <1>e, SourcesFinite DEF Due, One
    <3> QED BY <3>1, <2>1, <2>4, <2>6, DecrefDue
  <2>9. phase = "callbacks" /\ woken = {} => n \notin On("unreachable")
    BY <2>1, <1>t, DropsNoTrash
  <2>10. \A i \in DOMAIN s : s[i].obj = stack[i].obj
    BY <2>2, <2>4, <1>t
  <2> QED BY <2>5, <2>7, <2>8, <2>9, <2>10, <1>1, <1>2, <1>3, <1>e, DropStep
<1> QED BY <1>5, <1>6 DEF PythonReturn

LEMMA ClearOneStep ==
  ASSUME IInv, NEW n \in Nodes, ClearOne(n)
  PROVE  IInv'
<1> USE DEF IInv
<1> DEFINE m == Top.obj
<1>1. phase \notin Silent /\ Top.do # "dealloc"
  BY NotSilent DEF ClearOne, Collector
<1>2. m \in Nodes /\ n \in refs[m] /\ refcnt[n] > 0
  BY TopFacts, Referenced DEF ClearOne, Counted, Deallocs, Dying
<1>3. /\ Decref(n, stack) /\ roots' = roots /\ refs' = [refs EXCEPT ![m] = refs[m] \ {n}] /\ phase' = phase
      /\ cursor' = cursor /\ UNCHANGED keptVars
  BY DEF ClearOne, keptVars, listVars, weakVars, callVars, world, fixed, pastVars
<1> HIDE DEF m
<1>4. CountsTrue'
  <2>1. ASSUME NEW x \in Nodes
        PROVE  Due(refs', roots', stack, phase', x)
                 = Due(refs, roots, stack, phase, x) - (IF x = n THEN 1 ELSE 0)
    <3>1. m \in Nodes /\ \A y \in Nodes : y # m => refs'[y] = refs[y]
      BY <1>2, <1>3 DEF TypeOK, HeapType
    <3>2. refs'[m] = refs[m] \ {n}
      BY <1>2, <1>3 DEF TypeOK, HeapType
    <3>3. Cardinality(Sources(refs', x))
            = Cardinality(Sources(refs, x)) - One(x \in refs[m]) + One(x \in refs'[m])
      BY <3>1, SourcesSet DEF One
    <3> QED BY <3>2, <3>3, <1>2, <1>3, SourcesFinite, OwedNat DEF Due, One, TypeOK
  <2> QED BY <2>1, <1>3, DecrefDue DEF TypeOK
<1>5. FinalizeSound'
  BY <1>3 DEF FinalizeSound, keptVars
<1>6. Shrunk(stack)
  BY ShrunkSelf
<1>7. Dropped(n, stack)
  BY <1>2, <1>3 DEF Dropped, TypeOK, HeapType
<1>8. phase = "callbacks" /\ woken = {} => n \notin On("unreachable")
  <2>1. SUFFICES ASSUME phase = "callbacks" PROVE woken = {} => n \notin On("unreachable")
    OBVIOUS
  <2>2. Top = stack[Len(stack)] /\ Len(stack) \in DOMAIN stack
    BY TopFacts
  <2>3. Top.do = "dealloc.clear"
    BY <2>1, <2>2 DEF ClearOne, CollectorSound
  <2>4. \E i \in DOMAIN stack : stack[i].do \in Deallocs /\ n \in refs[stack[i].obj]
    BY <2>2, <2>3, <1>2 DEF m, Deallocs, Dying
  <2> QED BY <2>1, <2>4, DropsNoTrash
<1>9. cursor' \in Nodes \cup {None}
  BY <1>3 DEF TypeOK
<1> QED BY <1>1, <1>2, <1>3, <1>4, <1>5, <1>6, <1>7, <1>8, <1>9, DropStep

\* The collector at work is never the main code.
LEMMA CollectorFacts ==
  ASSUME TypeOK, StackSound, CollectorSound, Collector
  PROVE  /\ Len(stack) \in Nat \ {0} /\ Len(stack) > 1 /\ DOMAIN stack = 1..Len(stack)
         /\ Len(stack) \in DOMAIN stack /\ Top = stack[Len(stack)] /\ Top \in FrameSet
         /\ Top.do = "gc" /\ Top.obj \in Nodes \cup {None} /\ Top.holds \subseteq Weakrefs
         /\ phase # "idle"
         /\ \A i \in DOMAIN stack : stack[i].do = "gc" => i = Len(stack)
         /\ \A i \in DOMAIN stack : stack[i].do # "gc.clear"
<1>1. /\ Len(stack) \in Nat \ {0} /\ DOMAIN stack = 1..Len(stack)
      /\ Len(stack) \in DOMAIN stack /\ Top = stack[Len(stack)] /\ Top \in FrameSet
  BY TopFacts
<1>2. stack[Len(stack)].do = "gc"
  BY <1>1 DEF Collector
<1>3. /\ Len(stack) # 1
      /\ phase # "idle"
      /\ \A i \in DOMAIN stack : stack[i].do = "gc" => i = Len(stack)
  BY <1>1, <1>2 DEF StackSound, CollectorSound
<1>4. ASSUME NEW i \in DOMAIN stack, stack[i].do = "gc.clear" PROVE FALSE
  <2>1. i > 1 /\ stack[i-1].do = "gc"
    BY <1>4 DEF CollectorSound
  <2>2. i - 1 \in DOMAIN stack
    BY <2>1, <1>1
  <2>3. i - 1 = Len(stack)
    BY <2>1, <2>2, <1>3
  <2> QED BY <2>3, <1>1
<1>5. Top.obj \in Nodes \cup {None} /\ Top.holds \subseteq Weakrefs
  BY <1>1, <1>2, FrameFacts
<1> QED BY <1>1, <1>2, <1>3, <1>4, <1>5

LEMMA CallbackDropStep ==
  ASSUME IInv, CallbackDone, Top.obj \in Top.holds
  PROVE  IInv'
<1> USE DEF IInv
<1> DEFINE w == Top.obj
           f == [Top EXCEPT !.holds = Top.holds \ {w}]
<1>1. Collector /\ phase = "callbacks" /\ w # None
  BY DEF CallbackDone
<1>2. /\ Len(stack) \in Nat \ {0} /\ Len(stack) > 1 /\ DOMAIN stack = 1..Len(stack)
      /\ Len(stack) \in DOMAIN stack /\ Top = stack[Len(stack)] /\ Top \in FrameSet
      /\ Top.do = "gc" /\ w \in Nodes /\ Top.holds \subseteq Weakrefs
  BY <1>1, CollectorFacts
<1>3. f \in FrameSet /\ f.do = "gc" /\ f.obj = w /\ f.holds = Top.holds \ {w}
  BY <1>2 DEF FrameSet, Code, Deallocs, Dying, Bracketed
<1>4. refcnt[w] > 0
  BY <1>2, Referenced DEF Counted
<1>5. PICK s : s = Goto(f)
  OBVIOUS
<1>6. /\ Decref(w, s) /\ roots' = roots /\ refs' = refs /\ phase' = phase
      /\ cursor' = cursor /\ UNCHANGED keptVars
  BY <1>5 DEF CallbackDone, keptVars, listVars, weakVars, callVars, world, fixed, pastVars
<1> HIDE DEF f, w
<1>7. /\ s \in Seq(FrameSet) /\ s # <<>> /\ Len(s) = Len(stack) /\ DOMAIN s = 1..Len(stack)
      /\ \A i \in 1..Len(stack) : i # Len(stack) => s[i] = stack[i]
      /\ s[Len(stack)] = f
      /\ \A ph, m : Owed(s, ph, m) = Owed(stack, ph, m) - Weight(Top, ph, m) + Weight(f, ph, m)
  BY <1>3, <1>5, GotoFacts
<1>8. Shrunk(s)
  BY <1>2, <1>3, <1>5, GotoShrinks DEF w
<1>9. CountsTrue'
  <2>1. ASSUME NEW m \in Nodes
        PROVE  Due(refs', roots', s, phase', m)
                 = Due(refs, roots, stack, phase, m) - (IF m = w THEN 1 ELSE 0)
    <3>1. Weight(f, phase, m) = Weight(Top, phase, m) - (IF m = w THEN 1 ELSE 0)
      BY <1>1, <1>2, <1>3 DEF Weight, One, Keepers, w
    <3>2. Owed(stack, phase, m) \in Nat /\ Weight(Top, phase, m) \in Nat
      BY OwedNat, WeightNat DEF TypeOK
    <3>3. Owed(s, phase, m) = Owed(stack, phase, m) - (IF m = w THEN 1 ELSE 0)
      BY <3>1, <3>2, <1>7
    <3> QED BY <3>2, <3>3, <1>6, SourcesFinite DEF Due, One
  <2> QED BY <2>1, <1>2, <1>6, <1>7, DecrefDue DEF TypeOK
<1>10. FinalizeSound'
  BY <1>6 DEF FinalizeSound, keptVars
<1>11. Dropped(w, s)
  BY <1>2, <1>4, <1>6 DEF Dropped, TypeOK, HeapType
<1>12. woken = {} => w \notin On("unreachable")
  BY <1>1, <1>2, DropsNoTrash DEF w
<1>13. cursor' \in Nodes \cup {None} /\ Top.do # "dealloc" /\ phase \notin Silent
  BY <1>1, <1>2, <1>6 DEF TypeOK, Silent
<1>14. \A i \in DOMAIN s : s[i].obj = stack[i].obj
  BY <1>2, <1>3, <1>7 DEF w
<1> QED BY <1>6, <1>8, <1>9, <1>10, <1>11, <1>12, <1>13, <1>14, DropStep

\* The places of a sequence without duplicates.
LEMMA IndexFacts ==
  ASSUME TypeOK, IsInjective(trash), NEW i \in DOMAIN trash
  PROVE  /\ trash[i] \in Nodes /\ trash[i] # None /\ trash[i] \in Collectable
         /\ IndexOf(trash[i]) = i
<1>1. DOMAIN trash = 1..Len(trash) /\ trash[i] \in Nodes
  BY LenProperties DEF TypeOK
<1>2. trash[i] \in Collectable /\ trash[i] # None
  BY <1>1, NoneIsNoNode DEF Collectable, Range
<1>3. \A j \in DOMAIN trash : trash[j] = trash[i] => j = i
  BY DEF IsInjective
<1>4. IndexOf(trash[i]) = i
  BY <1>2, <1>3 DEF IndexOf
<1> QED BY <1>1, <1>2, <1>4

LEMMA FinalizedOneStep ==
  ASSUME IInv, FinalizedOne
  PROVE  IInv'
<1> USE DEF IInv
<1> DEFINE n == Top.obj
           f == [Top EXCEPT !.obj = None]
<1>1. Collector /\ phase = "finalize" /\ n # None
  BY DEF FinalizedOne
<1>2. /\ Len(stack) \in Nat \ {0} /\ Len(stack) > 1 /\ DOMAIN stack = 1..Len(stack)
      /\ Len(stack) \in DOMAIN stack /\ Top = stack[Len(stack)] /\ Top \in FrameSet
      /\ Top.do = "gc" /\ n \in Nodes /\ Top.holds \subseteq Weakrefs
      /\ \A i \in DOMAIN stack : stack[i].do = "gc" => i = Len(stack)
  BY <1>1, CollectorFacts
<1>3. f \in FrameSet /\ f.do = "gc" /\ f.obj = None /\ f.holds = Top.holds
  BY <1>2 DEF FrameSet, Code, Deallocs, Dying, Bracketed
<1>4. refcnt[n] > 0
  BY <1>1, <1>2, Referenced DEF Counted
<1>5. PICK s : s = Goto(f)
  OBVIOUS
<1>6. /\ Decref(n, s) /\ roots' = roots /\ refs' = refs /\ phase' = phase
      /\ cursor' = (IF refcnt[n] = 1 THEN Before(n) ELSE cursor) /\ UNCHANGED keptVars
  BY <1>5 DEF FinalizedOne, keptVars, listVars, weakVars, callVars, world, fixed, pastVars
<1>c. n = cursor /\ cursor \in Collectable
  BY <1>1, <1>2 DEF CollectorSound
<1> HIDE DEF f, n
<1>7. /\ s \in Seq(FrameSet) /\ s # <<>> /\ Len(s) = Len(stack) /\ DOMAIN s = 1..Len(stack)
      /\ \A i \in 1..Len(stack) : i # Len(stack) => s[i] = stack[i]
      /\ s[Len(stack)] = f
      /\ \A ph, m : Owed(s, ph, m) = Owed(stack, ph, m) - Weight(Top, ph, m) + Weight(f, ph, m)
  BY <1>3, <1>5, GotoFacts
<1>8. Shrunk(s)
  BY <1>2, <1>3, <1>5, GotoShrinks
<1>9. CountsTrue'
  <2>1. ASSUME NEW m \in Nodes
        PROVE  Due(refs', roots', s, phase', m)
                 = Due(refs, roots, stack, phase, m) - (IF m = n THEN 1 ELSE 0)
    <3>1. Weight(f, phase, m) = Weight(Top, phase, m) - (IF m = n THEN 1 ELSE 0)
      BY <1>1, <1>2, <1>3, NoneIsNoNode DEF Weight, One, Keepers, n
    <3>2. Owed(stack, phase, m) \in Nat /\ Weight(Top, phase, m) \in Nat
      BY OwedNat, WeightNat DEF TypeOK
    <3>3. Owed(s, phase, m) = Owed(stack, phase, m) - Weight(Top, phase, m) + Weight(f, phase, m)
      BY <1>7
    <3>4. Owed(s, phase, m) = Owed(stack, phase, m) - (IF m = n THEN 1 ELSE 0)
      BY <3>1, <3>2, <3>3
    <3> QED BY <3>2, <3>4, <1>6, SourcesFinite DEF Due, One
  <2> QED BY <2>1, <1>2, <1>6, <1>7, DecrefDue DEF TypeOK
\* The cursor is where it was, or at the object before.
<1>10. PICK k \in DOMAIN trash : trash[k] = n
  BY <1>c DEF Collectable, Range
<1>11. IsInjective(trash) /\ DOMAIN trash = 1..Len(trash) /\ Len(trash) \in Nat
  BY <1>1, LenProperties DEF ListSound, Ordered, TypeOK
<1>12. IndexOf(n) = k
  BY <1>10, <1>11, IndexFacts
<1>13. \/ cursor' = n \/ cursor' = None
       \/ k - 1 \in DOMAIN trash /\ cursor' = trash[k - 1]
  BY <1>6, <1>c, <1>10, <1>11, <1>12 DEF Before
<1>14. cursor' \in Nodes \cup {None}
  BY <1>13, <1>2, <1>11, IndexFacts
<1>15. FinalizeSound'
  <2>1. ASSUME NEW i \in DOMAIN trash, NEW j \in DOMAIN trash,
               trash[j] = cursor', i <= j, trash[i] \in hasFin
        PROVE  trash[i] \in finalized
    <3>1. i <= k
      <4>1. trash[j] # None /\ IndexOf(trash[j]) = j
        BY <1>11, IndexFacts
      <4>2. CASE cursor' = n
        BY <4>1, <4>2, <2>1, <1>12
      <4>3. CASE k - 1 \in DOMAIN trash /\ cursor' = trash[k - 1]
        <5>1. IndexOf(trash[k - 1]) = k - 1
          BY <4>3, <1>11, IndexFacts
        <5> QED BY <5>1, <4>1, <4>3, <2>1, <1>10, <1>11
      <4> QED BY <4>1, <4>2, <4>3, <1>13, <2>1
    <3> QED BY <3>1, <2>1, <1>1, <1>c, <1>10 DEF FinalizeSound
  <2> QED BY <2>1, <1>6 DEF FinalizeSound, keptVars
<1>16. Dropped(n, s)
  BY <1>2, <1>4, <1>6 DEF Dropped, TypeOK, HeapType
<1>17. Top.do # "dealloc" /\ phase \notin Silent
  BY <1>1, <1>2 DEF Silent
<1>18. \A i \in DOMAIN s : s[i].do = "gc" => s[i].obj = None
  BY <1>2, <1>3, <1>7
<1> QED BY <1>1, <1>6, <1>8, <1>9, <1>14, <1>15, <1>16, <1>17, <1>18, DropStep

LEMMA ClearReturnsStep ==
  ASSUME IInv, ClearReturns
  PROVE  IInv'
<1> USE DEF IInv
<1> DEFINE n == Top.obj
<1>1. Top.do = "gc.clear" /\ refs[n] = {}
  BY DEF ClearReturns
<1>2. /\ stack \in Seq(FrameSet) /\ stack # <<>> /\ Len(stack) \in Nat \ {0}
      /\ DOMAIN stack = 1..Len(stack) /\ Len(stack) \in DOMAIN stack /\ Top = stack[Len(stack)]
      /\ Top \in FrameSet /\ n \in Nodes /\ Top.holds = {}
  BY <1>1, TopFacts
<1>3. /\ phase = "delete" /\ Len(stack) > 1 /\ stack[1].do = "python"
  BY <1>1, <1>2 DEF CollectorSound, StackSound
<1>4. refcnt[n] > 0
  BY <1>1, <1>2, Referenced DEF Counted, Keepers
<1>5. PICK s : s = Return
  OBVIOUS
<1>6. /\ Decref(n, s) /\ roots' = roots /\ refs' = refs /\ phase' = phase
      /\ cursor' = cursor /\ UNCHANGED keptVars
  BY <1>5 DEF ClearReturns, keptVars, listVars, weakVars, callVars, world, fixed, pastVars
<1>7. /\ s \in Seq(FrameSet) /\ Len(s) = Len(stack) - 1
      /\ DOMAIN s = 1..(Len(stack) - 1) /\ s # <<>>
      /\ \A i \in 1..(Len(stack) - 1) : s[i] = stack[i]
  BY <1>2, <1>3, <1>5, FrontFacts DEF Return
<1>8. Shrunk(s)
  <2>1. \A i \in DOMAIN s : s[i] = stack[i]
    BY <1>7
  <2>2. s[1].do = "python"
    BY <1>2, <1>3, <1>7
  <2>3. \A i \in DOMAIN stack : i > Len(s) => i = Len(stack)
    <3>1. Len(s) = Len(stack) - 1 /\ Len(stack) \in Nat /\ DOMAIN stack = 1..Len(stack)
      BY <1>2, <1>7
    <3> QED BY <3>1
  <2>4. Len(s) <= Len(stack)
    BY <1>2, <1>7
  <2> QED BY <2>1, <2>2, <2>3, <2>4, <1>1, <1>2, <1>7 DEF Shrunk
<1>9. CountsTrue'
  <2>1. ASSUME NEW m \in Nodes
        PROVE  Due(refs', roots', s, phase', m)
                 = Due(refs, roots, stack, phase, m) - (IF m = n THEN 1 ELSE 0)
    <3>1. Weight(Top, phase, m) = IF m = n THEN 1 ELSE 0
      BY <1>1, <1>2 DEF Weight, One, Keepers
    <3>2. Owed(s, phase, m) = Owed(stack, phase, m) - Weight(Top, phase, m)
      BY <1>2, <1>5, OwedFront DEF Return
    <3>3. Owed(stack, phase, m) \in Nat
      BY OwedNat DEF TypeOK
    <3> QED BY <3>1, <3>2, <3>3, <1>6, SourcesFinite DEF Due, One
  <2> QED BY <2>1, <1>2, <1>6, <1>7, DecrefDue
<1>10. FinalizeSound'
  BY <1>6 DEF FinalizeSound, keptVars
<1>11. Dropped(n, s)
  BY <1>2, <1>4, <1>6 DEF Dropped, TypeOK, HeapType
<1>12. cursor' \in Nodes \cup {None} /\ Top.do # "dealloc" /\ phase \notin Silent
  BY <1>1, <1>3, <1>6 DEF TypeOK, Silent
<1> QED BY <1>3, <1>6, <1>8, <1>9, <1>10, <1>11, <1>12, DropStep

-----------------------------------------------------------------------------
(* A weak reference is made                                                *)

LEMMA NewWeakrefStep ==
  ASSUME IInv, InPython, NEW w \in Weakrefs, NEW n \in Access \cap Objects,
         NEW held \in SUBSET (Access \cap Objects), NewWeakref(w, n, held)
  PROVE  IInv'
<1> USE DEF IInv
<1>1. phase \notin Silent
  BY NotSilent DEF InPython, Collector
<1>2. /\ w \in Nodes /\ n \in Nodes /\ n \in Objects /\ refcnt[n] > 0 /\ life[n] = "live"
      /\ \A m \in held : m \in Nodes /\ m \in Objects /\ refcnt[m] > 0 /\ m \in Access
      /\ held \in SUBSET Nodes /\ w \notin held /\ w # n
  BY AccessSeen, NodeKinds
<1>3. life[w] = "new" /\ refcnt[w] = 0 /\ refs[w] = {} /\ list[w] = "none"
  BY <1>2 DEF NewWeakref, LifeSound, NotLive
<1>4. /\ w \notin roots /\ \A m \in Nodes : w \notin refs[m]
      /\ \A i \in DOMAIN stack : w \notin stack[i].holds
  BY <1>2, <1>3, Referenced DEF Counted
<1>5. w \notin Collectable
  <2>1. CASE phase \in Ordered
    BY <2>1, <1>3 DEF ListSound, On
  <2>2. CASE phase \notin Ordered
    BY <2>2 DEF ListSound, Collectable, Range
  <2> QED BY <2>1, <2>2
<1>6. /\ life' = [life EXCEPT ![w] = "live"] /\ target' = [target EXCEPT ![w] = n]
      /\ callback' \in SUBSET Weakrefs /\ refs' = [refs EXCEPT ![w] = held]
      /\ roots' = roots \cup {w} /\ refcnt' = [Incref(held) EXCEPT ![w] = 1]
      /\ list' = [list EXCEPT ![w] = "young"] /\ gcRefs' = [gcRefs EXCEPT ![w] = GC_REACHABLE]
      /\ trash' = trash /\ stack' = stack /\ cursor' = cursor /\ leaked' = leaked
      /\ hasFin' = hasFin /\ hasDel' = hasDel /\ phase' = phase /\ finalized' = finalized
      /\ finCalls' = finCalls /\ cbCalls' = cbCalls /\ cleared' = cleared /\ found' = found
      /\ woken' = woken
  BY <1>5 DEF NewWeakref, PythonStep, Track, listVars, weakVars, callVars, TypeOK, HeapType
<1>7. /\ life'[w] = "live" /\ target'[w] = n /\ refs'[w] = held /\ refcnt'[w] = 1
      /\ list'[w] = "young" /\ gcRefs'[w] = GC_REACHABLE
      /\ \A x \in Nodes : x # w =>
           /\ life'[x] = life[x] /\ refs'[x] = refs[x] /\ list'[x] = list[x] /\ gcRefs'[x] = gcRefs[x]
           /\ refcnt'[x] = IF x \in held THEN refcnt[x] + 1 ELSE refcnt[x]
      /\ \A v \in Weakrefs : v # w => target'[v] = target[v]
  BY <1>2, <1>6 DEF TypeOK, HeapType, Incref
<1>8. TypeOK'
  <2>1. HeapType'
    <3>1. /\ refs' \in [Nodes -> SUBSET Nodes] /\ refcnt' \in [Nodes -> Nat]
          /\ roots' \in SUBSET Nodes
      BY <1>2, <1>6 DEF TypeOK, HeapType, Incref
    <3>2. /\ target' \in [Weakrefs -> Objects \cup {None}] /\ callback' \in SUBSET Weakrefs
          /\ life' \in [Nodes -> {"new", "live", "dead"}]
      BY <1>2, <1>6 DEF TypeOK, HeapType
    <3>3. \A v \in Weakrefs : refs'[v] \subseteq Objects
      BY <1>2, <1>7, NodeKinds DEF TypeOK, HeapType
    <3> QED BY <3>1, <3>2, <3>3, <1>6 DEF TypeOK, HeapType
  <2>2. list' \in [Nodes -> Lists] /\ gcRefs' \in [Nodes -> Int]
    BY <1>2, <1>6 DEF TypeOK, Lists, GC_REACHABLE
  <2> QED BY <2>1, <2>2, <1>6 DEF TypeOK
<1>9. CountsTrue'
  <2>1. ASSUME NEW x \in Nodes
        PROVE  refcnt'[x] = Due(refs', roots', stack', phase', x)
    <3>1. Cardinality(Sources(refs', x))
            = Cardinality(Sources(refs, x)) - One(x \in refs[w]) + One(x \in refs'[w])
      <4>1. w \in Nodes /\ \A y \in Nodes : y # w => refs'[y] = refs[y]
        BY <1>2, <1>7
      <4> QED BY <4>1, SourcesSet DEF One
    <3>2. /\ Cardinality(Sources(refs, x)) \in Nat /\ Owed(stack, phase, x) \in Nat
          /\ refcnt[x] = Due(refs, roots, stack, phase, x)
      BY SourcesFinite, OwedNat, CountsAreDue DEF TypeOK
    <3>3. Cardinality(Sources(refs', x)) = Cardinality(Sources(refs, x)) + (IF x \in held THEN 1 ELSE 0)
      BY <3>1, <3>2, <1>3, <1>7 DEF One
    <3>4. CASE x = w
      <4>1. Cardinality(Sources(refs, x)) = 0 /\ Owed(stack, phase, x) = 0
        BY <3>2, <3>4, <1>3 DEF Due, One
      <4> QED BY <4>1, <3>3, <3>4, <1>2, <1>6, <1>7 DEF Due, One
    <3>5. CASE x # w
      BY <3>2, <3>3, <3>5, <1>6, <1>7 DEF Due, One
    <3> QED BY <3>4, <3>5
  <2> QED BY <2>1, CountsAreDueNext
<1>10. StackSound'
  BY <1>6 DEF StackSound
<1>11. \A i \in DOMAIN stack :
         /\ stack[i].do \in Deallocs => stack[i].obj \in Nodes /\ stack[i].obj # w
         /\ stack[i].do \in Dying => stack[i].obj \notin held /\ stack[i].obj # n
  BY <1>2, <1>3, FrameFacts DEF LifeSound, LeavingSound, Deallocs
<1>12. CollectorSound'
  <2>1. \A i \in DOMAIN stack : \A v \in stack[i].holds : v # w /\ v \in Nodes
    BY <1>4, FrameFacts
  <2> QED BY <2>1, <1>1, <1>6, <1>7 DEF CollectorSound, Collectable
<1>13. LifeSound'
  <2>1. NotLive'
    BY <1>2, <1>3, <1>7 DEF LifeSound, NotLive
  <2>2. ZeroLeaves'
    <3>1. ASSUME NEW x \in Nodes, life'[x] = "live", refcnt'[x] = 0
          PROVE  life[x] = "live" /\ refcnt[x] = 0
      <4>1. x # w
        BY <3>1, <1>7
      <4>2. refcnt[x] \in Nat /\ refcnt'[x] = IF x \in held THEN refcnt[x] + 1 ELSE refcnt[x]
        BY <4>1, <1>7 DEF TypeOK, HeapType
      <4> QED BY <3>1, <4>1, <4>2, <1>7
    <3> QED BY <3>1, <1>6 DEF LifeSound, ZeroLeaves
  <2>3. LeavingSound'
    <3>1. \A i \in DOMAIN stack : stack[i].do \in Deallocs => life'[stack[i].obj] = "live"
      BY <1>7, <1>11 DEF LifeSound, LeavingSound
    <3>2. \A i \in DOMAIN stack : stack[i].do \in Dying => refcnt'[stack[i].obj] = 0
      BY <1>7, <1>11 DEF LifeSound, LeavingSound, Deallocs
    <3>3. \A i \in DOMAIN stack : stack[i].do = "dealloc.clear" =>
            /\ list'[stack[i].obj] = "none"
            /\ stack[i].obj \in Weakrefs => target'[stack[i].obj] = None
      BY <1>7, <1>11 DEF LifeSound, LeavingSound, Deallocs, Dying
    <3> QED BY <3>1, <3>2, <3>3, <1>6 DEF LeavingSound
  <2> QED BY <2>1, <2>2, <2>3 DEF LifeSound
<1>14. WeakSound'
  <2>1. ASSUME NEW v \in Weakrefs, target'[v] # None
        PROVE  life'[v] = "live" /\ life'[target'[v]] = "live"
    <3>1. CASE v = w
      BY <3>1, <1>2, <1>7
    <3>2. CASE v # w
      <4>1. target'[v] = target[v] /\ v \in Nodes /\ life'[v] = life[v]
        BY <3>2, <1>7, NodeKinds
      <4>2. target[v] \in Nodes /\ target[v] # w /\ life[v] = "live" /\ life[target[v]] = "live"
        BY <4>1, <2>1, <1>3, NodeKinds DEF WeakSound, TypeOK, HeapType
      <4> QED BY <4>1, <4>2, <1>7
    <3> QED BY <3>1, <3>2
  <2>2. ASSUME NEW i \in DOMAIN stack, NEW v \in Weakrefs,
               \/ stack[i].do \in {"dealloc.callbacks", "dealloc.clear"}
               \/ (stack[i].do = "dealloc.untrack" /\ stack[i].obj \notin hasDel)
        PROVE  target'[v] # stack[i].obj
    BY <2>2, <1>7, <1>11 DEF WeakSound, Dying
  <2> QED BY <2>1, <2>2, <1>6 DEF WeakSound
<1>15. ListSound'
  <2>1. On("unreachable")' = On("unreachable") /\ Collectable' = Collectable
    BY <1>3, <1>6, <1>7 DEF On, Collectable
  <2>2. \A x \in Nodes : list'[x] = "callbacks" => phase' = "callbacks" /\ x \in Weakrefs
    BY <1>6, <1>7 DEF ListSound
  <2>3. \A x \in Nodes :
          \/ gcRefs'[x] \in {GC_UNTRACKED, GC_REACHABLE}
          \/ list'[x] = "unreachable"
          \/ (list'[x] = "young" /\ phase' \in {"subtract_refs", "move_unreachable"})
    BY <1>6, <1>7 DEF ListSound
  <2>4. \A i \in DOMAIN stack : stack[i].do \in Deallocs \ {"dealloc"} =>
          list'[stack[i].obj] \notin {"unreachable", "finalizers"}
    BY <1>7, <1>11 DEF ListSound
  <2> QED BY <2>1, <2>2, <2>3, <2>4, <1>6 DEF ListSound
<1>16. WalkSound'
  BY <1>1, <1>6, NoWalkNext DEF Silent
<1>17. TrashSound'
  <2>1. SUFFICES ASSUME phase = "callbacks", woken = {}
                 PROVE  TrashSound'
    BY <1>1, <1>6 DEF TrashSound, Silent
  <2>2. On("unreachable")' = On("unreachable") /\ w \notin On("unreachable") /\ On("unreachable") \subseteq Nodes
    BY <1>3, <1>7 DEF On
  <2>3. Sealed(On("unreachable"))
    BY <2>1 DEF TrashSound
  <2>4. Access \cap On("unreachable") = {}
    BY <2>2, <2>3, AccessSealed
  <2>5. Sealed(On("unreachable"))'
    BY <2>2, <2>3, <2>4, <1>2, <1>6, <1>7 DEF Sealed, From
  <2> QED BY <2>1, <2>2, <2>4, <2>5, <1>6, <1>7 DEF TrashSound
<1>18. FinalizeSound'
  BY <1>6 DEF FinalizeSound
<1>19. DeleteSound'
  <2>1. FoundSound'
    BY <1>6, <1>7 DEF DeleteSound, FoundSound, Collectable, TypeOK
  <2>2. ClearedSound'
    BY <1>1, <1>3, <1>6, <1>7 DEF DeleteSound, FoundSound, ClearedSound, Silent, TypeOK
  <2>3. FoundSealed'
    <3>1. SUFFICES ASSUME phase = "delete", ~leaked
                   PROVE  FoundSealed'
      BY <1>6 DEF FoundSealed
    <3>2. Sealed(found) /\ found \subseteq Nodes
      BY <3>1 DEF DeleteSound, FoundSealed, TypeOK
    <3>3. Access \cap found = {} /\ w \notin found
      BY <3>2, <1>3, AccessSealed DEF DeleteSound, FoundSound
    <3>4. \A m \in found : refs'[m] = refs[m]
      BY <3>2, <3>3, <1>7
    <3>5. Sealed(found)'
      BY <3>2, <3>3, <1>2, <1>6, <1>7 DEF Sealed, From
    <3>6. ASSUME NEW i \in DOMAIN stack, NEW j \in DOMAIN stack, stack[j].do = "gc"
          PROVE  /\ stack[i].holds \cap found # {} => i > j
                 /\ stack[i].do \in Deallocs /\ stack[i].obj \in found => i > j
                 /\ stack[j].obj # None => refs'[stack[j].obj] = {} \/ Is(j + 1, "gc.clear")
      BY <3>1, <3>4, <3>6 DEF DeleteSound, FoundSealed, CollectorSound
    <3>7. \A m \in found \ Collectable :
            \/ refs'[m] = {}
            \/ \E i \in DOMAIN stack : stack[i].do \in Dying /\ stack[i].obj = m
      BY <3>1, <3>4 DEF DeleteSound, FoundSealed
    <3> QED BY <3>5, <3>6, <3>7, <1>6 DEF FoundSealed, Collectable, Is
  <2> QED BY <2>1, <2>2, <2>3 DEF DeleteSound
<1>20. CallsSound'
  <2>1. \A m \in Objects :
          /\ finCalls'[m] <= 1
          /\ finCalls'[m] = 1 => m \in finalized' \/ \E i \in DOMAIN stack' :
               stack'[i].do = "dealloc.finalized" /\ stack'[i].obj = m
    BY <1>6 DEF CallsSound
  <2>2. ASSUME NEW v \in Weakrefs
        PROVE  /\ cbCalls'[v] <= 1
               /\ life'[v] = "new" => cbCalls'[v] = 0
               /\ target'[v] # None => cbCalls'[v] = 0 /\ list'[v] # "callbacks"
               /\ list'[v] = "callbacks" => target'[v] = None
               /\ list'[v] = "callbacks" /\ (\A i \in DOMAIN stack' : stack'[i].do = "gc" => stack'[i].obj # v)
                    => cbCalls'[v] = 0
               /\ \A i \in DOMAIN stack' : stack'[i].do = "dealloc.callbacks" /\ v \in stack'[i].holds =>
                    /\ cbCalls'[v] = 0 /\ target'[v] = None /\ list'[v] # "callbacks"
                    /\ \A j \in DOMAIN stack' :
                         stack'[j].do = "dealloc.callbacks" /\ v \in stack'[j].holds => i = j
    <3>1. CASE v = w
      BY <3>1, <1>3, <1>4, <1>6, <1>7 DEF CallsSound
    <3>2. CASE v # w
      BY <3>2, <1>6, <1>7, NodeKinds DEF CallsSound
    <3> QED BY <3>1, <3>2
  <2> QED BY <2>1, <2>2 DEF CallsSound
<1> QED BY <1>8, <1>9, <1>10, <1>12, <1>13, <1>14, <1>15, <1>16, <1>17, <1>18, <1>19, <1>20

-----------------------------------------------------------------------------
(* The collector's list                                                    *)

LEMMA RemoveFacts ==
  ASSUME NEW S, NEW s \in Seq(S), NEW k \in DOMAIN s, NEW t, t = RemoveAt(s, k)
  PROVE  /\ t \in Seq(S) /\ DOMAIN t = 1..(Len(s) - 1) /\ Len(s) \in Nat /\ DOMAIN s = 1..Len(s)
         /\ \A i \in 1..(Len(s) - 1) : t[i] = IF i < k THEN s[i] ELSE s[i + 1]
<1>1. Len(s) \in Nat /\ DOMAIN s = 1..Len(s) /\ k \in 1..Len(s) /\ \A i \in 1..Len(s) : s[i] \in S
  BY LenProperties
<1> DEFINE a == SubSeq(s, 1, k - 1)
           b == SubSeq(s, k + 1, Len(s))
<1>2. a \in Seq(S) /\ Len(a) = k - 1 /\ \A i \in 1..(k - 1) : a[i] = s[i]
  <2>1. \A i \in 1..(k - 1) : s[i] \in S
    BY <1>1
  <2> QED BY <1>1, <2>1, SubSeqProperties
<1>3. b \in Seq(S) /\ Len(b) = Len(s) - k /\ \A i \in 1..(Len(s) - k) : b[i] = s[k + i]
  <2>1. \A i \in (k + 1)..Len(s) : s[i] \in S
    BY <1>1
  <2> QED BY <1>1, <2>1, SubSeqProperties
<1> HIDE DEF a, b
<1>5. t = a \o b
  BY DEF RemoveAt, a, b
<1>4. /\ t \in Seq(S) /\ Len(t) = Len(a) + Len(b)
      /\ \A i \in 1..(Len(a) + Len(b)) :
           t[i] = IF i <= Len(a) THEN a[i] ELSE b[i - Len(a)]
  <2>1. a \in Seq(S) /\ b \in Seq(S)
    BY <1>2, <1>3
  <2>2. /\ a \o b \in Seq(S)
        /\ Len(a \o b) = Len(a) + Len(b)
        /\ \A i \in 1..(Len(a) + Len(b)) :
             (a \o b)[i] = IF i <= Len(a) THEN a[i] ELSE b[i - Len(a)]
    BY <2>1, ConcatProperties, Zenon
  <2> QED BY <2>2, <1>5, Zenon
<1>6. t \in Seq(S) /\ DOMAIN t = 1..(Len(s) - 1)
  <2>1. Len(t) = Len(s) - 1
    BY <1>1, <1>2, <1>3, <1>4
  <2> QED BY <2>1, <1>4, LenProperties
<1>7. ASSUME NEW i \in 1..(Len(s) - 1)
      PROVE  t[i] = IF i < k THEN s[i] ELSE s[i + 1]
  <2>1. CASE i < k
    BY <2>1, <1>1, <1>2, <1>3, <1>4
  <2>2. CASE ~(i < k)
    <3>0. i \in 1..(Len(a) + Len(b)) /\ ~(i <= Len(a)) /\ Len(a) = k - 1
      BY <2>2, <1>1, <1>2, <1>3
    <3>1. t[i] = b[i - (k - 1)] /\ i - (k - 1) \in 1..(Len(s) - k)
      BY <2>2, <3>0, <1>1, <1>4
    <3>2. b[i - (k - 1)] = s[k + (i - (k - 1))] /\ k + (i - (k - 1)) = i + 1
      BY <3>1, <1>1, <1>3
    <3> QED BY <2>2, <3>1, <3>2
  <2> QED BY <2>1, <2>2
<1> QED BY <1>1, <1>6, <1>7

\* t is the list with some objects taken out.
Sublist(t) ==
  /\ t \in Seq(Nodes)
  /\ IsInjective(trash) => IsInjective(t)
  /\ \A i, j \in DOMAIN t : i <= j =>
       \E a, b \in DOMAIN trash : a <= b /\ trash[a] = t[i] /\ trash[b] = t[j]

LEMMA SublistSelf == TypeOK => Sublist(trash)
BY DEF Sublist, TypeOK

LEMMA RemoveSublist ==
  ASSUME TypeOK, NEW k \in DOMAIN trash, NEW t, t = RemoveAt(trash, k)
  PROVE  Sublist(t) /\ (IsInjective(trash) => Range(t) = Collectable \ {trash[k]})
<1>1. /\ t \in Seq(Nodes) /\ DOMAIN t = 1..(Len(trash) - 1) /\ Len(trash) \in Nat
      /\ DOMAIN trash = 1..Len(trash)
      /\ \A i \in 1..(Len(trash) - 1) : t[i] = IF i < k THEN trash[i] ELSE trash[i + 1]
  <2>1. trash \in Seq(Nodes)
    BY DEF TypeOK
  <2>2. t \in Seq(Nodes) /\ DOMAIN t = 1..(Len(trash) - 1)
    BY <2>1, RemoveFacts
  <2>3. Len(trash) \in Nat /\ DOMAIN trash = 1..Len(trash)
    BY <2>1, LenProperties
  <2>4. \A i \in 1..(Len(trash) - 1) : t[i] = IF i < k THEN trash[i] ELSE trash[i + 1]
    BY <2>1, RemoveFacts
  <2> QED BY <2>2, <2>3, <2>4
<1> DEFINE From1(i) == IF i < k THEN i ELSE i + 1
<1>2. \A i \in DOMAIN t : From1(i) \in DOMAIN trash /\ t[i] = trash[From1(i)] /\ From1(i) # k
  BY <1>1
<1>3. \A i, j \in DOMAIN t : (i <= j => From1(i) <= From1(j)) /\ (From1(i) = From1(j) => i = j)
  BY <1>1
<1>4. \A a \in DOMAIN trash : a # k => \E i \in DOMAIN t : From1(i) = a
  <2> SUFFICES ASSUME NEW a \in DOMAIN trash, a # k
               PROVE  \E i \in DOMAIN t : From1(i) = a
    OBVIOUS
  <2>1. CASE a < k
    <3>1. a \in DOMAIN t /\ From1(a) = a
      BY <2>1, <1>1
    <3> QED BY <3>1
  <2>2. CASE a > k
    <3>1. a - 1 \in DOMAIN t /\ From1(a - 1) = a
      BY <2>2, <1>1
    <3> QED BY <3>1
  <2> QED BY <2>1, <2>2, <1>1
<1> HIDE DEF From1
<1>5. Sublist(t)
  <2>1. IsInjective(trash) => IsInjective(t)
    BY <1>2, <1>3 DEF IsInjective
  <2>2. ASSUME NEW i \in DOMAIN t, NEW j \in DOMAIN t, i <= j
        PROVE  \E a, b \in DOMAIN trash : a <= b /\ trash[a] = t[i] /\ trash[b] = t[j]
    BY <1>2, <1>3, <2>2
  <2> QED BY <2>1, <2>2, <1>1 DEF Sublist
<1>6. ASSUME IsInjective(trash)
      PROVE  Range(t) = Collectable \ {trash[k]}
  <2>1. \A x \in Range(t) : x \in Collectable /\ x # trash[k]
    BY <1>2, <1>6 DEF Range, Collectable, IsInjective
  <2>2. \A x \in Collectable \ {trash[k]} : x \in Range(t)
    BY <1>2, <1>4 DEF Range, Collectable
  <2> QED BY <2>1, <2>2
<1> QED BY <1>5, <1>6

LEMMA TrackFacts ==
  ASSUME TypeOK, ListSound, NEW n \in Nodes, NEW l \in {"young", "old", "none"}, Track(n, l)
  PROVE  /\ list' \in [Nodes -> Lists] /\ list'[n] = l /\ \A x \in Nodes : x # n => list'[x] = list[x]
         /\ gcRefs' \in [Nodes -> Int] /\ gcRefs'[n] \in {GC_UNTRACKED, GC_REACHABLE}
         /\ \A x \in Nodes : x # n => gcRefs'[x] = gcRefs[x]
         /\ Sublist(trash') /\ Collectable' = Collectable \ {n}
         /\ On("unreachable")' = On("unreachable") \ {n}
<1>1. /\ list' = [list EXCEPT ![n] = l]
      /\ gcRefs' = [gcRefs EXCEPT ![n] = IF l = "none" THEN GC_UNTRACKED ELSE GC_REACHABLE]
      /\ trash' = IF n \in Collectable THEN RemoveAt(trash, IndexOf(n)) ELSE trash
  BY DEF Track
<1>2. /\ list' \in [Nodes -> Lists] /\ list'[n] = l /\ \A x \in Nodes : x # n => list'[x] = list[x]
  BY <1>1 DEF TypeOK, Lists
<1>3. /\ gcRefs' \in [Nodes -> Int] /\ gcRefs'[n] \in {GC_UNTRACKED, GC_REACHABLE}
      /\ \A x \in Nodes : x # n => gcRefs'[x] = gcRefs[x]
  BY <1>1 DEF TypeOK, GC_UNTRACKED, GC_REACHABLE
<1>4. On("unreachable")' = On("unreachable") \ {n}
  BY <1>2 DEF On
<1>5. IsInjective(trash)
  <2>1. CASE phase \in Ordered
    BY <2>1 DEF ListSound
  <2>2. CASE phase \notin Ordered
    BY <2>2 DEF ListSound, IsInjective
  <2> QED BY <2>1, <2>2
<1>6. CASE n \in Collectable
  <2>1. PICK k \in DOMAIN trash : trash[k] = n
    BY <1>6 DEF Collectable, Range
  <2>2. IndexOf(n) = k
    BY <2>1, <1>5, IndexFacts
  <2>3. trash' = RemoveAt(trash, k)
    BY <1>1, <1>6, <2>2
  <2>4. Sublist(trash') /\ Range(trash') = Collectable \ {n}
    BY <1>5, <2>1, <2>3, RemoveSublist
  <2> QED BY <2>4, <1>2, <1>3, <1>4 DEF Collectable
<1>7. CASE n \notin Collectable
  <2>1. trash' = trash
    BY <1>1, <1>7
  <2>2. Sublist(trash') /\ Collectable' = Collectable \ {n}
    BY <1>7, <2>1, SublistSelf DEF Collectable
  <2> QED BY <2>2, <1>2, <1>3, <1>4
<1> QED BY <1>6, <1>7

-----------------------------------------------------------------------------
(* Steps of a tp_dealloc                                                   *)

\* The frame on top becomes g, and f may be called from it.
Pushed(g, f) == stack' = Goto(g) \/ stack' = Append(Goto(g), f)

LEMMA PushedFacts ==
  ASSUME TypeOK, NEW g \in FrameSet, NEW f \in FrameSet, Pushed(g, f)
  PROVE  /\ stack' \in Seq(FrameSet) /\ stack' # <<>> /\ Len(stack') \in Nat \ {0}
         /\ DOMAIN stack' = 1..Len(stack') /\ Len(stack) \in Nat \ {0} /\ DOMAIN stack = 1..Len(stack)
         /\ Top = stack[Len(stack)] /\ Len(stack) \in DOMAIN stack
         /\ \A i \in DOMAIN stack : i \in DOMAIN stack' /\ (i # Len(stack) => stack'[i] = stack[i])
         /\ stack'[Len(stack)] = g
         /\ \A i \in DOMAIN stack' : i \notin DOMAIN stack =>
              i = Len(stack) + 1 /\ i = Len(stack') /\ stack'[i] = f
<1> DEFINE s == Goto(g)
<1>1. /\ s \in Seq(FrameSet) /\ s # <<>> /\ Len(s) = Len(stack) /\ DOMAIN s = 1..Len(stack)
      /\ \A i \in 1..Len(stack) : i # Len(stack) => s[i] = stack[i]
      /\ s[Len(stack)] = g
  BY GotoFacts
<1>2. /\ Len(stack) \in Nat \ {0} /\ DOMAIN stack = 1..Len(stack)
      /\ Top = stack[Len(stack)] /\ Len(stack) \in DOMAIN stack
  BY TopFacts
<1>3. stack' = s \/ stack' = Append(s, f)
  BY DEF Pushed
<1> HIDE DEF s
<1>4. CASE stack' = s
  <2>1. /\ stack' \in Seq(FrameSet) /\ stack' # <<>> /\ Len(stack') = Len(stack)
        /\ DOMAIN stack' = 1..Len(stack)
        /\ \A i \in 1..Len(stack) : i # Len(stack) => stack'[i] = stack[i]
        /\ stack'[Len(stack)] = g
    BY <1>1, <1>4
  <2> QED BY <2>1, <1>2
<1>5. CASE stack' = Append(s, f)
  <2>1. /\ stack' \in Seq(FrameSet) /\ stack' # <<>> /\ Len(stack') = Len(s) + 1
        /\ DOMAIN stack' = 1..(Len(s) + 1)
        /\ \A i \in 1..Len(s) : stack'[i] = s[i]
        /\ stack'[Len(s) + 1] = f
    BY <1>1, <1>5, PushFacts
  <2>2. /\ Len(stack') = Len(stack) + 1 /\ DOMAIN stack' = 1..(Len(stack) + 1)
        /\ stack'[Len(stack) + 1] = f
    BY <1>1, <2>1
  <2>3. \A i \in 1..Len(stack) : stack'[i] = s[i]
    BY <1>1, <2>1
  <2>4. /\ \A i \in 1..Len(stack) : i # Len(stack) => stack'[i] = stack[i]
        /\ stack'[Len(stack)] = g
    BY <2>3, <1>1, <1>2, Zenon
  <2>5. stack' \in Seq(FrameSet) /\ stack' # <<>>
    BY <2>1
  <2>6. /\ Len(stack') \in Nat \ {0} /\ DOMAIN stack' = 1..Len(stack')
        /\ \A i \in DOMAIN stack : i \in DOMAIN stack'
    BY <2>2, <1>2
  <2>7. \A i \in DOMAIN stack' : i \notin DOMAIN stack =>
          i = Len(stack) + 1 /\ i = Len(stack') /\ stack'[i] = f
    BY <2>2, <1>2
  <2>8. \A i \in DOMAIN stack : i # Len(stack) => stack'[i] = stack[i]
    BY <2>4, <1>2, Zenon
  <2> QED BY <2>4, <2>5, <2>6, <2>7, <2>8, <1>2, Zenon
<1> QED BY <1>3, <1>4, <1>5

LEMMA CallOwed ==
  ASSUME TypeOK, NEW g \in FrameSet, NEW f \in FrameSet, stack' = Append(Goto(g), f), NEW ph, NEW m
  PROVE  Owed(stack', ph, m)
           = Owed(stack, ph, m) - Weight(Top, ph, m) + Weight(g, ph, m) + Weight(f, ph, m)
<1>1. PICK s : s = Goto(g)
  OBVIOUS
<1>2. s \in Seq(FrameSet) /\ Owed(s, ph, m) = Owed(stack, ph, m) - Weight(Top, ph, m) + Weight(g, ph, m)
  BY <1>1, GotoFacts
<1>3. Owed(stack', ph, m) = Owed(s, ph, m) + Weight(f, ph, m)
  BY <1>1, <1>2, OwedAppend
<1> QED BY <1>2, <1>3

LEMMA PythonFrame ==
  ASSUME NEW h \in SUBSET Nodes
  PROVE  /\ Python(h) \in FrameSet /\ Python(h).do = "python" /\ Python(h).obj = None
         /\ Python(h).holds = h /\ \A ph, m : Weight(Python(h), ph, m) = One(m \in h)
BY DEF Python, Frame, FrameSet, Deallocs, Dying, Bracketed, Code, Weight, One, Keepers

\* A tp_dealloc in progress goes on with the frame g, and may call Python
\* code that holds h.
Continues(n, g, h) ==
  /\ Top.do \in Deallocs /\ n = Top.obj /\ g \in FrameSet /\ h \in SUBSET Nodes
  /\ g.obj = n /\ g.do \in Deallocs \ {"dealloc"} /\ (g.do = "dealloc.deleted" => n \in hasDel)
  /\ Pushed(g, Python(h))
  /\ UNCHANGED <<phase, cursor, roots, life, hasFin, hasDel, found, cleared>>

\* What it does to the counts and to references, strong and weak, ...
HeapMoves(n, g) ==
  /\ \A m \in Nodes : m = n \/ refcnt'[m] = refcnt[m] \/ (refcnt[m] > 0 /\ refcnt'[m] > 0)
  /\ g.do \in Dying => refcnt'[n] = 0
  /\ \A m \in Nodes : refs'[m] \subseteq refs[m]
  /\ \A w \in Weakrefs : target'[w] = target[w] \/ target'[w] = None
  /\ \/ g.do \in {"dealloc.callbacks", "dealloc.clear"}
     \/ (g.do = "dealloc.untrack" /\ n \notin hasDel)
     => \A w \in Weakrefs : target'[w] # n
  /\ g.do = "dealloc.clear" /\ n \in Weakrefs => target'[n] = None

\* ... to the collector's lists, ...
ListMoves(n, g) ==
  /\ \A m \in Nodes : m # n => list'[m] = list[m] /\ gcRefs'[m] = gcRefs[m]
  /\ \/ list'[n] = list[n] /\ gcRefs'[n] = gcRefs[n]
     \/ list'[n] \in {"young", "old", "none"} /\ gcRefs'[n] \in {GC_UNTRACKED, GC_REACHABLE} /\ Top.do \in Dying
  /\ list'[n] \notin {"unreachable", "finalizers"}
  /\ g.do = "dealloc.clear" => list'[n] = "none"
  /\ Sublist(trash') /\ Collectable' = Collectable \ {n}

\* ... and which calls it makes.
CallMoves(n, g, h) ==
  /\ finalized \subseteq finalized' /\ (leaked => leaked') /\ woken \subseteq woken'
  /\ phase = "callbacks" /\ woken' = {} => (g.holds \cup h) \cap On("unreachable") = {}
  /\ phase = "delete" /\ ~leaked' => h \cap found = {}
  /\ phase = "delete" /\ g.do \in Bracketed => n \notin found
  /\ Top.do = "dealloc.finalized" => n \in finalized'
  /\ \A m \in Objects : finCalls'[m] = finCalls[m]
       \/ (m = n /\ finCalls[m] = 0 /\ finCalls'[m] = 1 /\ g.do = "dealloc.finalized")
  /\ \A w \in Weakrefs : cbCalls'[w] = cbCalls[w]
       \/ (w \in Top.holds /\ w \notin g.holds /\ Top.do = "dealloc.callbacks" /\ cbCalls'[w] = cbCalls[w] + 1)
  /\ g.do = "dealloc.callbacks" => \A w \in g.holds :
       \/ w \in Top.holds /\ Top.do = "dealloc.callbacks"
       \/ target[w] # None /\ target'[w] = None

\* The object of a tp_dealloc past its first step is on no list of trash.
LEMMA LeavingNoTrash ==
  ASSUME TypeOK, ListSound, Top.do \in Deallocs \ {"dealloc"}
  PROVE  /\ Top.obj \in Nodes /\ Top.obj \notin On("unreachable") /\ Top.obj \notin Collectable
         /\ list[Top.obj] \notin {"unreachable", "finalizers"}
<1>1. Len(stack) \in DOMAIN stack /\ Top = stack[Len(stack)] /\ Top.obj \in Nodes
  BY TopFacts
<1>2. list[Top.obj] \notin {"unreachable", "finalizers"}
  BY <1>1 DEF ListSound
<1>3. phase \notin Ordered => Collectable = {}
  BY DEF ListSound, Collectable, Range
<1>4. phase \in Ordered => Collectable = On("unreachable")
  BY DEF ListSound
<1> QED BY <1>1, <1>2, <1>3, <1>4 DEF On

LEMMA DeallocStep ==
  ASSUME IInv, TypeOK', CountsTrue', NEW n, NEW g, NEW h,
         Continues(n, g, h), HeapMoves(n, g), ListMoves(n, g), CallMoves(n, g, h)
  PROVE  IInv'
<1> USE DEF IInv
<1>s. /\ stack' \in Seq(FrameSet) /\ stack' # <<>> /\ Len(stack') \in Nat \ {0}
      /\ DOMAIN stack' = 1..Len(stack') /\ Len(stack) \in Nat \ {0} /\ DOMAIN stack = 1..Len(stack)
      /\ Top = stack[Len(stack)] /\ Len(stack) \in DOMAIN stack
      /\ \A i \in DOMAIN stack : i \in DOMAIN stack' /\ (i # Len(stack) => stack'[i] = stack[i])
      /\ stack'[Len(stack)] = g
      /\ \A i \in DOMAIN stack' : i \notin DOMAIN stack =>
           i = Len(stack) + 1 /\ i = Len(stack') /\ stack'[i] = Python(h)
  BY PythonFrame, PushedFacts DEF Continues
<1>p. Python(h).do = "python" /\ Python(h).obj = None /\ Python(h).holds = h
  BY PythonFrame DEF Continues
<1>t. /\ Top.do \in Deallocs /\ n = Top.obj /\ g \in FrameSet /\ h \in SUBSET Nodes
      /\ g.obj = n /\ g.do \in Deallocs \ {"dealloc"} /\ (g.do = "dealloc.deleted" => n \in hasDel)
      /\ phase' = phase /\ cursor' = cursor /\ roots' = roots /\ life' = life /\ hasFin' = hasFin
      /\ hasDel' = hasDel /\ found' = found /\ cleared' = cleared
  BY DEF Continues
<1>n. n \in Nodes /\ n # None /\ life[n] = "live" /\ (Top.do \in Dying => refcnt[n] = 0)
  BY <1>s, <1>t, FrameFacts, NoneIsNoNode DEF LifeSound, LeavingSound
<1>1. phase \notin Silent
  BY <1>t, NotSilent DEF Collector, Deallocs, Dying, Bracketed
\* The frames of a tp_dealloc, and the others.
<1>2. \A i \in DOMAIN stack' : stack'[i].do \in Deallocs =>
        /\ i \in DOMAIN stack /\ stack[i].do \in Deallocs /\ stack'[i].obj = stack[i].obj
        /\ i # Len(stack) => stack'[i] = stack[i] /\ stack[i].obj # n
        /\ i = Len(stack) => stack'[i] = g
  BY <1>s, <1>p, <1>t DEF StackSound, Deallocs, Dying, Bracketed
<1>3. \A i \in DOMAIN stack : stack[i].do \in Deallocs =>
        i \in DOMAIN stack' /\ stack'[i].do \in Deallocs /\ stack'[i].obj = stack[i].obj
  BY <1>s, <1>t
<1>4. \A i \in DOMAIN stack' : stack'[i].do \in {"gc", "gc.clear"} =>
        i \in DOMAIN stack /\ i < Len(stack) /\ stack'[i] = stack[i]
  BY <1>s, <1>p, <1>t DEF Deallocs, Dying, Bracketed
<1>5. \A i \in DOMAIN stack : stack[i].do \in {"gc", "gc.clear"} =>
        i \in DOMAIN stack' /\ i < Len(stack) /\ stack'[i] = stack[i]
  BY <1>s, <1>t DEF Deallocs, Dying, Bracketed
<1>6. StackSound'
  <2>1. stack'[1].do = "python"
    <3>1. 1 \in DOMAIN stack /\ stack[1].do = "python"
      BY <1>s DEF StackSound
    <3> QED BY <3>1, <1>s, <1>t DEF Deallocs, Dying, Bracketed
  <2>2. \A i, j \in DOMAIN stack' :
          stack'[i].do \in Deallocs /\ stack'[j].do \in Deallocs /\ stack'[i].obj = stack'[j].obj => i = j
    BY <1>2 DEF StackSound
  <2>3. \A i \in DOMAIN stack' : stack'[i].do # "dealloc"
    BY <1>2, <1>t, <1>s DEF StackSound, Deallocs, Dying
  <2>4. \A i \in DOMAIN stack' : stack'[i].do = "dealloc.deleted" => stack'[i].obj \in hasDel'
    BY <1>2, <1>t DEF StackSound, Deallocs, Bracketed
  <2> QED BY <2>1, <2>2, <2>3, <2>4 DEF StackSound
\* What the collector holds or has in hand is not n.
<1>7. \A i \in DOMAIN stack : stack[i].do = "gc" =>
        /\ \A w \in stack[i].holds : w \in Nodes /\ list'[w] = list[w]
        /\ stack[i].obj # None /\ phase = "finalize" => cursor \in Collectable'
  <2>1. SUFFICES ASSUME NEW i \in DOMAIN stack, stack[i].do = "gc"
                 PROVE  /\ \A w \in stack[i].holds : w \in Nodes /\ list'[w] = list[w]
                        /\ stack[i].obj # None /\ phase = "finalize" => cursor \in Collectable'
    OBVIOUS
  <2>2. Counted
    BY Referenced
  <2>3. ASSUME NEW w \in stack[i].holds PROVE w \in Nodes /\ list'[w] = list[w]
    <3>1. w \in Nodes
      BY <2>1, FrameFacts
    <3>2. refcnt[w] > 0
      BY <2>2, <3>1 DEF Counted
    <3>3. CASE w = n
      <4>1. Top.do \notin Dying
        BY <1>n, <3>2, <3>3
      <4> QED BY <4>1, <3>1, <3>3 DEF ListMoves
    <3> QED BY <3>1, <3>3 DEF ListMoves
  <2>4. ASSUME stack[i].obj # None, phase = "finalize" PROVE cursor \in Collectable'
    <3>1. stack[i].obj = cursor /\ cursor \in Collectable
      BY <2>1, <2>4 DEF CollectorSound
    <3>2. stack[i].obj \in Nodes
      BY <2>4, FrameFacts
    <3>3. refcnt[cursor] > 0
      BY <2>1, <2>2, <2>4, <3>1, <3>2 DEF Counted
    <3>4. cursor # n
      <4>1. CASE Top.do \in Dying
        BY <4>1, <3>3, <1>n
      <4>2. CASE Top.do \notin Dying
        <5>1. Top.do \in Deallocs \ {"dealloc"}
          BY <4>2, <1>t DEF Deallocs, Dying
        <5> QED BY <5>1, <3>1, <1>t, LeavingNoTrash
      <4> QED BY <4>1, <4>2
    <3> QED BY <3>1, <3>4 DEF ListMoves
  <2> QED BY <2>3, <2>4
<1>8. CollectorSound'
  <2>1. /\ \A i, j \in DOMAIN stack' : stack'[i].do = "gc" /\ stack'[j].do = "gc" => i = j
        /\ phase' # "idle" <=> \E i \in DOMAIN stack' : stack'[i].do = "gc"
        /\ phase' \notin Silent
    BY <1>1, <1>4, <1>5, <1>t DEF CollectorSound
  <2>2. ASSUME NEW i \in DOMAIN stack', stack'[i].do = "gc.clear"
        PROVE  phase' = "delete" /\ i > 1 /\ stack'[i-1].do = "gc" /\ stack'[i-1].obj = stack'[i].obj
    <3>1. /\ i \in DOMAIN stack /\ i < Len(stack) /\ stack'[i] = stack[i]
          /\ phase = "delete" /\ i > 1 /\ stack[i-1].do = "gc" /\ stack[i-1].obj = stack[i].obj
      BY <2>2, <1>4 DEF CollectorSound
    <3>2. i - 1 \in DOMAIN stack /\ i - 1 # Len(stack)
      BY <3>1, <1>s
    <3> QED BY <3>1, <3>2, <1>s, <1>t
  <2>3. ASSUME NEW i \in DOMAIN stack', stack'[i].do = "gc"
        PROVE  /\ stack'[i].holds # {} => phase' = "callbacks"
               /\ \A w \in stack'[i].holds : list'[w] = "callbacks"
               /\ stack'[i].obj # None => phase' \in {"callbacks", "finalize", "delete"}
               /\ stack'[i].obj # None /\ phase' = "callbacks" => stack'[i].obj \in Weakrefs
               /\ stack'[i].obj # None /\ phase' = "finalize" =>
                    stack'[i].obj = cursor' /\ cursor' \in Collectable'
               /\ stack'[i].obj # None /\ phase' = "delete" => stack'[i].obj \in found'
    BY <2>3, <1>4, <1>7, <1>t DEF CollectorSound
  <2> QED BY <2>1, <2>2, <2>3 DEF CollectorSound
<1>9. LifeSound'
  <2>1. NotLive'
    <3>1. ASSUME NEW m \in Nodes, life[m] # "live"
          PROVE  refcnt'[m] = 0 /\ refs'[m] = {} /\ list'[m] = "none"
      <4>1. m # n /\ refcnt[m] = 0 /\ refs[m] = {} /\ list[m] = "none"
        BY <3>1, <1>n DEF LifeSound, NotLive
      <4> QED BY <4>1 DEF HeapMoves, ListMoves
    <3> QED BY <3>1, <1>t DEF NotLive
  <2>2. ZeroLeaves'
    <3>1. ASSUME NEW m \in Nodes, life[m] = "live", refcnt'[m] = 0
          PROVE  \E i \in DOMAIN stack' : stack'[i].do \in Deallocs /\ stack'[i].obj = m
      <4>1. CASE m = n
        BY <4>1, <1>3, <1>s, <1>t
      <4>2. CASE m # n
        <5>1. refcnt[m] = 0
          BY <3>1, <4>2 DEF HeapMoves
        <5> QED BY <3>1, <5>1, <1>3 DEF LifeSound, ZeroLeaves
      <4> QED BY <4>1, <4>2
    <3> QED BY <3>1, <1>t DEF ZeroLeaves
  <2>3. LeavingSound'
    <3>1. \A i \in DOMAIN stack' : stack'[i].do \in Deallocs => life'[stack'[i].obj] = "live"
      BY <1>2, <1>t DEF LifeSound, LeavingSound
    <3>2. ASSUME NEW i \in DOMAIN stack', stack'[i].do \in Dying
          PROVE  refcnt'[stack'[i].obj] = 0
      <4>1. CASE i = Len(stack)
        BY <4>1, <3>2, <1>s, <1>t DEF HeapMoves
      <4>2. CASE i # Len(stack)
        <5>1. i \in DOMAIN stack /\ stack'[i] = stack[i] /\ stack[i].obj # n
          BY <4>2, <3>2, <1>2 DEF Deallocs
        <5>2. stack[i].obj \in Nodes /\ refcnt[stack[i].obj] = 0
          BY <5>1, <3>2, FrameFacts DEF LifeSound, LeavingSound, Deallocs
        <5> QED BY <5>1, <5>2 DEF HeapMoves
      <4> QED BY <4>1, <4>2
    <3>3. ASSUME NEW i \in DOMAIN stack', stack'[i].do = "dealloc.clear"
          PROVE  /\ list'[stack'[i].obj] = "none"
                 /\ stack'[i].obj \in Weakrefs => target'[stack'[i].obj] = None
      <4>1. CASE i = Len(stack)
        BY <4>1, <3>3, <1>s, <1>t DEF HeapMoves, ListMoves
      <4>2. CASE i # Len(stack)
        <5>1. i \in DOMAIN stack /\ stack'[i] = stack[i] /\ stack[i].obj # n
          BY <4>2, <3>3, <1>2 DEF Deallocs, Dying
        <5>2. stack[i].obj \in Nodes /\ list[stack[i].obj] = "none"
               /\ (stack[i].obj \in Weakrefs => target[stack[i].obj] = None)
          BY <5>1, <3>3, FrameFacts DEF LifeSound, LeavingSound, Deallocs, Dying
        <5> QED BY <5>1, <5>2 DEF HeapMoves, ListMoves
      <4> QED BY <4>1, <4>2
    <3> QED BY <3>1, <3>2, <3>3 DEF LeavingSound
  <2> QED BY <2>1, <2>2, <2>3 DEF LifeSound
<1>10. WeakSound'
  <2>1. \A w \in Weakrefs : target'[w] # None => life'[w] = "live" /\ life'[target'[w]] = "live"
    BY <1>t DEF WeakSound, HeapMoves
  <2>2. ASSUME NEW i \in DOMAIN stack', NEW w \in Weakrefs,
               \/ stack'[i].do \in {"dealloc.callbacks", "dealloc.clear"}
               \/ (stack'[i].do = "dealloc.untrack" /\ stack'[i].obj \notin hasDel)
        PROVE  target'[w] # stack'[i].obj
    <3>1. stack'[i].do \in Deallocs
      BY <2>2 DEF Deallocs, Dying
    <3>2. CASE i = Len(stack)
      BY <2>2, <3>2, <1>s, <1>t DEF HeapMoves
    <3>3. CASE i # Len(stack)
      <4>1. i \in DOMAIN stack /\ stack'[i] = stack[i] /\ stack[i].obj \in Nodes
        BY <3>1, <3>3, <1>2, FrameFacts
      <4>2. target[w] # stack[i].obj
        BY <4>1, <2>2 DEF WeakSound
      <4> QED BY <4>1, <4>2, NoneIsNoNode DEF HeapMoves
    <3> QED BY <3>2, <3>3
  <2> QED BY <2>1, <2>2, <1>t DEF WeakSound
<1>11. On("unreachable")' = On("unreachable") \ {n}
  BY <1>n DEF On, ListMoves
<1>12. ListSound'
  <2>1. phase \in Ordered => Collectable' = On("unreachable")' /\ IsInjective(trash')
    BY <1>11 DEF ListSound, ListMoves, Sublist
  <2>2. phase \notin Ordered => trash' = <<>>
    <3>1. SUFFICES ASSUME phase \notin Ordered PROVE trash' = <<>>
      OBVIOUS
    <3>2. Collectable' = {}
      BY <3>1 DEF ListSound, ListMoves, Collectable, Range
    <3>3. trash' \in Seq(Nodes)
      BY DEF TypeOK
    <3>4. ASSUME trash' # <<>> PROVE FALSE
      <4>1. Len(trash') \in Nat \ {0} /\ DOMAIN trash' = 1..Len(trash')
        BY <3>3, <3>4, EmptySeq, LenProperties
      <4>2. trash'[1] \in Collectable'
        BY <4>1 DEF Collectable, Range
      <4> QED BY <4>2, <3>2
    <3> QED BY <3>4
  <2>3. phase \in {"idle", "update_refs", "subtract_refs", "done"} => On("unreachable")' = {}
    BY <1>11 DEF ListSound
  <2>4. \A m \in Nodes : list'[m] = "callbacks" => phase = "callbacks" /\ m \in Weakrefs
    BY DEF ListSound, ListMoves
  <2>5. \A m \in Nodes :
          \/ gcRefs'[m] \in {GC_UNTRACKED, GC_REACHABLE}
          \/ list'[m] = "unreachable"
          \/ (list'[m] = "young" /\ phase \in {"subtract_refs", "move_unreachable"})
    BY DEF ListSound, ListMoves
  <2>6. ASSUME NEW i \in DOMAIN stack', stack'[i].do \in Deallocs \ {"dealloc"}
        PROVE  list'[stack'[i].obj] \notin {"unreachable", "finalizers"}
    <3>1. CASE i = Len(stack)
      BY <3>1, <1>s, <1>t DEF ListMoves
    <3>2. CASE i # Len(stack)
      <4>1. i \in DOMAIN stack /\ stack'[i] = stack[i] /\ stack[i].obj \in Nodes /\ stack[i].obj # n
        BY <2>6, <3>2, <1>2, FrameFacts
      <4> QED BY <4>1, <2>6 DEF ListSound, ListMoves
    <3> QED BY <3>1, <3>2
  <2>7. phase \in {"weakrefs", "callbacks", "finalize", "delete"} => On("unreachable")' \cap hasDel = {}
    BY <1>11 DEF ListSound
  <2> QED BY <2>1, <2>2, <2>3, <2>4, <2>5, <2>6, <2>7, <1>t DEF ListSound
<1>13. WalkSound'
  BY <1>1, <1>t, NoWalkNext DEF Silent
<1>14. TrashSound'
  <2>1. SUFFICES ASSUME phase = "callbacks", woken' = {}
                 PROVE  TrashSound'
    BY <1>1, <1>t DEF TrashSound, Silent
  <2>2. /\ woken = {} /\ Sealed(On("unreachable")) /\ n \notin On("unreachable")
        /\ \A i \in DOMAIN stack :
            /\ stack[i].holds \cap On("unreachable") = {}
            /\ stack[i].do \in Deallocs => stack[i].obj \notin On("unreachable")
        /\ \A w \in Weakrefs : target[w] \notin On("unreachable")
    BY <2>1, <1>s, <1>t DEF TrashSound, CallMoves
  <2>3. On("unreachable")' = On("unreachable") /\ (g.holds \cup h) \cap On("unreachable") = {}
    BY <2>1, <2>2, <1>11 DEF CallMoves
  <2>4. \A i \in DOMAIN stack' : stack'[i].holds \cap On("unreachable") = {}
    BY <2>2, <2>3, <1>s, <1>p
  <2>5. Sealed(On("unreachable"))'
    <3>1. ASSUME NEW m \in On("unreachable")
          PROVE  From(Nodes, m)' \subseteq On("unreachable") /\ m \notin roots'
      BY <2>2, <3>1, <1>t DEF Sealed, From, HeapMoves
    <3> QED BY <3>1, <2>3, <2>4 DEF Sealed
  <2>6. \A w \in Weakrefs : target'[w] \notin On("unreachable")
    BY <2>2, NoneIsNoNode DEF HeapMoves, On
  <2> QED BY <2>1, <2>2, <2>3, <2>4, <2>5, <2>6, <1>2, <1>t DEF TrashSound
<1>15. FinalizeSound'
  <2>1. ASSUME phase = "finalize", NEW i \in DOMAIN trash', NEW j \in DOMAIN trash',
               trash'[j] = cursor, i <= j, trash'[i] \in hasFin
        PROVE  trash'[i] \in finalized'
    <3>1. PICK a, b \in DOMAIN trash : a <= b /\ trash[a] = trash'[i] /\ trash[b] = trash'[j]
      BY <2>1 DEF ListMoves, Sublist
    <3> QED BY <3>1, <2>1 DEF FinalizeSound, CallMoves
  <2> QED BY <2>1, <1>t DEF FinalizeSound, CallMoves
<1>16. DeleteSound'
  <2>1. FoundSound'
    <3>1. phase = "delete" => Collectable' \subseteq found
      BY DEF DeleteSound, FoundSound, ListMoves
    <3>2. phase = "delete" =>
            \A i \in DOMAIN stack' : stack'[i].do \in Bracketed => stack'[i].obj \notin found
      BY <1>2, <1>t DEF DeleteSound, FoundSound, CallMoves, Deallocs
    <3> QED BY <3>1, <3>2, <1>t DEF DeleteSound, FoundSound
  <2>2. ClearedSound'
    BY <1>1, <1>t DEF DeleteSound, ClearedSound, CallMoves, Silent
  <2>3. FoundSealed'
    <3>1. SUFFICES ASSUME phase = "delete", ~leaked'
                   PROVE  FoundSealed'
      BY <1>t DEF FoundSealed
    <3>2. ~leaked /\ h \cap found = {} /\ Sealed(found) /\ found \subseteq Nodes
      BY <3>1 DEF CallMoves, DeleteSound, FoundSealed, TypeOK
    <3>3. Sealed(found)'
      <4>1. ASSUME NEW m \in found
            PROVE  From(Nodes, m)' \subseteq found /\ m \notin roots'
        BY <3>2, <4>1, <1>t DEF Sealed, From, HeapMoves
      <4>2. g.do # "dealloc.callbacks" => g.holds = {}
        BY <1>t DEF FrameSet
      <4>3. ASSUME NEW m \in found, NEW i \in DOMAIN stack', stack'[i].do # "dealloc.callbacks"
            PROVE  m \notin stack'[i].holds
        BY <3>2, <4>2, <4>3, <1>s, <1>p DEF Sealed
      <4> QED BY <4>1, <4>3, <1>t DEF Sealed
    <3>4. ASSUME NEW i \in DOMAIN stack', NEW j \in DOMAIN stack', stack'[j].do = "gc"
          PROVE  /\ stack'[i].holds \cap found # {} => i > j
                 /\ stack'[i].do \in Deallocs /\ stack'[i].obj \in found => i > j
                 /\ stack'[j].obj # None => refs'[stack'[j].obj] = {} \/ Is(j + 1, "gc.clear")'
      <4>1. j \in DOMAIN stack /\ j < Len(stack) /\ stack'[j] = stack[j]
        BY <3>4, <1>4
      <4>2. /\ stack'[i].holds \cap found # {} => i > j
            /\ stack'[i].do \in Deallocs /\ stack'[i].obj \in found => i > j
        <5>1. CASE i \in DOMAIN stack /\ i # Len(stack)
          BY <5>1, <3>1, <3>2, <3>4, <4>1, <1>s DEF DeleteSound, FoundSealed
        <5>2. CASE i = Len(stack) \/ i \notin DOMAIN stack
          BY <5>2, <4>1, <1>s
        <5> QED BY <5>1, <5>2
      <4>3. ASSUME stack'[j].obj # None
            PROVE  refs'[stack'[j].obj] = {} \/ Is(j + 1, "gc.clear")'
        <5>1. stack[j].obj \in Nodes
          BY <4>1, <4>3, FrameFacts
        <5>2. refs[stack[j].obj] = {} \/ Is(j + 1, "gc.clear")
          BY <3>1, <3>2, <3>4, <4>1, <4>3 DEF DeleteSound, FoundSealed
        <5>3. CASE refs[stack[j].obj] = {}
          BY <5>1, <5>3, <4>1 DEF HeapMoves
        <5>4. CASE Is(j + 1, "gc.clear")
          BY <5>4, <1>5 DEF Is
        <5> QED BY <5>2, <5>3, <5>4
      <4> QED BY <4>2, <4>3
    <3>5. ASSUME NEW m \in found \ Collectable'
          PROVE  \/ refs'[m] = {}
                 \/ \E i \in DOMAIN stack' : stack'[i].do \in Dying /\ stack'[i].obj = m
      <4>1. CASE m = n
        <5>1. g.do \in Dying
          BY <3>1, <4>1, <1>t DEF CallMoves, Deallocs
        <5> QED BY <5>1, <4>1, <1>s, <1>t
      <4>2. CASE m # n
        <5>1. m \in found \ Collectable /\ m \in Nodes
          BY <4>2, <3>2 DEF ListMoves
        <5>2. \/ refs[m] = {}
              \/ \E i \in DOMAIN stack : stack[i].do \in Dying /\ stack[i].obj = m
          BY <3>1, <3>2, <5>1 DEF DeleteSound, FoundSealed
        <5>3. CASE refs[m] = {}
          BY <5>1, <5>3 DEF HeapMoves
        <5>4. ASSUME NEW i \in DOMAIN stack, stack[i].do \in Dying, stack[i].obj = m
              PROVE  i \in DOMAIN stack' /\ stack'[i] = stack[i]
          BY <5>4, <4>2, <1>s, <1>t
        <5> QED BY <5>2, <5>3, <5>4
      <4> QED BY <4>1, <4>2
    <3> QED BY <3>1, <3>3, <3>4, <3>5, <1>t DEF FoundSealed
  <2> QED BY <2>1, <2>2, <2>3 DEF DeleteSound
<1>17. CallsSound'
  <2>1. ASSUME NEW m \in Objects
        PROVE  /\ finCalls'[m] <= 1
               /\ finCalls'[m] = 1 => m \in finalized' \/ \E i \in DOMAIN stack' :
                    stack'[i].do = "dealloc.finalized" /\ stack'[i].obj = m
    <3>1. CASE finCalls'[m] = finCalls[m]
      <4>1. finCalls[m] <= 1
        BY DEF CallsSound
      <4>2. ASSUME finCalls[m] = 1, m \notin finalized'
            PROVE  \E i \in DOMAIN stack' : stack'[i].do = "dealloc.finalized" /\ stack'[i].obj = m
        <5>1. m \notin finalized
          BY <4>2 DEF CallMoves
        <5>2. PICK i \in DOMAIN stack : stack[i].do = "dealloc.finalized" /\ stack[i].obj = m
          BY <4>2, <5>1 DEF CallsSound
        <5>3. i # Len(stack)
          BY <4>2, <5>2, <1>s, <1>t DEF CallMoves
        <5> QED BY <5>2, <5>3, <1>s
      <4> QED BY <3>1, <4>1, <4>2
    <3>2. CASE m = n /\ finCalls[m] = 0 /\ finCalls'[m] = 1 /\ g.do = "dealloc.finalized"
      BY <3>2, <1>s, <1>t
    <3> QED BY <3>1, <3>2 DEF CallMoves
  \* The callbacks that are still to be called from a tp_dealloc.
  <2>2. ASSUME NEW w \in Weakrefs, NEW i \in DOMAIN stack', stack'[i].do = "dealloc.callbacks",
               w \in stack'[i].holds
        PROVE  /\ i \in DOMAIN stack /\ cbCalls'[w] = 0 /\ target'[w] = None /\ list'[w] # "callbacks"
               /\ \/ stack[i].do = "dealloc.callbacks" /\ w \in stack[i].holds
                  \/ i = Len(stack) /\ target[w] # None
    <3>1. w \in Nodes
      BY NodeKinds
    <3>2. i \in DOMAIN stack /\ (i # Len(stack) => stack'[i] = stack[i]) /\ (i = Len(stack) => stack'[i] = g)
      BY <2>2, <1>2 DEF Deallocs, Dying
    <3>3. \A j \in DOMAIN stack : stack[j].do = "dealloc.callbacks" /\ w \in stack[j].holds =>
            /\ cbCalls[w] = 0 /\ target[w] = None /\ list[w] # "callbacks"
            /\ \A l \in DOMAIN stack : stack[l].do = "dealloc.callbacks" /\ w \in stack[l].holds => j = l
      BY DEF CallsSound
    <3>4. list[w] # "callbacks" => list'[w] # "callbacks"
      BY <3>1 DEF ListMoves
    <3>5. CASE stack[i].do = "dealloc.callbacks" /\ w \in stack[i].holds
      <4>1. cbCalls'[w] = cbCalls[w]
        <5>1. ASSUME w \in Top.holds, w \notin g.holds, Top.do = "dealloc.callbacks" PROVE FALSE
          BY <5>1, <3>2, <3>3, <3>5, <2>2, <1>s
        <5> QED BY <5>1 DEF CallMoves
      <4> QED BY <4>1, <3>2, <3>3, <3>4, <3>5 DEF HeapMoves
    <3>6. CASE i = Len(stack) /\ target[w] # None /\ target'[w] = None
      <4>1. cbCalls[w] = 0 /\ list[w] # "callbacks"
        BY <3>6 DEF CallsSound
      <4>2. cbCalls'[w] = cbCalls[w]
        <5>1. ASSUME w \in Top.holds, Top.do = "dealloc.callbacks" PROVE FALSE
          BY <5>1, <3>3, <3>6, <1>s
        <5> QED BY <5>1 DEF CallMoves
      <4> QED BY <4>1, <4>2, <3>2, <3>4, <3>6
    <3> QED BY <2>2, <3>2, <3>5, <3>6, <1>s DEF CallMoves
  <2>3. ASSUME NEW w \in Weakrefs, NEW i \in DOMAIN stack', NEW j \in DOMAIN stack',
               stack'[i].do = "dealloc.callbacks", w \in stack'[i].holds,
               stack'[j].do = "dealloc.callbacks", w \in stack'[j].holds
        PROVE  i = j
    <3>1. /\ i \in DOMAIN stack
          /\ \/ stack[i].do = "dealloc.callbacks" /\ w \in stack[i].holds
             \/ i = Len(stack) /\ target[w] # None
      BY <2>2, <2>3
    <3>2. /\ j \in DOMAIN stack
          /\ \/ stack[j].do = "dealloc.callbacks" /\ w \in stack[j].holds
             \/ j = Len(stack) /\ target[w] # None
      BY <2>2, <2>3
    <3> QED BY <3>1, <3>2 DEF CallsSound
  <2>4. ASSUME NEW w \in Weakrefs
        PROVE  /\ cbCalls'[w] <= 1
               /\ life'[w] = "new" => cbCalls'[w] = 0
               /\ target'[w] # None => cbCalls'[w] = 0 /\ list'[w] # "callbacks"
               /\ list'[w] = "callbacks" => target'[w] = None
               /\ list'[w] = "callbacks" /\ (\A i \in DOMAIN stack' : stack'[i].do = "gc" => stack'[i].obj # w)
                    => cbCalls'[w] = 0
    <3>1. /\ cbCalls[w] <= 1
          /\ life[w] = "new" => cbCalls[w] = 0
          /\ target[w] # None => cbCalls[w] = 0 /\ list[w] # "callbacks"
          /\ list[w] = "callbacks" => target[w] = None
          /\ list[w] = "callbacks" /\ (\A i \in DOMAIN stack : stack[i].do = "gc" => stack[i].obj # w)
               => cbCalls[w] = 0
      BY DEF CallsSound
    <3>2. list'[w] = "callbacks" => list[w] = "callbacks"
      BY NodeKinds DEF ListMoves
    <3>3. target'[w] = target[w] \/ target'[w] = None
      BY DEF HeapMoves
    <3>4. (\A i \in DOMAIN stack' : stack'[i].do = "gc" => stack'[i].obj # w)
            => (\A i \in DOMAIN stack : stack[i].do = "gc" => stack[i].obj # w)
      BY <1>5
    <3>5. CASE cbCalls'[w] = cbCalls[w]
      BY <3>1, <3>2, <3>3, <3>4, <3>5, <1>t
    <3>6. CASE w \in Top.holds /\ w \notin g.holds /\ Top.do = "dealloc.callbacks" /\ cbCalls'[w] = cbCalls[w] + 1
      <4>1. cbCalls[w] = 0 /\ target[w] = None /\ list[w] # "callbacks"
        BY <3>6, <1>s DEF CallsSound
      <4>2. life[w] # "new"
        <5>1. w \in Nodes /\ refcnt[w] > 0
          BY <3>6, <1>s, NodeKinds, Referenced DEF Counted
        <5> QED BY <5>1 DEF LifeSound, NotLive
      <4> QED BY <4>1, <4>2, <3>2, <3>3, <3>6, <1>t
    <3> QED BY <3>5, <3>6 DEF CallMoves
  <2> QED BY <2>1, <2>2, <2>3, <2>4 DEF CallsSound
<1> QED BY <1>6, <1>8, <1>9, <1>10, <1>12, <1>13, <1>14, <1>15, <1>16, <1>17

\* The counts follow the references that the frames take and leave.
LEMMA CountsMove ==
  ASSUME TypeOK, CountsTrue, refs' = refs, roots' = roots,
         \A m \in Nodes : refcnt'[m] = refcnt[m] + Owed(stack', phase', m) - Owed(stack, phase, m),
         stack' \in Seq(FrameSet)
  PROVE  CountsTrue'
<1>1. ASSUME NEW m \in Nodes
      PROVE  refcnt'[m] = Due(refs', roots', stack', phase', m)
  <2>1. refcnt[m] = Due(refs, roots, stack, phase, m)
    BY CountsAreDue
  <2>2. Owed(stack, phase, m) \in Nat /\ Owed(stack', phase', m) \in Nat /\ Cardinality(Sources(refs, m)) \in Nat
    BY OwedNat, SourcesFinite DEF TypeOK
  <2>3. refcnt'[m] = refcnt[m] + Owed(stack', phase', m) - Owed(stack, phase, m)
    OBVIOUS
  <2>4. Due(refs', roots', stack', phase', m) = Cardinality(Sources(refs, m)) + One(m \in roots) + Owed(stack', phase', m)
    BY DEF Due
  <2>5. Due(refs, roots, stack, phase, m) = Cardinality(Sources(refs, m)) + One(m \in roots) + Owed(stack, phase, m)
    BY DEF Due
  <2> QED BY <2>1, <2>2, <2>3, <2>4, <2>5 DEF One
<1> QED BY <1>1, CountsAreDueNext

\* The frame of a tp_dealloc on top.
LEMMA DeallocTop ==
  ASSUME IInv, Top.do \in Deallocs
  PROVE  /\ Len(stack) \in Nat \ {0} /\ Len(stack) > 1 /\ DOMAIN stack = 1..Len(stack)
         /\ Len(stack) \in DOMAIN stack /\ Top = stack[Len(stack)] /\ Top \in FrameSet
         /\ Top.obj \in Nodes /\ Top.obj # None /\ life[Top.obj] = "live" /\ phase \notin Silent
         /\ Top.do \in Dying => refcnt[Top.obj] = 0
         /\ Top.do \notin {"dealloc", "dealloc.clear"} => Top.obj \in Objects
         /\ Top.do # "dealloc.callbacks" => Top.holds = {}
         /\ phase = "callbacks" /\ woken = {} =>
              Top.obj \notin On("unreachable") /\ Top.holds \cap On("unreachable") = {}
         /\ \A ph, m : Weight(Top, ph, m) = One(m \in Top.holds) + One(m = Top.obj /\ Top.do \in Bracketed)
<1> USE DEF IInv
<1>1. /\ Len(stack) \in Nat \ {0} /\ DOMAIN stack = 1..Len(stack)
      /\ Len(stack) \in DOMAIN stack /\ Top = stack[Len(stack)] /\ Top \in FrameSet /\ Top.obj \in Nodes
  BY TopFacts
<1>2. Len(stack) # 1
  BY <1>1 DEF StackSound, Deallocs, Dying, Bracketed
<1>3. life[Top.obj] = "live" /\ (Top.do \in Dying => refcnt[Top.obj] = 0)
  BY <1>1 DEF LifeSound, LeavingSound
<1>4. phase \notin Silent
  BY NotSilent DEF Collector, Deallocs, Dying, Bracketed
<1>5. /\ Top.do \notin {"dealloc", "dealloc.clear"} => Top.obj \in Objects
      /\ Top.do # "dealloc.callbacks" => Top.holds = {}
  BY <1>1 DEF FrameSet
<1>6. phase = "callbacks" /\ woken = {} =>
        Top.obj \notin On("unreachable") /\ Top.holds \cap On("unreachable") = {}
  BY <1>1 DEF TrashSound
<1>7. \A ph, m : Weight(Top, ph, m) = One(m \in Top.holds) + One(m = Top.obj /\ Top.do \in Bracketed)
  BY DEF Weight, One, Keepers, Bracketed, Deallocs, Dying
<1> QED BY <1>1, <1>2, <1>3, <1>4, <1>5, <1>6, <1>7, NoneIsNoNode

\* The frame with which a tp_dealloc goes on.
LEMMA NextFrame ==
  ASSUME TypeOK, Top.do \in Deallocs, Top.holds = {}, NEW d \in Deallocs \ {"dealloc"},
         Top.obj \in Objects \/ d = "dealloc.clear", NEW g, g = [Top EXCEPT !.do = d]
  PROVE  /\ g \in FrameSet /\ g.do = d /\ g.obj = Top.obj /\ g.holds = {}
         /\ \A ph, m : Weight(g, ph, m) = One(m = Top.obj /\ d \in Bracketed)
<1>1. Top \in FrameSet /\ Top.obj \in Nodes
  BY TopFacts
<1>2. g \in FrameSet /\ g.do = d /\ g.obj = Top.obj /\ g.holds = {}
  BY <1>1, NodeKinds DEF FrameSet, Deallocs, Dying, Bracketed, Code
<1>3. \A ph, m : Weight(g, ph, m) = One(m = Top.obj /\ d \in Bracketed)
  BY <1>2 DEF Weight, One, Keepers, Deallocs, Dying, Bracketed
<1> QED BY <1>2, <1>3

LEMMA DeallocObjectStep ==
  ASSUME IInv, DeallocObject
  PROVE  IInv'
<1> USE DEF IInv
<1> DEFINE n == Top.obj
           l == IF n \in hasFin \cup hasDel THEN "young" ELSE "none"
<1>1. Top.do = "dealloc" /\ n \in Objects /\ Top.do \in Deallocs /\ Top.do \in Dying
  BY DEF DeallocObject, Deallocs, Dying
<1>2. /\ Len(stack) \in Nat \ {0} /\ Len(stack) \in DOMAIN stack /\ Top = stack[Len(stack)] /\ Top \in FrameSet
      /\ n \in Nodes /\ refcnt[n] = 0 /\ Top.holds = {}
      /\ phase = "callbacks" /\ woken = {} => n \notin On("unreachable")
      /\ \A ph, m : Weight(Top, ph, m) = 0
  BY <1>1, DeallocTop DEF One, Bracketed
<1>3. /\ Track(n, l) /\ l \in {"young", "old", "none"}
      /\ refs' = refs /\ phase' = phase /\ finalized' = finalized /\ cursor' = cursor /\ cbCalls' = cbCalls
      /\ cleared' = cleared /\ found' = found /\ leaked' = leaked /\ woken' = woken
      /\ hasFin' = hasFin /\ hasDel' = hasDel /\ roots' = roots /\ life' = life
      /\ target' = target /\ callback' = callback
  BY DEF DeallocObject, pastVars, world, fixed, weakVars
<1> HIDE DEF l
<1>4. /\ list' \in [Nodes -> Lists] /\ list'[n] = l /\ \A x \in Nodes : x # n => list'[x] = list[x]
      /\ gcRefs' \in [Nodes -> Int] /\ gcRefs'[n] \in {GC_UNTRACKED, GC_REACHABLE}
      /\ \A x \in Nodes : x # n => gcRefs'[x] = gcRefs[x]
      /\ Sublist(trash') /\ Collectable' = Collectable \ {n}
  BY <1>2, <1>3, TrackFacts
<1>a. CASE n \in hasFin \ finalized
  <2> DEFINE g == [Top EXCEPT !.do = "dealloc.finalized"]
  <2>1. /\ refcnt' = [refcnt EXCEPT ![n] = 2] /\ stack' = Append(Goto(g), Python({n}))
        /\ finCalls' = [finCalls EXCEPT ![n] = finCalls[n] + 1]
    BY <1>a DEF DeallocObject, At
  <2>2. /\ g \in FrameSet /\ g.do = "dealloc.finalized" /\ g.obj = n /\ g.holds = {}
        /\ \A ph, m : Weight(g, ph, m) = One(m = n)
    BY <1>1, <1>2, NextFrame DEF Deallocs, Bracketed, One
  <2> HIDE DEF g, n
  <2>3. Pushed(g, Python({n})) /\ {n} \in SUBSET Nodes
    BY <2>1, <1>2 DEF Pushed
  <2>4. finCalls[n] = 0 /\ finCalls \in [Objects -> Nat]
    <3>1. finCalls[n] \in Nat /\ finCalls[n] <= 1 /\ finCalls \in [Objects -> Nat]
      BY <1>1 DEF TypeOK, CallsSound
    <3>2. ASSUME finCalls[n] = 1 PROVE FALSE
      <4>1. PICK i \in DOMAIN stack : stack[i].do = "dealloc.finalized" /\ stack[i].obj = n
        BY <3>2, <1>1, <1>a DEF CallsSound
      <4> QED BY <4>1, <1>1, <1>2 DEF StackSound, Deallocs, Bracketed, n
    <3> QED BY <3>1, <3>2
  <2>5. /\ refcnt' \in [Nodes -> Nat] /\ refcnt'[n] = 2 /\ \A m \in Nodes : m # n => refcnt'[m] = refcnt[m]
        /\ finCalls' \in [Objects -> Nat] /\ finCalls'[n] = 1 /\ \A m \in Objects : m # n => finCalls'[m] = finCalls[m]
    BY <2>1, <2>4, <1>1, <1>2 DEF TypeOK, HeapType
  <2>6. stack' \in Seq(FrameSet) /\ stack' # <<>>
    BY <2>2, <2>3, PushedFacts, PythonFrame
  <2>7. TypeOK'
    <3>1. HeapType'
      BY <2>5, <1>3 DEF TypeOK, HeapType
    <3>2. trash' \in Seq(Nodes)
      BY <1>4 DEF Sublist
    <3> QED BY <3>1, <3>2, <2>5, <2>6, <1>3, <1>4 DEF TypeOK
  <2>8. CountsTrue'
    <3>1. ASSUME NEW m \in Nodes
          PROVE  refcnt'[m] = refcnt[m] + Owed(stack', phase', m) - Owed(stack, phase, m)
      <4>1. Owed(stack', phase, m) = Owed(stack, phase, m) - Weight(Top, phase, m) + Weight(g, phase, m)
                                       + Weight(Python({n}), phase, m)
        <5> DEFINE p == Python({n})
        <5>1. p \in FrameSet /\ g \in FrameSet /\ stack' = Append(Goto(g), p)
          BY <2>1, <2>2, <2>3, PythonFrame
        <5> HIDE DEF p
        <5>2. Owed(stack', phase, m) = Owed(stack, phase, m) - Weight(Top, phase, m) + Weight(g, phase, m)
                                         + Weight(p, phase, m)
          BY <5>1, CallOwed
        <5> QED BY <5>2 DEF p
      <4>2. Weight(Top, phase, m) = 0 /\ Weight(g, phase, m) = One(m = n) /\ Weight(Python({n}), phase, m) = One(m = n)
        BY <2>2, <2>3, <1>2, PythonFrame DEF One
      <4>3. Owed(stack, phase, m) \in Nat /\ refcnt[m] \in Nat
        BY OwedNat DEF TypeOK, HeapType
      <4> QED BY <4>1, <4>2, <4>3, <2>5, <1>2, <1>3 DEF One
    <3> QED BY <3>1, <2>6, <1>3, CountsMove
  <2>9. Continues(n, g, {n})
    BY <2>2, <2>3, <1>1, <1>3 DEF Continues, Deallocs, Bracketed, n
  <2>10. HeapMoves(n, g)
    <3>1. \A m \in Nodes : refs'[m] \subseteq refs[m]
      BY <1>3
    <3> QED BY <3>1, <2>2, <2>5, <1>3 DEF HeapMoves, Dying
  <2>11. ListMoves(n, g)
    BY <2>2, <1>1, <1>4 DEF ListMoves, l
  <2>12. CallMoves(n, g, {n})
    <3>1. n \notin found
      BY <1>a DEF FinalizeSound
    <3> QED BY <3>1, <2>2, <2>4, <2>5, <1>1, <1>2, <1>3 DEF CallMoves
  <2> QED BY <2>7, <2>8, <2>9, <2>10, <2>11, <2>12, DeallocStep
<1>b. CASE n \notin hasFin \ finalized
  <2> DEFINE g == [Top EXCEPT !.do = "dealloc.weakrefs"]
  <2>1. refcnt' = refcnt /\ stack' = Goto(g) /\ finCalls' = finCalls
    BY <1>b DEF DeallocObject, At
  <2>2. /\ g \in FrameSet /\ g.do = "dealloc.weakrefs" /\ g.obj = n /\ g.holds = {}
        /\ \A ph, m : Weight(g, ph, m) = 0
    BY <1>1, <1>2, NextFrame DEF Deallocs, Dying, Bracketed, One
  <2> HIDE DEF g, n
  <2>3. Pushed(g, Python({})) /\ {} \in SUBSET Nodes
    BY <2>1 DEF Pushed
  <2>4. stack' \in Seq(FrameSet) /\ stack' # <<>>
    BY <2>2, <2>3, PushedFacts, PythonFrame
  <2>5. TypeOK'
    <3>1. HeapType'
      BY <2>1, <1>3 DEF TypeOK, HeapType
    <3>2. trash' \in Seq(Nodes)
      BY <1>4 DEF Sublist
    <3> QED BY <3>1, <3>2, <2>1, <2>4, <1>3, <1>4 DEF TypeOK
  <2>6. CountsTrue'
    <3>1. ASSUME NEW m \in Nodes
          PROVE  refcnt'[m] = refcnt[m] + Owed(stack', phase', m) - Owed(stack, phase, m)
      <4>1. Owed(stack', phase, m) = Owed(stack, phase, m) - Weight(Top, phase, m) + Weight(g, phase, m)
        BY <2>1, <2>2, GotoFacts
      <4>2. Owed(stack, phase, m) \in Nat /\ refcnt[m] \in Nat /\ Weight(Top, phase, m) = 0 /\ Weight(g, phase, m) = 0
        BY <2>2, <1>2, OwedNat DEF TypeOK, HeapType
      <4> QED BY <4>1, <4>2, <2>1, <1>3
    <3> QED BY <3>1, <2>4, <1>3, CountsMove
  <2>7. Continues(n, g, {})
    BY <2>2, <2>3, <1>1, <1>3 DEF Continues, Deallocs, Dying, n
  <2>8. HeapMoves(n, g)
    <3>1. \A m \in Nodes : refs'[m] \subseteq refs[m]
      BY <1>3
    <3> QED BY <3>1, <2>1, <2>2, <1>2, <1>3 DEF HeapMoves, n
  <2>9. ListMoves(n, g)
    BY <2>2, <1>1, <1>4 DEF ListMoves, l
  <2>10. CallMoves(n, g, {})
    BY <2>1, <2>2, <1>1, <1>3 DEF CallMoves, Bracketed
  <2> QED BY <2>5, <2>6, <2>7, <2>8, <2>9, <2>10, DeallocStep
<1> QED BY <1>a, <1>b

\* A tp_dealloc goes on, and no list changes.
LEMMA ListsStay ==
  ASSUME TypeOK, ListSound, Top.do \in Deallocs \ {"dealloc"}, NEW g, g.do # "dealloc.clear",
         list' = list, gcRefs' = gcRefs, trash' = trash
  PROVE  ListMoves(Top.obj, g)
<1>1. /\ Top.obj \in Nodes /\ Top.obj \notin Collectable
      /\ list[Top.obj] \notin {"unreachable", "finalizers"}
  BY LeavingNoTrash
<1>2. Sublist(trash') /\ Collectable' = Collectable \ {Top.obj}
  BY <1>1, SublistSelf DEF Collectable
<1> QED BY <1>1, <1>2 DEF ListMoves

\* tp_finalize, or tp_del, has not brought the object back.
LEMMA FinalizerDoneStep ==
  ASSUME IInv, FinalizerDone, ~Resurrected
  PROVE  IInv'
<1> USE DEF IInv
<1> DEFINE n == Top.obj
           d == IF Top.do = "dealloc.finalized" THEN "dealloc.weakrefs" ELSE "dealloc.untrack"
           g == [Top EXCEPT !.do = d]
<1>1. Top.do \in Bracketed /\ Top.do \in Deallocs \ {"dealloc"} /\ d \in Deallocs \ {"dealloc"}
  BY DEF FinalizerDone, Deallocs, Dying, Bracketed
<1>2. /\ Len(stack) \in Nat \ {0} /\ Len(stack) \in DOMAIN stack /\ Top = stack[Len(stack)] /\ Top \in FrameSet
      /\ n \in Nodes /\ n \in Objects /\ Top.holds = {}
      /\ \A ph, m : Weight(Top, ph, m) = One(m = n)
  BY <1>1, DeallocTop DEF One, Bracketed
<1>3. /\ refcnt' = [refcnt EXCEPT ![n] = refcnt[n] - 1] /\ stack' = Goto(g)
      /\ finalized' = IF Top.do = "dealloc.finalized" THEN finalized \cup {n} ELSE finalized
      /\ refs' = refs /\ phase' = phase /\ cursor' = cursor /\ cbCalls' = cbCalls /\ finCalls' = finCalls
      /\ cleared' = cleared /\ found' = found /\ leaked' = leaked /\ woken' = woken
      /\ hasFin' = hasFin /\ hasDel' = hasDel /\ roots' = roots /\ life' = life
      /\ target' = target /\ callback' = callback /\ list' = list /\ gcRefs' = gcRefs /\ trash' = trash
  BY DEF FinalizerDone, At, Resurrected, pastVars, world, fixed, weakVars, callVars, listVars
<1>4. /\ g \in FrameSet /\ g.do = d /\ g.obj = n /\ g.holds = {}
      /\ \A ph, m : Weight(g, ph, m) = 0
  BY <1>1, <1>2, NextFrame DEF Bracketed, One
<1>5. refcnt[n] = 1
  <2>1. refcnt[n] > 0
    BY <1>1, <1>2, Referenced DEF Counted, Bracketed, Keepers
  <2> QED BY <2>1, <1>2 DEF Resurrected, TypeOK, HeapType
<1>d. d \in {"dealloc.weakrefs", "dealloc.untrack"} /\ (d = "dealloc.untrack" => n \in hasDel)
  BY <1>1, <1>2 DEF StackSound, Bracketed
<1> HIDE DEF g, n, d
<1>6. Pushed(g, Python({})) /\ {} \in SUBSET Nodes
  BY <1>3 DEF Pushed
<1>7. stack' \in Seq(FrameSet) /\ stack' # <<>>
  BY <1>4, <1>6, PushedFacts, PythonFrame
<1>8. refcnt' \in [Nodes -> Nat] /\ refcnt'[n] = 0 /\ \A m \in Nodes : m # n => refcnt'[m] = refcnt[m]
  BY <1>2, <1>3, <1>5 DEF TypeOK, HeapType
<1>9. TypeOK'
  <2>1. HeapType'
    BY <1>3, <1>8 DEF TypeOK, HeapType
  <2> QED BY <2>1, <1>2, <1>3, <1>7 DEF TypeOK
<1>10. CountsTrue'
  <2>1. ASSUME NEW m \in Nodes
        PROVE  refcnt'[m] = refcnt[m] + Owed(stack', phase', m) - Owed(stack, phase, m)
    <3>1. Owed(stack', phase, m) = Owed(stack, phase, m) - Weight(Top, phase, m) + Weight(g, phase, m)
      BY <1>3, <1>4, GotoFacts
    <3>2. /\ Owed(stack, phase, m) \in Nat /\ refcnt[m] \in Nat
          /\ Weight(Top, phase, m) = One(m = n) /\ Weight(g, phase, m) = 0
      BY <1>2, <1>4, OwedNat DEF TypeOK, HeapType
    <3> QED BY <3>1, <3>2, <1>3, <1>5, <1>8 DEF One
  <2> QED BY <2>1, <1>3, <1>7, CountsMove
<1>11. Continues(n, g, {})
  BY <1>1, <1>3, <1>4, <1>6, <1>d DEF Continues, n
<1>12. HeapMoves(n, g)
  <2>1. \A m \in Nodes : refs'[m] \subseteq refs[m]
    BY <1>3
  <2>2. ~(g.do = "dealloc.untrack" /\ n \notin hasDel) /\ g.do \notin {"dealloc.callbacks", "dealloc.clear"}
    BY <1>4, <1>d
  <2> QED BY <2>1, <2>2, <1>3, <1>8 DEF HeapMoves
<1>13. ListMoves(n, g)
  BY <1>1, <1>3, <1>4, <1>d, ListsStay DEF n
<1>14. CallMoves(n, g, {})
  BY <1>3, <1>4, <1>d DEF CallMoves, Bracketed
<1> QED BY <1>9, <1>10, <1>11, <1>12, <1>13, <1>14, DeallocStep

LEMMA ClearWeakRefsStep ==
  ASSUME IInv, ClearWeakRefs
  PROVE  IInv'
<1> USE DEF IInv
<1> DEFINE n == Top.obj
           ws == WeakrefsTo(n)
           called == {w \in ws \cap callback : refcnt[w] > 0}
           g == Frame("dealloc.callbacks", n, called)
<1>1. Top.do = "dealloc.weakrefs" /\ Top.do \in Dying /\ Top.do \in Deallocs \ {"dealloc"}
  BY DEF ClearWeakRefs, Deallocs, Dying
<1>2. /\ Len(stack) \in Nat \ {0} /\ Len(stack) \in DOMAIN stack /\ Top = stack[Len(stack)] /\ Top \in FrameSet
      /\ n \in Nodes /\ n \in Objects /\ Top.holds = {} /\ n # None
      /\ \A ph, m : Weight(Top, ph, m) = 0
  BY <1>1, DeallocTop DEF One, Bracketed
<1>3. /\ ClearRefs(ws) /\ callback' = callback \ ws /\ refcnt' = Incref(called) /\ stack' = Goto(g)
      /\ woken' = woken \cup (called \cap Collectable)
      /\ finalized' = finalized
      /\ refs' = refs /\ phase' = phase /\ cursor' = cursor /\ cbCalls' = cbCalls /\ finCalls' = finCalls
      /\ cleared' = cleared /\ found' = found /\ leaked' = leaked
      /\ hasFin' = hasFin /\ hasDel' = hasDel /\ roots' = roots /\ life' = life
      /\ list' = list /\ gcRefs' = gcRefs /\ trash' = trash
  BY DEF ClearWeakRefs, world, fixed, callVars, listVars
<1>4. /\ called \subseteq Weakrefs /\ called \subseteq Nodes /\ n \notin called
      /\ \A w \in called : target[w] = n /\ refcnt[w] > 0
      /\ \A w \in Weakrefs : w \in ws <=> target[w] = n
  BY <1>2, NodeKinds DEF WeakrefsTo
<1>5. /\ g \in FrameSet /\ g.do = "dealloc.callbacks" /\ g.obj = n /\ g.holds = called
      /\ \A ph, m : Weight(g, ph, m) = One(m \in called)
  BY <1>2, <1>4 DEF Frame, FrameSet, Deallocs, Dying, Bracketed, Code, Weight, One, Keepers
<1>6. \A w \in Weakrefs : target'[w] = IF w \in ws THEN None ELSE target[w]
  BY <1>3 DEF ClearRefs
<1>c. target' \in [Weakrefs -> Objects \cup {None}]
  BY <1>3 DEF ClearRefs, TypeOK, HeapType
<1>w. woken' = {} => woken = {} /\ called \cap Collectable = {}
  BY <1>3
<1> HIDE DEF g, n, ws, called
<1>7. Pushed(g, Python({})) /\ {} \in SUBSET Nodes
  BY <1>3 DEF Pushed
<1>8. stack' \in Seq(FrameSet) /\ stack' # <<>>
  BY <1>5, <1>7, PushedFacts, PythonFrame
<1>9. /\ refcnt' \in [Nodes -> Nat]
      /\ \A m \in Nodes : refcnt'[m] = IF m \in called THEN refcnt[m] + 1 ELSE refcnt[m]
  BY <1>3 DEF TypeOK, HeapType, Incref
<1>10. TypeOK'
  <2>1. HeapType'
    BY <1>3, <1>9, <1>c DEF TypeOK, HeapType
  <2>2. woken' \in SUBSET Nodes
    BY <1>3, <1>4 DEF TypeOK
  <2> QED BY <2>1, <2>2, <1>3, <1>8 DEF TypeOK
<1>11. CountsTrue'
  <2>1. ASSUME NEW m \in Nodes
        PROVE  refcnt'[m] = refcnt[m] + Owed(stack', phase', m) - Owed(stack, phase, m)
    <3>1. Owed(stack', phase, m) = Owed(stack, phase, m) - Weight(Top, phase, m) + Weight(g, phase, m)
      BY <1>3, <1>5, GotoFacts
    <3>2. /\ Owed(stack, phase, m) \in Nat /\ refcnt[m] \in Nat
          /\ Weight(Top, phase, m) = 0 /\ Weight(g, phase, m) = One(m \in called)
      BY <1>2, <1>5, OwedNat DEF TypeOK, HeapType
    <3> QED BY <3>1, <3>2, <1>3, <1>9 DEF One
  <2> QED BY <2>1, <1>3, <1>8, CountsMove
<1>12. Continues(n, g, {})
  BY <1>1, <1>3, <1>5, <1>7 DEF Continues, n, Deallocs, Dying
<1>13. HeapMoves(n, g)
  <2>1. \A m \in Nodes : refs'[m] \subseteq refs[m]
    BY <1>3
  <2>2. \A m \in Nodes : m = n \/ refcnt'[m] = refcnt[m] \/ (refcnt[m] > 0 /\ refcnt'[m] > 0)
    <3>1. \A m \in Nodes : refcnt[m] \in Nat
      BY DEF TypeOK, HeapType
    <3> QED BY <3>1, <1>4, <1>9
  <2>3. refcnt'[n] = 0
    BY <1>1, <1>2, <1>4, <1>9, DeallocTop DEF n
  <2>4. \A w \in Weakrefs : (target'[w] = target[w] \/ target'[w] = None) /\ target'[w] # n
    BY <1>2, <1>4, <1>6
  <2> QED BY <2>1, <2>2, <2>3, <2>4, <1>5 DEF HeapMoves
<1>14. ListMoves(n, g)
  BY <1>1, <1>3, <1>5, ListsStay DEF n
<1>15. CallMoves(n, g, {})
  <2>1. phase = "callbacks" /\ woken' = {} => (g.holds \cup {}) \cap On("unreachable") = {}
    BY <1>5, <1>w DEF ListSound, Ordered
  <2>2. \A w \in g.holds : target[w] # None /\ target'[w] = None
    BY <1>2, <1>4, <1>5, <1>6
  <2> QED BY <2>1, <2>2, <1>1, <1>3, <1>5 DEF CallMoves, Bracketed
<1> QED BY <1>10, <1>11, <1>12, <1>13, <1>14, <1>15, DeallocStep

LEMMA CallCallbackStep ==
  ASSUME IInv, NEW w \in Weakrefs, CallCallback(w)
  PROVE  IInv'
<1> USE DEF IInv
<1> DEFINE n == Top.obj
           h == {w} \cup refs[w]
           g == [Top EXCEPT !.holds = Top.holds \ {w}]
<1>1. Top.do = "dealloc.callbacks" /\ w \in Top.holds /\ Top.do \in Dying /\ Top.do \in Deallocs \ {"dealloc"}
  BY DEF CallCallback, Deallocs, Dying
<1>2. /\ Len(stack) \in Nat \ {0} /\ Len(stack) \in DOMAIN stack /\ Top = stack[Len(stack)] /\ Top \in FrameSet
      /\ n \in Nodes /\ n \in Objects /\ refcnt[n] = 0
      /\ \A ph, m : Weight(Top, ph, m) = One(m \in Top.holds)
  BY <1>1, DeallocTop DEF One, Bracketed
<1>3. /\ refs' = [refs EXCEPT ![w] = {}] /\ stack' = Append(Goto(g), Python(h))
      /\ cbCalls' = [cbCalls EXCEPT ![w] = cbCalls[w] + 1]
      /\ leaked' = (leaked \/ (phase = "delete" /\ w \in found))
      /\ finalized' = finalized /\ refcnt' = refcnt
      /\ phase' = phase /\ cursor' = cursor /\ finCalls' = finCalls
      /\ cleared' = cleared /\ found' = found /\ woken' = woken
      /\ hasFin' = hasFin /\ hasDel' = hasDel /\ roots' = roots /\ life' = life
      /\ target' = target /\ callback' = callback /\ list' = list /\ gcRefs' = gcRefs /\ trash' = trash
  BY DEF CallCallback, world, fixed, listVars, weakVars, Clearing
<1>4. /\ w \in Nodes /\ h \in SUBSET Nodes /\ w \in h /\ w \notin refs[w]
      /\ \A m \in Nodes : m \in h <=> m = w \/ m \in refs[w]
  BY NodeKinds DEF TypeOK, HeapType
<1>5. /\ g \in FrameSet /\ g.do = "dealloc.callbacks" /\ g.obj = n /\ g.holds = Top.holds \ {w}
  BY <1>1, <1>2 DEF FrameSet, Deallocs, Dying, Bracketed, Code
<1> HIDE DEF g, n, h
<1>6. \A ph, m : Weight(g, ph, m) = One(m \in Top.holds /\ m # w)
  BY <1>5 DEF Weight, One, Keepers
<1>7. Pushed(g, Python(h)) /\ Python(h) \in FrameSet
  BY <1>3, <1>4, PythonFrame DEF Pushed
<1>8. stack' \in Seq(FrameSet) /\ stack' # <<>>
  BY <1>5, <1>7, PushedFacts
<1>9. /\ refs' \in [Nodes -> SUBSET Nodes] /\ refs'[w] = {} /\ \A m \in Nodes : m # w => refs'[m] = refs[m]
      /\ cbCalls' \in [Weakrefs -> Nat] /\ cbCalls'[w] = cbCalls[w] + 1
      /\ \A v \in Weakrefs : v # w => cbCalls'[v] = cbCalls[v]
  BY <1>3, <1>4 DEF TypeOK, HeapType
<1>10. TypeOK'
  <2>1. HeapType'
    <3>1. \A v \in Weakrefs : refs'[v] \subseteq Objects
      BY <1>9, NodeKinds DEF TypeOK, HeapType
    <3> QED BY <3>1, <1>3, <1>9 DEF TypeOK, HeapType
  <2> QED BY <2>1, <1>3, <1>8, <1>9 DEF TypeOK
<1>11. CountsTrue'
  <2>1. ASSUME NEW m \in Nodes
        PROVE  refcnt'[m] = Due(refs', roots', stack', phase', m)
    <3>1. Owed(stack', phase, m) = Owed(stack, phase, m) - Weight(Top, phase, m) + Weight(g, phase, m)
                                     + Weight(Python(h), phase, m)
      BY <1>3, <1>5, <1>7, CallOwed
    <3>2. /\ Weight(Top, phase, m) = One(m \in Top.holds)
          /\ Weight(g, phase, m) = One(m \in Top.holds /\ m # w)
          /\ Weight(Python(h), phase, m) = One(m \in h)
      BY <1>2, <1>4, <1>6, PythonFrame
    <3>3. /\ Cardinality(Sources(refs, m)) \in Nat /\ Owed(stack, phase, m) \in Nat
          /\ refcnt[m] = Due(refs, roots, stack, phase, m)
      BY SourcesFinite, OwedNat, CountsAreDue DEF TypeOK
    <3>4. Owed(stack', phase, m) = Owed(stack, phase, m) + One(m \in refs[w])
      BY <3>1, <3>2, <3>3, <1>1, <1>4 DEF One
    <3>5. Cardinality(Sources(refs', m)) = Cardinality(Sources(refs, m)) - One(m \in refs[w])
      <4>1. w \in Nodes /\ \A y \in Nodes : y # w => refs'[y] = refs[y]
        BY <1>4, <1>9
      <4>2. Cardinality(Sources(refs', m))
              = Cardinality(Sources(refs, m)) - One(m \in refs[w]) + One(m \in refs'[w])
        BY <4>1, SourcesSet DEF One
      <4> QED BY <4>2, <3>3, <1>9 DEF One
    <3> QED BY <3>3, <3>4, <3>5, <1>3 DEF Due, One
  <2> QED BY <2>1, CountsAreDueNext
<1>12. Continues(n, g, h)
  BY <1>1, <1>3, <1>4, <1>5, <1>7 DEF Continues, n, Deallocs, Dying
<1>13. HeapMoves(n, g)
  <2>1. \A m \in Nodes : refs'[m] \subseteq refs[m]
    BY <1>9
  <2>2. \A v \in Weakrefs : target[v] # n
    BY <1>1, <1>2 DEF WeakSound, n
  <2> QED BY <2>1, <2>2, <1>2, <1>3, <1>5 DEF HeapMoves
<1>14. ListMoves(n, g)
  BY <1>1, <1>3, <1>5, ListsStay DEF n
<1>15. CallMoves(n, g, h)
  <2>1. phase = "callbacks" /\ woken' = {} => (g.holds \cup h) \cap On("unreachable") = {}
    <3>1. SUFFICES ASSUME phase = "callbacks", woken = {}
                   PROVE  (g.holds \cup h) \cap On("unreachable") = {}
      BY <1>3
    <3>2. Sealed(On("unreachable")) /\ Top.holds \cap On("unreachable") = {}
      BY <3>1, <1>2 DEF TrashSound
    <3>3. w \notin On("unreachable") /\ refs[w] \cap On("unreachable") = {}
      BY <3>2, <1>1, <1>4 DEF Sealed, From
    <3> QED BY <3>2, <3>3, <1>5 DEF h
  <2>2. phase = "delete" /\ ~leaked' => h \cap found = {}
    <3>1. SUFFICES ASSUME phase = "delete", ~leaked, w \notin found
                   PROVE  h \cap found = {}
      BY <1>3
    <3>2. Sealed(found)
      BY <3>1 DEF DeleteSound, FoundSealed
    <3>3. refs[w] \cap found = {}
      BY <3>1, <3>2, <1>4 DEF Sealed, From
    <3> QED BY <3>1, <3>3 DEF h
  <2>3. \A v \in Weakrefs : cbCalls'[v] = cbCalls[v]
           \/ (v \in Top.holds /\ v \notin g.holds /\ Top.do = "dealloc.callbacks" /\ cbCalls'[v] = cbCalls[v] + 1)
    BY <1>1, <1>5, <1>9
  <2>4. \A v \in g.holds : v \in Top.holds
    BY <1>5
  <2> QED BY <2>1, <2>2, <2>3, <2>4, <1>1, <1>3, <1>5 DEF CallMoves, Bracketed
<1> QED BY <1>10, <1>11, <1>12, <1>13, <1>14, <1>15, DeallocStep

LEMMA CallDelStep ==
  ASSUME IInv, CallDel
  PROVE  IInv'
<1> USE DEF IInv
<1> DEFINE n == Top.obj
<1>1. Top.do = "dealloc.callbacks" /\ Top.do \in Dying /\ Top.do \in Deallocs \ {"dealloc"} /\ Top.holds = {}
  BY DEF CallDel, Deallocs, Dying
<1>2. /\ Len(stack) \in Nat \ {0} /\ Len(stack) \in DOMAIN stack /\ Top = stack[Len(stack)] /\ Top \in FrameSet
      /\ n \in Nodes /\ n \in Objects /\ refcnt[n] = 0
      /\ phase = "callbacks" /\ woken = {} => n \notin On("unreachable")
      /\ \A ph, m : Weight(Top, ph, m) = 0
  BY <1>1, DeallocTop DEF One, Bracketed
<1>3. /\ finalized' = finalized /\ refs' = refs /\ leaked' = leaked /\ cbCalls' = cbCalls
      /\ phase' = phase /\ cursor' = cursor /\ finCalls' = finCalls
      /\ cleared' = cleared /\ found' = found /\ woken' = woken
      /\ hasFin' = hasFin /\ hasDel' = hasDel /\ roots' = roots /\ life' = life
      /\ target' = target /\ callback' = callback /\ list' = list /\ gcRefs' = gcRefs /\ trash' = trash
  BY DEF CallDel, world, fixed, listVars, weakVars, callVars, pastVars
<1>4. \A w \in Weakrefs : target[w] # n
  BY <1>1, <1>2 DEF WeakSound
<1>a. CASE n \in hasDel
  <2> DEFINE g == [Top EXCEPT !.do = "dealloc.deleted"]
  <2>1. refcnt' = [refcnt EXCEPT ![n] = 2] /\ stack' = Append(Goto(g), Python({n}))
    BY <1>a DEF CallDel, At
  <2>2. /\ g \in FrameSet /\ g.do = "dealloc.deleted" /\ g.obj = n /\ g.holds = {}
        /\ \A ph, m : Weight(g, ph, m) = One(m = n)
    BY <1>1, <1>2, NextFrame DEF Deallocs, Bracketed, One
  <2> HIDE DEF g, n
  <2>3. Pushed(g, Python({n})) /\ {n} \in SUBSET Nodes
    BY <2>1, <1>2 DEF Pushed
  <2>4. Python({n}) \in FrameSet
    BY <2>3, PythonFrame
  <2>5. refcnt' \in [Nodes -> Nat] /\ refcnt'[n] = 2 /\ \A m \in Nodes : m # n => refcnt'[m] = refcnt[m]
    BY <2>1, <1>1, <1>2 DEF TypeOK, HeapType
  <2>6. stack' \in Seq(FrameSet) /\ stack' # <<>>
    BY <2>2, <2>3, <2>4, PushedFacts
  <2>7. TypeOK'
    <3>1. HeapType'
      BY <2>5, <1>3 DEF TypeOK, HeapType
    <3> QED BY <3>1, <2>5, <2>6, <1>3 DEF TypeOK
  <2>8. CountsTrue'
    <3>1. ASSUME NEW m \in Nodes
          PROVE  refcnt'[m] = refcnt[m] + Owed(stack', phase', m) - Owed(stack, phase, m)
      <4>1. Owed(stack', phase, m) = Owed(stack, phase, m) - Weight(Top, phase, m) + Weight(g, phase, m)
                                       + Weight(Python({n}), phase, m)
        <5> DEFINE p == Python({n})
        <5>1. p \in FrameSet /\ g \in FrameSet /\ stack' = Append(Goto(g), p)
          BY <2>1, <2>2, <2>3, PythonFrame
        <5> HIDE DEF p
        <5>2. Owed(stack', phase, m) = Owed(stack, phase, m) - Weight(Top, phase, m) + Weight(g, phase, m)
                                         + Weight(p, phase, m)
          BY <5>1, CallOwed
        <5> QED BY <5>2 DEF p
      <4>2. Weight(Top, phase, m) = 0 /\ Weight(g, phase, m) = One(m = n) /\ Weight(Python({n}), phase, m) = One(m = n)
        BY <2>2, <2>3, <1>2, PythonFrame DEF One
      <4>3. Owed(stack, phase, m) \in Nat /\ refcnt[m] \in Nat
        BY OwedNat DEF TypeOK, HeapType
      <4> QED BY <4>1, <4>2, <4>3, <2>5, <1>2, <1>3 DEF One
    <3> QED BY <3>1, <2>6, <1>3, CountsMove
  <2>9. Continues(n, g, {n})
    BY <2>2, <2>3, <1>1, <1>3, <1>a DEF Continues, Deallocs, Bracketed, n
  <2>10. HeapMoves(n, g)
    <3>1. \A m \in Nodes : refs'[m] \subseteq refs[m]
      BY <1>3
    <3> QED BY <3>1, <2>2, <2>5, <1>3 DEF HeapMoves, Dying
  <2>11. ListMoves(n, g)
    BY <2>2, <1>1, <1>3, ListsStay DEF n
  <2>12. CallMoves(n, g, {n})
    <3>1. n \notin found
      BY <1>a DEF FinalizeSound
    <3> QED BY <3>1, <2>2, <1>1, <1>2, <1>3 DEF CallMoves
  <2> QED BY <2>7, <2>8, <2>9, <2>10, <2>11, <2>12, DeallocStep
<1>b. CASE n \notin hasDel
  <2> DEFINE g == [Top EXCEPT !.do = "dealloc.untrack"]
  <2>1. refcnt' = refcnt /\ stack' = Goto(g)
    BY <1>b DEF CallDel, At
  <2>2. /\ g \in FrameSet /\ g.do = "dealloc.untrack" /\ g.obj = n /\ g.holds = {}
        /\ \A ph, m : Weight(g, ph, m) = 0
    BY <1>1, <1>2, NextFrame DEF Deallocs, Dying, Bracketed, One
  <2> HIDE DEF g, n
  <2>3. Pushed(g, Python({})) /\ {} \in SUBSET Nodes
    BY <2>1 DEF Pushed
  <2>4. stack' \in Seq(FrameSet) /\ stack' # <<>>
    BY <2>2, <2>3, PushedFacts, PythonFrame
  <2>5. TypeOK'
    <3>1. HeapType'
      BY <2>1, <1>3 DEF TypeOK, HeapType
    <3> QED BY <3>1, <2>1, <2>4, <1>3 DEF TypeOK
  <2>6. CountsTrue'
    <3>1. ASSUME NEW m \in Nodes
          PROVE  refcnt'[m] = refcnt[m] + Owed(stack', phase', m) - Owed(stack, phase, m)
      <4>1. Owed(stack', phase, m) = Owed(stack, phase, m) - Weight(Top, phase, m) + Weight(g, phase, m)
        BY <2>1, <2>2, GotoFacts
      <4>2. Owed(stack, phase, m) \in Nat /\ refcnt[m] \in Nat /\ Weight(Top, phase, m) = 0 /\ Weight(g, phase, m) = 0
        BY <2>2, <1>2, OwedNat DEF TypeOK, HeapType
      <4> QED BY <4>1, <4>2, <2>1, <1>3
    <3> QED BY <3>1, <2>4, <1>3, CountsMove
  <2>7. Continues(n, g, {})
    BY <2>2, <2>3, <1>1, <1>3 DEF Continues, Deallocs, Dying, n
  <2>8. HeapMoves(n, g)
    <3>1. \A m \in Nodes : refs'[m] \subseteq refs[m]
      BY <1>3
    <3> QED BY <3>1, <2>1, <2>2, <1>2, <1>3, <1>4 DEF HeapMoves, n
  <2>9. ListMoves(n, g)
    BY <2>2, <1>1, <1>3, ListsStay DEF n
  <2>10. CallMoves(n, g, {})
    BY <2>1, <2>2, <1>1, <1>3 DEF CallMoves, Bracketed
  <2> QED BY <2>5, <2>6, <2>7, <2>8, <2>9, <2>10, DeallocStep
<1> QED BY <1>a, <1>b

\* The two steps that take the object off its list for good.
LEMMA UntrackStep ==
  ASSUME IInv, Top.do \in Dying, Top.do # "dealloc.callbacks", NEW n, n = Top.obj,
         Track(n, "none"), stack' = At("dealloc.clear"),
         target' \in [Weakrefs -> Objects \cup {None}],
         \A w \in Weakrefs : target'[w] = target[w] \/ target'[w] = None,
         \A w \in Weakrefs : target'[w] # n, n \in Weakrefs => target'[n] = None,
         callback' \in SUBSET Weakrefs,
         UNCHANGED <<refs, refcnt, phase, finalized, cursor, callVars, pastVars, world>>
  PROVE  IInv'
<1> USE DEF IInv
<1> DEFINE g == [Top EXCEPT !.do = "dealloc.clear"]
<1>1. Top.do \in Deallocs /\ Top.do \notin Bracketed /\ Top.do # "dealloc.finalized"
  BY DEF Deallocs, Dying, Bracketed
<1>2. /\ Len(stack) \in Nat \ {0} /\ Len(stack) \in DOMAIN stack /\ Top = stack[Len(stack)] /\ Top \in FrameSet
      /\ n \in Nodes /\ refcnt[n] = 0 /\ Top.holds = {}
      /\ \A ph, m : Weight(Top, ph, m) = 0
  BY <1>1, DeallocTop DEF One
<1>3. /\ finalized' = finalized /\ refs' = refs /\ refcnt' = refcnt /\ leaked' = leaked /\ cbCalls' = cbCalls
      /\ phase' = phase /\ cursor' = cursor /\ finCalls' = finCalls
      /\ cleared' = cleared /\ found' = found /\ woken' = woken
      /\ hasFin' = hasFin /\ hasDel' = hasDel /\ roots' = roots /\ life' = life
  BY DEF world, fixed, callVars, pastVars
<1>4. /\ list' \in [Nodes -> Lists] /\ list'[n] = "none" /\ \A x \in Nodes : x # n => list'[x] = list[x]
      /\ gcRefs' \in [Nodes -> Int] /\ gcRefs'[n] \in {GC_UNTRACKED, GC_REACHABLE}
      /\ \A x \in Nodes : x # n => gcRefs'[x] = gcRefs[x]
      /\ Sublist(trash') /\ Collectable' = Collectable \ {n}
  BY <1>2, TrackFacts
<1>5. /\ g \in FrameSet /\ g.do = "dealloc.clear" /\ g.obj = n /\ g.holds = {}
      /\ \A ph, m : Weight(g, ph, m) = 0
  BY <1>1, <1>2, NextFrame DEF Deallocs, Dying, Bracketed, One
<1>6. stack' = Goto(g)
  BY DEF At
<1> HIDE DEF g
<1>7. Pushed(g, Python({})) /\ {} \in SUBSET Nodes
  BY <1>6 DEF Pushed
<1>8. stack' \in Seq(FrameSet) /\ stack' # <<>>
  BY <1>5, <1>7, PushedFacts, PythonFrame
<1>9. TypeOK'
  <2>1. HeapType'
    BY <1>3 DEF TypeOK, HeapType
  <2>2. trash' \in Seq(Nodes)
    BY <1>4 DEF Sublist
  <2> QED BY <2>1, <2>2, <1>3, <1>4, <1>8 DEF TypeOK
<1>10. CountsTrue'
  <2>1. ASSUME NEW m \in Nodes
        PROVE  refcnt'[m] = refcnt[m] + Owed(stack', phase', m) - Owed(stack, phase, m)
    <3>1. Owed(stack', phase, m) = Owed(stack, phase, m) - Weight(Top, phase, m) + Weight(g, phase, m)
      BY <1>5, <1>6, GotoFacts
    <3>2. Owed(stack, phase, m) \in Nat /\ refcnt[m] \in Nat /\ Weight(Top, phase, m) = 0 /\ Weight(g, phase, m) = 0
      BY <1>2, <1>5, OwedNat DEF TypeOK, HeapType
    <3> QED BY <3>1, <3>2, <1>3
  <2> QED BY <2>1, <1>3, <1>8, CountsMove
<1>11. Continues(n, g, {})
  BY <1>1, <1>3, <1>5, <1>7 DEF Continues, Deallocs, Dying
<1>12. HeapMoves(n, g)
  <2>1. \A m \in Nodes : refs'[m] \subseteq refs[m]
    BY <1>3
  <2> QED BY <2>1, <1>2, <1>3 DEF HeapMoves
<1>13. ListMoves(n, g)
  BY <1>4 DEF ListMoves
<1>14. CallMoves(n, g, {})
  BY <1>1, <1>3, <1>5 DEF CallMoves, Bracketed
<1> QED BY <1>9, <1>10, <1>11, <1>12, <1>13, <1>14, DeallocStep

LEMMA UntrackDyingStep ==
  ASSUME IInv, UntrackDying
  PROVE  IInv'
<1> USE DEF IInv
<1>1. Top.do = "dealloc.untrack" /\ Top.do \in Dying /\ Top.do \in Deallocs
  BY DEF UntrackDying, Deallocs, Dying
<1>2. /\ Len(stack) \in DOMAIN stack /\ Top = stack[Len(stack)] /\ Top.obj \in Objects /\ Top.obj # None
  BY <1>1, DeallocTop
<1>3. /\ Track(Top.obj, "none") /\ stack' = At("dealloc.clear") /\ callback' = callback
      /\ UNCHANGED <<refs, refcnt, phase, finalized, cursor, callVars, pastVars, world>>
      /\ IF Top.obj \in hasFin \cup hasDel THEN ClearRefs(WeakrefsTo(Top.obj)) ELSE target' = target
  BY DEF UntrackDying
<1>4. /\ target' \in [Weakrefs -> Objects \cup {None}]
      /\ \A w \in Weakrefs : target'[w] = target[w] \/ target'[w] = None
      /\ \A w \in Weakrefs : target'[w] # Top.obj
  <2>1. CASE Top.obj \in hasFin \cup hasDel
    <3>1. target' = [w \in Weakrefs |-> IF w \in WeakrefsTo(Top.obj) THEN None ELSE target[w]]
      BY <2>1, <1>3 DEF ClearRefs
    <3>2. \A w \in Weakrefs : w \in WeakrefsTo(Top.obj) <=> target[w] = Top.obj
      BY DEF WeakrefsTo
    <3>3. target \in [Weakrefs -> Objects \cup {None}]
      BY DEF TypeOK, HeapType
    <3> QED BY <3>1, <3>2, <3>3, <1>2
  <2>2. CASE Top.obj \notin hasFin \cup hasDel
    <3>1. \A w \in Weakrefs : target[w] # Top.obj
      BY <2>2, <1>1, <1>2 DEF WeakSound
    <3> QED BY <3>1, <2>2, <1>3 DEF TypeOK, HeapType
  <2> QED BY <2>1, <2>2
<1>5. Top.obj \notin Weakrefs /\ callback' \in SUBSET Weakrefs
  BY <1>2, <1>3, NodeKinds DEF TypeOK, HeapType
<1> QED BY <1>1, <1>3, <1>4, <1>5, UntrackStep

LEMMA DeallocWeakrefStep ==
  ASSUME IInv, DeallocWeakref
  PROVE  IInv'
<1> USE DEF IInv
<1>1. Top.do = "dealloc" /\ Top.do \in Dying /\ Top.obj \in Weakrefs
  BY DEF DeallocWeakref, Dying
<1>3. /\ Track(Top.obj, "none") /\ stack' = At("dealloc.clear") /\ callback' = callback \ {Top.obj}
      /\ UNCHANGED <<refs, refcnt, phase, finalized, cursor, callVars, pastVars, world>>
      /\ ClearRefs({Top.obj})
  BY DEF DeallocWeakref
<1>4. /\ target' \in [Weakrefs -> Objects \cup {None}]
      /\ \A w \in Weakrefs : target'[w] = target[w] \/ target'[w] = None
      /\ \A w \in Weakrefs : target'[w] # Top.obj
      /\ target'[Top.obj] = None
  <2>1. target' = [w \in Weakrefs |-> IF w \in {Top.obj} THEN None ELSE target[w]]
    BY <1>3 DEF ClearRefs
  <2>2. target \in [Weakrefs -> Objects \cup {None}] /\ Top.obj \notin Objects /\ Top.obj # None
    BY <1>1, NodeKinds, NoneIsNoNode DEF TypeOK, HeapType
  <2> QED BY <2>1, <2>2, <1>1
<1>5. callback' \in SUBSET Weakrefs
  BY <1>3 DEF TypeOK, HeapType
<1> QED BY <1>1, <1>3, <1>4, <1>5, UntrackStep

\* A tp_dealloc is over: the object is alive again, or gone.
Leaves(n) ==
  /\ Top.do \in Deallocs /\ n = Top.obj /\ stack' = Return
  /\ UNCHANGED <<phase, cursor, roots, refs, hasFin, hasDel, found, cleared, leaked, woken, list, gcRefs,
                 trash, target, callback, finCalls, cbCalls>>
  /\ finalized \subseteq finalized' /\ (Top.do = "dealloc.finalized" => n \in finalized')
  /\ \A m \in Nodes : m # n => refcnt'[m] = refcnt[m] /\ life'[m] = life[m]
  /\ \/ Top.do \in Bracketed /\ life'[n] = life[n] /\ refcnt'[n] > 0
     \/ Top.do = "dealloc.clear" /\ life'[n] = "dead" /\ refcnt'[n] = 0 /\ refs[n] = {}

LEMMA LeaveStep ==
  ASSUME IInv, TypeOK', CountsTrue', NEW n, Leaves(n)
  PROVE  IInv'
<1> USE DEF IInv
<1>t. /\ Top.do \in Deallocs /\ n = Top.obj /\ stack' = Return
      /\ phase' = phase /\ cursor' = cursor /\ roots' = roots /\ refs' = refs /\ hasFin' = hasFin
      /\ hasDel' = hasDel /\ found' = found /\ cleared' = cleared /\ leaked' = leaked /\ woken' = woken
      /\ list' = list /\ gcRefs' = gcRefs /\ trash' = trash /\ target' = target /\ callback' = callback
      /\ finCalls' = finCalls /\ cbCalls' = cbCalls
  BY DEF Leaves
<1>n. /\ Len(stack) \in Nat \ {0} /\ Len(stack) > 1 /\ DOMAIN stack = 1..Len(stack)
      /\ Len(stack) \in DOMAIN stack /\ Top = stack[Len(stack)]
      /\ n \in Nodes /\ n # None /\ life[n] = "live" /\ phase \notin Silent
  BY <1>t, DeallocTop
<1>s. /\ DOMAIN stack' = 1..(Len(stack) - 1) /\ \A i \in 1..(Len(stack) - 1) : stack'[i] = stack[i]
  BY <1>n, <1>t, FrontFacts DEF Return, TypeOK
<1>1. \A i \in DOMAIN stack' : i \in DOMAIN stack /\ i # Len(stack) /\ stack'[i] = stack[i]
  BY <1>n, <1>s
<1>2. \A i \in DOMAIN stack : i # Len(stack) => i \in DOMAIN stack' /\ stack'[i] = stack[i]
  BY <1>n, <1>s
<1>3. \A i \in DOMAIN stack' : stack[i].do \in Deallocs => stack[i].obj \in Nodes /\ stack[i].obj # n
  BY <1>1, <1>n, <1>t, FrameFacts DEF StackSound
<1>4. \A i \in DOMAIN stack : stack[i].do \in {"gc", "gc.clear"} => i # Len(stack)
  BY <1>n, <1>t DEF Deallocs, Dying, Bracketed
<1>5. StackSound'
  <2>1. stack'[1].do = "python"
    BY <1>n, <1>s DEF StackSound
  <2>2. \A i \in DOMAIN stack' : stack'[i].do # "dealloc"
    BY <1>1 DEF StackSound
  <2> QED BY <2>1, <2>2, <1>1, <1>t DEF StackSound
<1>6. CollectorSound'
  <2>1. /\ \A i, j \in DOMAIN stack' : stack'[i].do = "gc" /\ stack'[j].do = "gc" => i = j
        /\ phase' # "idle" <=> \E i \in DOMAIN stack' : stack'[i].do = "gc"
        /\ phase' \notin Silent
    BY <1>1, <1>2, <1>4, <1>t, <1>n DEF CollectorSound
  <2>2. ASSUME NEW i \in DOMAIN stack', stack'[i].do = "gc.clear"
        PROVE  phase' = "delete" /\ i > 1 /\ stack'[i-1].do = "gc" /\ stack'[i-1].obj = stack'[i].obj
    <3>1. phase = "delete" /\ i > 1 /\ stack[i-1].do = "gc" /\ stack[i-1].obj = stack[i].obj
      BY <2>2, <1>1 DEF CollectorSound
    <3>2. i - 1 \in DOMAIN stack'
      BY <3>1, <1>n, <1>s
    <3> QED BY <3>1, <3>2, <1>1, <1>t
  <2>3. ASSUME NEW i \in DOMAIN stack', stack'[i].do = "gc"
        PROVE  /\ stack'[i].holds # {} => phase' = "callbacks"
               /\ \A w \in stack'[i].holds : list'[w] = "callbacks"
               /\ stack'[i].obj # None => phase' \in {"callbacks", "finalize", "delete"}
               /\ stack'[i].obj # None /\ phase' = "callbacks" => stack'[i].obj \in Weakrefs
               /\ stack'[i].obj # None /\ phase' = "finalize" =>
                    stack'[i].obj = cursor' /\ cursor' \in Collectable'
               /\ stack'[i].obj # None /\ phase' = "delete" => stack'[i].obj \in found'
    BY <2>3, <1>1, <1>t DEF CollectorSound, Collectable
  <2> QED BY <2>1, <2>2, <2>3 DEF CollectorSound
<1>7. LifeSound'
  <2>1. NotLive'
    <3>1. ASSUME NEW m \in Nodes, life'[m] # "live"
          PROVE  refcnt'[m] = 0 /\ refs[m] = {} /\ list[m] = "none"
      <4>1. CASE m = n
        <5>1. Top.do = "dealloc.clear" /\ refcnt'[n] = 0 /\ refs[n] = {}
          BY <3>1, <4>1, <1>n DEF Leaves
        <5> QED BY <5>1, <4>1, <1>n, <1>t DEF LifeSound, LeavingSound
      <4>2. CASE m # n
        BY <3>1, <4>2 DEF Leaves, LifeSound, NotLive
      <4> QED BY <4>1, <4>2
    <3> QED BY <3>1, <1>t DEF NotLive
  <2>2. ZeroLeaves'
    <3>1. ASSUME NEW m \in Nodes, life'[m] = "live", refcnt'[m] = 0
          PROVE  \E i \in DOMAIN stack' : stack'[i].do \in Deallocs /\ stack'[i].obj = m
      <4>1. m # n
        BY <3>1, <1>n DEF Leaves
      <4>2. life[m] = "live" /\ refcnt[m] = 0
        BY <3>1, <4>1 DEF Leaves
      <4>3. PICK i \in DOMAIN stack : stack[i].do \in Deallocs /\ stack[i].obj = m
        BY <4>2 DEF LifeSound, ZeroLeaves
      <4> QED BY <4>1, <4>3, <1>2, <1>n, <1>t
    <3> QED BY <3>1 DEF ZeroLeaves
  <2>3. LeavingSound'
    <3>1. \A i \in DOMAIN stack' : stack'[i].do \in Deallocs => life'[stack'[i].obj] = "live"
      BY <1>1, <1>3 DEF Leaves, LifeSound, LeavingSound
    <3>2. \A i \in DOMAIN stack' : stack'[i].do \in Dying => refcnt'[stack'[i].obj] = 0
      BY <1>1, <1>3 DEF Leaves, LifeSound, LeavingSound, Deallocs
    <3>3. \A i \in DOMAIN stack' : stack'[i].do = "dealloc.clear" =>
            /\ list'[stack'[i].obj] = "none"
            /\ stack'[i].obj \in Weakrefs => target'[stack'[i].obj] = None
      BY <1>1, <1>t DEF LifeSound, LeavingSound
    <3> QED BY <3>1, <3>2, <3>3 DEF LeavingSound
  <2> QED BY <2>1, <2>2, <2>3 DEF LifeSound
<1>8. WeakSound'
  <2>1. ASSUME NEW w \in Weakrefs, target[w] # None
        PROVE  life'[w] = "live" /\ life'[target[w]] = "live"
    <3>1. w \in Nodes /\ target[w] \in Nodes /\ life[w] = "live" /\ life[target[w]] = "live"
      BY <2>1, NodeKinds DEF WeakSound, TypeOK, HeapType
    <3>2. CASE Top.do \in Bracketed /\ life'[n] = life[n]
      BY <3>1, <3>2 DEF Leaves
    <3>3. CASE Top.do = "dealloc.clear"
      <4>1. target[w] # n /\ w # n
        BY <2>1, <3>3, <1>n, <1>t DEF WeakSound, LifeSound, LeavingSound
      <4> QED BY <3>1, <4>1 DEF Leaves
    <3> QED BY <3>2, <3>3 DEF Leaves
  <2>2. ASSUME NEW i \in DOMAIN stack', NEW w \in Weakrefs,
               \/ stack'[i].do \in {"dealloc.callbacks", "dealloc.clear"}
               \/ (stack'[i].do = "dealloc.untrack" /\ stack'[i].obj \notin hasDel)
        PROVE  target'[w] # stack'[i].obj
    BY <2>2, <1>1, <1>t DEF WeakSound
  <2> QED BY <2>1, <2>2, <1>t DEF WeakSound
<1>9. ListSound'
  BY <1>1, <1>t DEF ListSound, On, Collectable
<1>10. WalkSound'
  BY <1>n, <1>t, NoWalkNext DEF Silent
<1>11. TrashSound'
  <2>1. SUFFICES ASSUME phase = "callbacks", woken = {}
                 PROVE  TrashSound'
    BY <1>n, <1>t DEF TrashSound, Silent
  <2>2. On("unreachable")' = On("unreachable")
    BY <1>t DEF On
  <2>3. Sealed(On("unreachable"))'
    <3>1. Sealed(On("unreachable"))
      BY <2>1 DEF TrashSound
    <3> QED BY <3>1, <2>2, <1>1, <1>t DEF Sealed, From
  <2> QED BY <2>1, <2>2, <2>3, <1>1, <1>t DEF TrashSound
<1>12. FinalizeSound'
  BY <1>t DEF FinalizeSound, Leaves
<1>13. DeleteSound'
  <2>1. FoundSound'
    <3>1. \A m \in found : life'[m] # "new"
      BY DEF DeleteSound, FoundSound, Leaves, TypeOK
    <3> QED BY <3>1, <1>1, <1>t DEF DeleteSound, FoundSound, Collectable
  <2>2. ClearedSound'
    <3>1. \A m \in Nodes : life[m] = "dead" => life'[m] = "dead"
      BY <1>n DEF Leaves
    <3>2. found \subseteq Nodes /\ cleared \subseteq Nodes
      BY DEF TypeOK
    <3> QED BY <3>1, <3>2, <1>t DEF DeleteSound, ClearedSound
  <2>3. FoundSealed'
    <3>1. SUFFICES ASSUME phase = "delete", ~leaked
                   PROVE  FoundSealed'
      BY <1>t DEF FoundSealed
    <3>2. Sealed(found)'
      <4>1. Sealed(found)
        BY <3>1 DEF DeleteSound, FoundSealed
      <4> QED BY <4>1, <1>1, <1>t DEF Sealed, From
    <3>3. ASSUME NEW i \in DOMAIN stack', NEW j \in DOMAIN stack', stack'[j].do = "gc"
          PROVE  /\ stack'[i].holds \cap found # {} => i > j
                 /\ stack'[i].do \in Deallocs /\ stack'[i].obj \in found => i > j
                 /\ stack'[j].obj # None => refs'[stack'[j].obj] = {} \/ Is(j + 1, "gc.clear")'
      <4>1. /\ i \in DOMAIN stack /\ stack'[i] = stack[i] /\ j \in DOMAIN stack /\ stack'[j] = stack[j]
        BY <1>1
      <4>2. Is(j + 1, "gc.clear") => Is(j + 1, "gc.clear")'
        BY <1>2, <1>4 DEF Is
      <4> QED BY <3>1, <3>3, <4>1, <4>2, <1>t DEF DeleteSound, FoundSealed
    <3>4. ASSUME NEW m \in found \ Collectable
          PROVE  \/ refs[m] = {}
                 \/ \E i \in DOMAIN stack' : stack'[i].do \in Dying /\ stack'[i].obj = m
      <4>1. CASE m = n
        <5>1. Top.do \notin Bracketed
          BY <3>1, <3>4, <4>1, <1>n, <1>t DEF DeleteSound, FoundSound
        <5> QED BY <4>1, <5>1 DEF Leaves
      <4>2. CASE m # n
        <5>1. \/ refs[m] = {}
              \/ \E i \in DOMAIN stack : stack[i].do \in Dying /\ stack[i].obj = m
          BY <3>1, <3>4 DEF DeleteSound, FoundSealed
        <5>2. ASSUME NEW i \in DOMAIN stack, stack[i].do \in Dying, stack[i].obj = m
              PROVE  i \in DOMAIN stack' /\ stack'[i] = stack[i]
          BY <5>2, <4>2, <1>2, <1>n, <1>t
        <5> QED BY <5>1, <5>2
      <4> QED BY <4>1, <4>2
    <3> QED BY <3>1, <3>2, <3>3, <3>4, <1>t DEF FoundSealed, Collectable
  <2> QED BY <2>1, <2>2, <2>3 DEF DeleteSound
<1>14. CallsSound'
  <2>1. ASSUME NEW m \in Objects
        PROVE  /\ finCalls'[m] <= 1
               /\ finCalls'[m] = 1 => m \in finalized' \/ \E i \in DOMAIN stack' :
                    stack'[i].do = "dealloc.finalized" /\ stack'[i].obj = m
    <3>1. ASSUME finCalls[m] = 1, m \notin finalized'
          PROVE  \E i \in DOMAIN stack' : stack'[i].do = "dealloc.finalized" /\ stack'[i].obj = m
      <4>1. m \notin finalized
        BY <3>1 DEF Leaves
      <4>2. PICK i \in DOMAIN stack : stack[i].do = "dealloc.finalized" /\ stack[i].obj = m
        BY <3>1, <4>1 DEF CallsSound
      <4>3. i # Len(stack)
        BY <3>1, <4>2, <1>n, <1>t DEF Leaves
      <4> QED BY <4>2, <4>3, <1>2
    <3> QED BY <3>1, <1>t DEF CallsSound
  <2>2. ASSUME NEW w \in Weakrefs
        PROVE  /\ cbCalls'[w] <= 1
               /\ life'[w] = "new" => cbCalls'[w] = 0
               /\ target'[w] # None => cbCalls'[w] = 0 /\ list'[w] # "callbacks"
               /\ list'[w] = "callbacks" => target'[w] = None
               /\ list'[w] = "callbacks" /\ (\A i \in DOMAIN stack' : stack'[i].do = "gc" => stack'[i].obj # w)
                    => cbCalls'[w] = 0
    <3>1. (\A i \in DOMAIN stack' : stack'[i].do = "gc" => stack'[i].obj # w)
            => (\A i \in DOMAIN stack : stack[i].do = "gc" => stack[i].obj # w)
      BY <1>2, <1>4
    <3>2. life'[w] = "new" => life[w] = "new"
      BY <1>n, NodeKinds DEF Leaves
    <3> QED BY <3>1, <3>2, <1>t DEF CallsSound
  <2>3. ASSUME NEW w \in Weakrefs, NEW i \in DOMAIN stack', stack'[i].do = "dealloc.callbacks",
               w \in stack'[i].holds
        PROVE  /\ cbCalls'[w] = 0 /\ target'[w] = None /\ list'[w] # "callbacks"
               /\ \A j \in DOMAIN stack' :
                    stack'[j].do = "dealloc.callbacks" /\ w \in stack'[j].holds => i = j
    BY <2>3, <1>1, <1>t DEF CallsSound
  <2> QED BY <2>1, <2>2, <2>3 DEF CallsSound
<1> QED BY <1>5, <1>6, <1>7, <1>8, <1>9, <1>10, <1>11, <1>12, <1>13, <1>14

LEMMA ResurrectedStep ==
  ASSUME IInv, FinalizerDone, Resurrected
  PROVE  IInv'
<1> USE DEF IInv
<1> DEFINE n == Top.obj
<1>1. Top.do \in Bracketed /\ Top.do \in Deallocs
  BY DEF FinalizerDone, Deallocs, Bracketed
<1>2. /\ Len(stack) \in Nat \ {0} /\ Len(stack) > 1 /\ Top = stack[Len(stack)]
      /\ stack \in Seq(FrameSet) /\ stack # <<>>
      /\ n \in Nodes /\ n \in Objects /\ Top.holds = {}
      /\ \A ph, m : Weight(Top, ph, m) = One(m = n)
  BY <1>1, DeallocTop, TopFacts DEF One, Bracketed
<1>3. /\ refcnt' = [refcnt EXCEPT ![n] = refcnt[n] - 1] /\ stack' = Return
      /\ finalized' = IF Top.do = "dealloc.finalized" THEN finalized \cup {n} ELSE finalized
      /\ refs' = refs /\ phase' = phase /\ cursor' = cursor /\ cbCalls' = cbCalls /\ finCalls' = finCalls
      /\ cleared' = cleared /\ found' = found /\ leaked' = leaked /\ woken' = woken
      /\ hasFin' = hasFin /\ hasDel' = hasDel /\ roots' = roots /\ life' = life
      /\ target' = target /\ callback' = callback /\ list' = list /\ gcRefs' = gcRefs /\ trash' = trash
  BY DEF FinalizerDone, At, Resurrected, pastVars, world, fixed, weakVars, callVars, listVars
<1>4. refcnt[n] > 1
  BY DEF Resurrected
<1> HIDE DEF n
<1>5. refcnt' \in [Nodes -> Nat] /\ refcnt'[n] = refcnt[n] - 1 /\ \A m \in Nodes : m # n => refcnt'[m] = refcnt[m]
  BY <1>2, <1>3, <1>4 DEF TypeOK, HeapType
<1>6. stack' \in Seq(FrameSet) /\ stack' # <<>>
  BY <1>2, <1>3, FrontFacts DEF Return
<1>7. TypeOK'
  <2>1. HeapType'
    BY <1>3, <1>5 DEF TypeOK, HeapType
  <2> QED BY <2>1, <1>2, <1>3, <1>6 DEF TypeOK
<1>8. CountsTrue'
  <2>1. ASSUME NEW m \in Nodes
        PROVE  refcnt'[m] = refcnt[m] + Owed(stack', phase', m) - Owed(stack, phase, m)
    <3>1. Owed(stack', phase, m) = Owed(stack, phase, m) - Weight(Top, phase, m)
      BY <1>2, <1>3, OwedFront DEF Return
    <3>2. /\ Owed(stack, phase, m) \in Nat /\ refcnt[m] \in Nat /\ Weight(Top, phase, m) = One(m = n)
      BY <1>2, OwedNat DEF TypeOK, HeapType
    <3> QED BY <3>1, <3>2, <1>3, <1>5 DEF One
  <2> QED BY <2>1, <1>3, <1>6, CountsMove
<1>9. Leaves(n)
  <2>1. refcnt'[n] > 0
    BY <1>2, <1>4, <1>5 DEF TypeOK, HeapType
  <2> QED BY <2>1, <1>1, <1>3, <1>5 DEF Leaves, n
<1> QED BY <1>7, <1>8, <1>9, LeaveStep

LEMMA FreeStep ==
  ASSUME IInv, Free
  PROVE  IInv'
<1> USE DEF IInv
<1> DEFINE n == Top.obj
<1>1. Top.do = "dealloc.clear" /\ Top.do \in Deallocs /\ Top.do \in Dying
  BY DEF Free, Deallocs, Dying
<1>2. /\ Len(stack) \in Nat \ {0} /\ Len(stack) > 1 /\ Top = stack[Len(stack)]
      /\ stack \in Seq(FrameSet) /\ stack # <<>>
      /\ n \in Nodes /\ Top.holds = {} /\ refcnt[n] = 0
      /\ \A ph, m : Weight(Top, ph, m) = 0
  BY <1>1, DeallocTop, TopFacts DEF One, Bracketed
<1>3. /\ life' = [life EXCEPT ![n] = "dead"] /\ stack' = Return /\ refs[n] = {}
      /\ refcnt' = refcnt /\ finalized' = finalized
      /\ refs' = refs /\ phase' = phase /\ cursor' = cursor /\ cbCalls' = cbCalls /\ finCalls' = finCalls
      /\ cleared' = cleared /\ found' = found /\ leaked' = leaked /\ woken' = woken
      /\ hasFin' = hasFin /\ hasDel' = hasDel /\ roots' = roots
      /\ target' = target /\ callback' = callback /\ list' = list /\ gcRefs' = gcRefs /\ trash' = trash
  BY DEF Free, reachVars, pastVars, fixed, weakVars, callVars
<1> HIDE DEF n
<1>4. /\ life' \in [Nodes -> {"new", "live", "dead"}] /\ life'[n] = "dead"
      /\ \A m \in Nodes : m # n => life'[m] = life[m]
  BY <1>2, <1>3 DEF TypeOK, HeapType
<1>5. stack' \in Seq(FrameSet) /\ stack' # <<>>
  BY <1>2, <1>3, FrontFacts DEF Return
<1>6. TypeOK'
  <2>1. HeapType'
    BY <1>3, <1>4 DEF TypeOK, HeapType
  <2> QED BY <2>1, <1>3, <1>5 DEF TypeOK
<1>7. CountsTrue'
  <2>1. ASSUME NEW m \in Nodes
        PROVE  refcnt'[m] = refcnt[m] + Owed(stack', phase', m) - Owed(stack, phase, m)
    <3>1. Owed(stack', phase, m) = Owed(stack, phase, m) - Weight(Top, phase, m)
      BY <1>2, <1>3, OwedFront DEF Return
    <3>2. /\ Owed(stack, phase, m) \in Nat /\ refcnt[m] \in Nat /\ Weight(Top, phase, m) = 0
      BY <1>2, OwedNat DEF TypeOK, HeapType
    <3> QED BY <3>1, <3>2, <1>3
  <2> QED BY <2>1, <1>3, <1>5, CountsMove
<1>8. Leaves(n)
  BY <1>1, <1>2, <1>3, <1>4 DEF Leaves, n
<1> QED BY <1>6, <1>7, <1>8, LeaveStep

-----------------------------------------------------------------------------
(* Steps of the collector                                                  *)

\* Those that change the collector's lists, and its place, and nothing else.
WalkMoves ==
  /\ Collector /\ Top.obj = None /\ phase' # "idle"
  /\ phase' # "callbacks" => Top.holds = {}
  /\ UNCHANGED <<refs, refcnt, world, weakVars, stack, callVars>>
  /\ \A n \in Nodes : list'[n] = "callbacks" <=> list[n] = "callbacks"
  /\ \A n \in Nodes : list[n] = "none" => list'[n] = "none"

LEMMA WalkStep ==
  ASSUME IInv, WalkMoves, TypeOK', ListSound', WalkSound', TrashSound', FinalizeSound', DeleteSound',
         finalized' = finalized
  PROVE  IInv'
<1> USE DEF IInv
<1>1. /\ Collector /\ Top.obj = None /\ phase' # "idle"
      /\ phase' # "callbacks" => Top.holds = {}
      /\ \A n \in Nodes : list'[n] = "callbacks" <=> list[n] = "callbacks"
      /\ \A n \in Nodes : list[n] = "none" => list'[n] = "none"
      /\ refs' = refs /\ refcnt' = refcnt /\ roots' = roots /\ hasFin' = hasFin /\ hasDel' = hasDel
      /\ life' = life /\ target' = target /\ callback' = callback /\ stack' = stack
      /\ finCalls' = finCalls /\ cbCalls' = cbCalls
  BY DEF WalkMoves, world, fixed, weakVars, callVars
<1>2. /\ Len(stack) \in DOMAIN stack /\ Top = stack[Len(stack)] /\ Top \in FrameSet /\ Top.do = "gc"
      /\ phase # "idle"
      /\ \A i \in DOMAIN stack : stack[i].do = "gc" => i = Len(stack)
      /\ \A i \in DOMAIN stack : stack[i].do # "gc.clear"
  BY <1>1, CollectorFacts
<1>3. \A i \in DOMAIN stack : stack[i].do = "gc" => stack[i] = Top
  BY <1>2
<1>4. StackSound'
  BY <1>1 DEF StackSound
<1>5. CollectorSound'
  <2>1. phase' \in Silent => Top = Frame("gc", None, {})
    <3>1. phase' \in Silent => phase' # "callbacks"
      BY DEF Silent
    <3> QED BY <3>1, <1>1, <1>2 DEF FrameSet, Frame
  <2>2. Top' = Top
    BY <1>1 DEF Top
  <2>3. phase' # "idle" <=> \E i \in DOMAIN stack : stack[i].do = "gc"
    BY <1>1, <1>2
  <2>4. \A v \in Top.holds : list'[v] = "callbacks"
    BY <1>1, <1>2, TopFacts DEF CollectorSound
  <2>5. ASSUME NEW i \in DOMAIN stack, stack[i].do = "gc"
        PROVE  /\ stack[i].holds # {} => phase' = "callbacks"
               /\ \A v \in stack[i].holds : list'[v] = "callbacks"
               /\ stack[i].obj = None
    BY <2>4, <2>5, <1>1, <1>3
  <2>6. \A i, j \in DOMAIN stack : stack[i].do = "gc" /\ stack[j].do = "gc" => i = j
    BY <1>2
  <2> QED BY <2>1, <2>2, <2>3, <2>5, <2>6, <1>1, <1>2 DEF CollectorSound
<1>6. CountsTrue'
  <2>1. stack \in Seq(FrameSet)
    BY DEF TypeOK
  <2>2. ASSUME NEW m \in Nodes
        PROVE  Owed(stack, phase', m) = Owed(stack, phase, m)
    <3>1. \A i \in DOMAIN stack : stack[i].do = "gc" => stack[i].obj # m
      BY <1>1, <1>3, NoneIsNoNode
    <3> QED BY <3>1, <2>1, OwedPhase
  <2>3. \A m \in Nodes : refcnt[m] \in Nat /\ Owed(stack, phase, m) \in Nat
    BY <2>1, OwedNat DEF TypeOK, HeapType
  <2>4. \A m \in Nodes : refcnt'[m] = refcnt[m] + Owed(stack', phase', m) - Owed(stack, phase, m)
    BY <2>2, <2>3, <1>1
  <2> QED BY <2>1, <2>4, <1>1, CountsMove
<1>7. LifeSound'
  <2>1. NotLive'
    BY <1>1 DEF LifeSound, NotLive
  <2>2. ZeroLeaves'
    BY <1>1 DEF LifeSound, ZeroLeaves
  <2>3. LeavingSound'
    <3>1. \A i \in DOMAIN stack : stack[i].do = "dealloc.clear" => stack[i].obj \in Nodes
      BY FrameFacts DEF Deallocs, Dying
    <3> QED BY <3>1, <1>1 DEF LifeSound, LeavingSound
  <2> QED BY <2>1, <2>2, <2>3 DEF LifeSound
<1>8. WeakSound'
  BY <1>1 DEF WeakSound
<1>9. CallsSound'
  <2>1. \A n \in Objects :
          /\ finCalls[n] <= 1
          /\ finCalls[n] = 1 => n \in finalized \/ \E i \in DOMAIN stack :
               stack[i].do = "dealloc.finalized" /\ stack[i].obj = n
    BY DEF CallsSound
  <2>2. \A w \in Weakrefs : list'[w] = "callbacks" <=> list[w] = "callbacks"
    BY <1>1, NodeKinds
  <2>3. ASSUME NEW w \in Weakrefs
        PROVE  /\ cbCalls[w] <= 1
               /\ life[w] = "new" => cbCalls[w] = 0
               /\ target[w] # None => cbCalls[w] = 0 /\ list'[w] # "callbacks"
               /\ list'[w] = "callbacks" => target[w] = None
               /\ list'[w] = "callbacks" /\ (\A i \in DOMAIN stack : stack[i].do = "gc" => stack[i].obj # w)
                    => cbCalls[w] = 0
               /\ \A i \in DOMAIN stack : stack[i].do = "dealloc.callbacks" /\ w \in stack[i].holds =>
                    /\ cbCalls[w] = 0 /\ target[w] = None /\ list'[w] # "callbacks"
                    /\ \A j \in DOMAIN stack :
                         stack[j].do = "dealloc.callbacks" /\ w \in stack[j].holds => i = j
    BY <2>2 DEF CallsSound
  <2> QED BY <2>1, <2>3, <1>1 DEF CallsSound
<1> QED BY <1>4, <1>5, <1>6, <1>7, <1>8, <1>9

\* No clearing before and after: what the history says stays.
LEMMA NotClearing ==
  ASSUME DeleteSound, phase \notin {"delete", "done"}, phase' \notin {"delete", "done"},
         UNCHANGED <<life, cleared, found, leaked>>
  PROVE  DeleteSound'
<1>1. found = {}
  BY DEF DeleteSound, FoundSound
<1>2. FoundSound'
  BY <1>1 DEF FoundSound
<1>3. ClearedSound'
  BY <1>1 DEF DeleteSound, ClearedSound
<1>4. FoundSealed'
  BY DEF FoundSealed
<1> QED BY <1>2, <1>3, <1>4 DEF DeleteSound

LEMMA NotFinalizing ==
  ASSUME FinalizeSound, phase' # "finalize", UNCHANGED <<hasFin, hasDel, finalized, found>>
  PROVE  FinalizeSound'
BY DEF FinalizeSound

\* The rest of a walk's step, when its lists and its place are right.
LEMMA WalkRest ==
  ASSUME TypeOK, Collector, UNCHANGED restVars, refs' = refs, refcnt' = refcnt,
         list' \in [Nodes -> Lists], gcRefs' \in [Nodes -> Int], phase' \in Phases
  PROVE  TypeOK'
BY DEF TypeOK, HeapType, restVars, world, fixed, weakVars, callVars, pastVars

LEMMA UpdateRefsStep ==
  ASSUME IInv, UpdateRefs
  PROVE  IInv'
<1> USE DEF IInv
<1>1. /\ Collector /\ phase = "update_refs" /\ phase' = "subtract_refs"
      /\ \A n \in On("young") : refcnt[n] # 0
      /\ gcRefs' = [n \in Nodes |-> IF n \in On("young") THEN refcnt[n] ELSE gcRefs[n]]
      /\ refs' = refs /\ refcnt' = refcnt /\ list' = list /\ UNCHANGED restVars
  BY DEF UpdateRefs, update_refs
<1>2. /\ UNCHANGED <<life, cleared, found, leaked>> /\ UNCHANGED <<hasFin, hasDel, finalized, found>>
      /\ trash' = trash /\ stack' = stack /\ hasDel' = hasDel
  BY <1>1 DEF restVars, world, fixed, pastVars
<1>3. Top.obj = None /\ Top.holds = {}
  BY <1>1 DEF CollectorSound, Silent, Frame
<1>4. TypeOK'
  <2>1. gcRefs' \in [Nodes -> Int] /\ phase' \in Phases /\ list' \in [Nodes -> Lists]
    BY <1>1 DEF TypeOK, HeapType, Phases
  <2> QED BY <2>1, <1>1, WalkRest
<1>5. WalkMoves
  BY <1>1, <1>3 DEF WalkMoves, restVars
<1>6. ListSound'
  BY <1>1, <1>2 DEF ListSound, On, Ordered, Collectable
<1>7. WalkSound'
  <2>1. On("unreachable") = {}
    BY <1>1 DEF ListSound
  <2>2. \A n \in Examined : refcnt[n] > 0
    BY <2>1, <1>1 DEF Examined, On, TypeOK, HeapType
  <2>3. Examined' = Examined
    BY <1>1 DEF Examined, On
  <2> QED BY <2>2, <2>3, <1>1 DEF WalkSound
<1>8. TrashSound'
  BY <1>1 DEF TrashSound
<1>9. FinalizeSound' /\ DeleteSound'
  BY <1>1, <1>2, NotClearing, NotFinalizing
<1> QED BY <1>2, <1>4, <1>5, <1>6, <1>7, <1>8, <1>9, WalkStep

LEMMA SubtractRefsStep ==
  ASSUME IInv, SubtractRefs
  PROVE  IInv'
<1> USE DEF IInv
<1>1. /\ Collector /\ phase = "subtract_refs" /\ phase' = "move_unreachable"
      /\ gcRefs' = Subtract("young")
      /\ refs' = refs /\ refcnt' = refcnt /\ list' = list /\ UNCHANGED restVars
  BY DEF SubtractRefs, subtract_refs
<1>2. /\ UNCHANGED <<life, cleared, found, leaked>> /\ UNCHANGED <<hasFin, hasDel, finalized, found>>
      /\ trash' = trash /\ stack' = stack /\ hasDel' = hasDel
  BY <1>1 DEF restVars, world, fixed, pastVars
<1>3. Top.obj = None /\ Top.holds = {}
  BY <1>1 DEF CollectorSound, Silent, Frame
<1>4. /\ \A n \in Nodes : Cardinality(From(On("young"), n)) \in Nat
           /\ refcnt[n] >= Cardinality(From(On("young"), n))
      /\ \A n \in Nodes : refcnt[n] \in Nat
  BY CountedAtLeast DEF On, TypeOK, HeapType
<1>5. /\ gcRefs' \in [Nodes -> Int]
      /\ \A n \in Nodes : gcRefs'[n] = IF n \in On("young") THEN refcnt[n] - Cardinality(From(On("young"), n))
                                       ELSE gcRefs[n]
  BY <1>1, <1>4 DEF Subtract, TypeOK
<1>6. TypeOK'
  <2>1. phase' \in Phases /\ list' \in [Nodes -> Lists]
    BY <1>1 DEF TypeOK, Phases
  <2> QED BY <2>1, <1>1, <1>5, WalkRest
<1>7. WalkMoves
  BY <1>1, <1>3 DEF WalkMoves, restVars
<1>8. ListSound'
  BY <1>1, <1>2, <1>5 DEF ListSound, On, Ordered, Collectable
<1>9. WalkSound'
  <2>1. On("unreachable") = {}
    BY <1>1 DEF ListSound
  <2>2. Examined = On("young") /\ Examined' = Examined /\ On("young")' = On("young")
        /\ On("unreachable")' = On("unreachable")
    BY <2>1, <1>1 DEF Examined, On
  <2>3. \A n \in Examined : refcnt[n] > 0
    BY <1>1 DEF WalkSound
  <2>4. \A n \in On("young") : gcRefs'[n] >= 0 /\ gcRefs'[n] \in Int
        /\ (gcRefs'[n] # 0 <=> n \in Outside(On("young")))
    <3>1. On("young") \subseteq Nodes
      BY DEF On
    <3> QED BY <3>1, <1>4, <1>5 DEF Outside
  <2>5. \A n \in On("young") : gcRefs'[n] # 0 => n \in Reach(Outside(Examined))
    <3>1. \A n \in On("young") : n \in Nodes
      BY DEF On
    <3> QED BY <3>1, <2>2, <2>4, ReachBase
  <2>6. Outside(Examined)' = Outside(Examined) /\ Reach(Outside(Examined))' = Reach(Outside(Examined))
    <3>1. Outside(Examined)' = Outside(Examined)
      BY <2>2, <1>1 DEF Outside, From
    <3> QED BY <3>1, <1>1 DEF Reach, Closed
  <2>7. \A n \in On("young") : gcRefs'[n] # GC_REACHABLE /\ gcRefs'[n] # GC_TENTATIVELY_UNREACHABLE
    BY <2>4 DEF GC_REACHABLE, GC_TENTATIVELY_UNREACHABLE
  <2>8. \A n \in On("young") : gcRefs'[n] = 0 => n \notin Outside(Examined)
    BY <2>2, <2>4
  <2> QED BY <2>1, <2>2, <2>3, <2>4, <2>5, <2>6, <2>7, <2>8, <1>1 DEF WalkSound
<1>10. TrashSound'
  BY <1>1 DEF TrashSound
<1>11. FinalizeSound' /\ DeleteSound'
  BY <1>1, <1>2, NotClearing, NotFinalizing
<1> QED BY <1>2, <1>6, <1>7, <1>8, <1>9, <1>10, <1>11, WalkStep

\* What the walk may set aside is not in the middle of its tp_dealloc.
LEMMA NotLeaving ==
  ASSUME IInv, phase \in {"subtract_refs", "move_unreachable"},
         NEW n \in Examined, n \notin Outside(Examined), NEW i \in DOMAIN stack,
         stack[i].do \in Deallocs
  PROVE  stack[i].obj # n
<1> USE DEF IInv
<1>1. n \in Nodes /\ Examined \subseteq Nodes /\ refcnt[n] > 0
  BY DEF Examined, On, WalkSound
<1>2. stack[i].obj = n => stack[i].do \in Bracketed
  BY <1>1 DEF Deallocs, LifeSound, LeavingSound
<1>3. refcnt[n] <= Cardinality(From(Examined, n))
  <2>1. Cardinality(From(Examined, n)) \in Nat /\ refcnt[n] \in Nat
    BY <1>1, CountedAtLeast DEF TypeOK, HeapType
  <2> QED BY <2>1 DEF Outside
<1>4. Inside(Examined, n)
  BY <1>1, <1>3, CountedInside
<1> QED BY <1>2, <1>4 DEF Inside, Keepers, Bracketed

LEMMA MoveUnreachableStep ==
  ASSUME IInv, MoveUnreachable
  PROVE  IInv'
<1> USE DEF IInv
<1>1. PICK n \in Nodes : Collector /\ move_unreachable(n) /\ UNCHANGED restVars
  BY DEF MoveUnreachable
<1>2. /\ phase = "move_unreachable" /\ n \in On("young") /\ gcRefs[n] >= 0
      /\ \/ gcRefs[n] > 0 /\ MarkReachable(n)
         \/ /\ gcRefs[n] = 0
            /\ gcRefs' = [gcRefs EXCEPT ![n] = GC_TENTATIVELY_UNREACHABLE]
            /\ list' = [list EXCEPT ![n] = "unreachable"]
      /\ refs' = refs /\ refcnt' = refcnt /\ phase' = phase
  BY <1>1 DEF move_unreachable, Unscanned
<1>3. /\ UNCHANGED <<life, cleared, found, leaked>> /\ UNCHANGED <<hasFin, hasDel, finalized, found>>
      /\ trash' = trash /\ stack' = stack /\ hasDel' = hasDel
  BY <1>1 DEF restVars, world, fixed, pastVars
<1>4. Top.obj = None /\ Top.holds = {}
  BY <1>2 DEF CollectorSound, Silent, Frame
<1>5. list \in [Nodes -> Lists] /\ gcRefs \in [Nodes -> Int] /\ refs \in [Nodes -> SUBSET Nodes]
  BY DEF TypeOK, HeapType
<1>6. \A m \in Nodes : \/ gcRefs[m] \in {GC_UNTRACKED, GC_REACHABLE}
                       \/ list[m] \in {"unreachable", "young"}
  BY DEF ListSound
<1> DEFINE told == {m \in refs[n] : m # n /\ gcRefs[m] \in {0, GC_TENTATIVELY_UNREACHABLE}}
<1>7. ASSUME gcRefs[n] > 0, MarkReachable(n)
      PROVE  IInv'
  <2>0. told \subseteq Nodes /\ n \notin told
    BY <1>5
  <2>1. /\ gcRefs' \in [Nodes -> Int] /\ list' \in [Nodes -> Lists]
        /\ gcRefs'[n] = GC_REACHABLE /\ list'[n] = list[n]
        /\ \A m \in told : gcRefs'[m] = 1 /\ list'[m] = "young"
        /\ \A m \in Nodes : m # n /\ m \notin told => gcRefs'[m] = gcRefs[m] /\ list'[m] = list[m]
    BY <1>7, <1>5 DEF MarkReachable, GC_REACHABLE, Lists
  <2>2. \A m \in told : list[m] \in {"unreachable", "young"} /\ m \in refs[n]
    BY <2>0, <1>6 DEF GC_UNTRACKED, GC_REACHABLE, GC_TENTATIVELY_UNREACHABLE
  <2> HIDE DEF told
  <2>3. /\ On("young")' = On("young") \cup told /\ On("unreachable")' = On("unreachable") \ told
        /\ Examined' = Examined
    <3>1. On("young")' = On("young") \cup told
      BY <2>0, <2>1, <1>2 DEF On
    <3>2. On("unreachable")' = On("unreachable") \ told
      BY <2>0, <2>1, <1>2 DEF On
    <3>3. told \subseteq Examined
      BY <2>0, <2>2 DEF Examined, On
    <3> QED BY <3>1, <3>2, <3>3 DEF Examined
  <2>4. TypeOK'
    <3>1. phase' \in Phases
      BY <1>2 DEF Phases
    <3> QED BY <3>1, <2>1, <1>1, <1>2, WalkRest
  <2>5. WalkMoves
    <3>1. \A m \in Nodes : list'[m] = "callbacks" <=> list[m] = "callbacks"
      BY <2>1, <2>2
    <3>2. \A m \in Nodes : list[m] = "none" => list'[m] = "none"
      BY <2>1, <2>2
    <3> QED BY <3>1, <3>2, <1>1, <1>2, <1>4 DEF WalkMoves, restVars
  <2>6. ListSound'
    <3>1. \A i \in DOMAIN stack : stack[i].do \in Deallocs \ {"dealloc"} =>
            list'[stack[i].obj] \notin {"unreachable", "finalizers"}
      <4>1. \A i \in DOMAIN stack : stack[i].do \in Deallocs \ {"dealloc"} => stack[i].obj \in Nodes
        BY FrameFacts
      <4>2. \A m \in Nodes : list'[m] \in {list[m], "young"}
        BY <2>1
      <4> QED BY <4>1, <4>2 DEF ListSound
    <3>2. \A m \in Nodes : list'[m] # "callbacks"
      BY <2>1, <1>2 DEF ListSound
    <3>3. ASSUME NEW m \in Nodes
          PROVE  \/ gcRefs'[m] \in {GC_UNTRACKED, GC_REACHABLE}
                 \/ list'[m] = "unreachable"
                 \/ list'[m] = "young"
      BY <2>1, <1>6
    <3>4. trash' = <<>>
      BY <1>2, <1>3 DEF ListSound, Ordered
    <3> QED BY <3>1, <3>2, <3>3, <3>4, <1>2, <1>3 DEF ListSound, Ordered
  <2>7. WalkSound'
    <3>0. /\ \A m \in Examined : refcnt[m] > 0
          /\ \A m \in On("young") : gcRefs[m] = GC_REACHABLE \/ gcRefs[m] >= 0
          /\ \A m \in On("unreachable") : gcRefs[m] = GC_TENTATIVELY_UNREACHABLE
          /\ \A m \in On("young") : gcRefs[m] # 0 => m \in Reach(Outside(Examined))
          /\ \A m \in Examined : gcRefs[m] \in {0, GC_TENTATIVELY_UNREACHABLE} => m \notin Outside(Examined)
          /\ \A x \in On("young"), m \in Examined :
               gcRefs[x] = GC_REACHABLE /\ m \in refs[x] => list[m] = "young" /\ gcRefs[m] # 0
      BY <1>2 DEF WalkSound
    <3>1. Outside(Examined)' = Outside(Examined) /\ Reach(Outside(Examined))' = Reach(Outside(Examined))
      <4>1. Outside(Examined)' = Outside(Examined)
        BY <2>3, <1>2 DEF Outside, From
      <4> QED BY <4>1, <1>2 DEF Reach, Closed
    <3>2. On("young") \subseteq Nodes /\ On("unreachable") \subseteq Nodes /\ Examined \subseteq Nodes
      BY DEF On, Examined
    <3>3. \A m \in On("young") \cup told : gcRefs'[m] = GC_REACHABLE \/ gcRefs'[m] >= 0
      BY <3>0, <3>2, <2>1
    <3>4. \A m \in On("unreachable") \ told : gcRefs'[m] = GC_TENTATIVELY_UNREACHABLE
      <4>1. n \notin On("unreachable")
        BY <1>2 DEF On
      <4> QED BY <4>1, <3>0, <3>2, <2>1
    <3>5. ASSUME NEW m \in On("young") \cup told, gcRefs'[m] # 0
          PROVE  m \in Reach(Outside(Examined))
      <4>1. n \in Reach(Outside(Examined))
        BY <3>0, <1>2, <1>7
      <4>2. m \in told => m \in Reach(Outside(Examined))
        BY <4>1, <2>0, <2>2, ReachStep
      <4>3. m \notin told /\ m # n => m \in Reach(Outside(Examined))
        BY <3>0, <3>2, <3>5, <2>1
      <4> QED BY <4>1, <4>2, <4>3
    <3>6. ASSUME NEW m \in Examined, gcRefs'[m] \in {0, GC_TENTATIVELY_UNREACHABLE}
          PROVE  m \notin Outside(Examined)
      <4>1. m # n /\ m \notin told
        BY <3>6, <2>1 DEF GC_REACHABLE, GC_TENTATIVELY_UNREACHABLE
      <4> QED BY <4>1, <3>0, <3>2, <3>6, <2>1
    <3>7. ASSUME NEW x \in On("young") \cup told, NEW m \in Examined,
                 gcRefs'[x] = GC_REACHABLE, m \in refs[x]
          PROVE  list'[m] = "young" /\ gcRefs'[m] # 0
      <4>0. m \in Nodes /\ (list[m] = "young" \/ list[m] = "unreachable") /\ list[n] = "young"
        BY <1>2 DEF Examined, On
      <4>1. CASE x = n
        <5>1. CASE m = n
          BY <5>1, <4>0, <2>1 DEF GC_REACHABLE
        <5>2. CASE m \in told
          BY <5>2, <2>1
        <5>3. CASE m # n /\ m \notin told
          <6>1. gcRefs[m] \notin {0, GC_TENTATIVELY_UNREACHABLE}
            BY <5>3, <4>1, <3>7 DEF told
          <6>2. list[m] = "young"
            BY <6>1, <4>0, <3>0 DEF On
          <6> QED BY <6>1, <6>2, <5>3, <4>0, <2>1
        <5> QED BY <5>1, <5>2, <5>3
      <4>2. CASE x # n
        <5>1. x \notin told
          BY <3>7, <2>1 DEF GC_REACHABLE
        <5>2. gcRefs[x] = GC_REACHABLE /\ x \in On("young")
          BY <5>1, <4>2, <3>2, <3>7, <2>1
        <5>3. list[m] = "young" /\ gcRefs[m] # 0
          BY <5>2, <3>0, <3>7
        <5>4. gcRefs'[m] \in {GC_REACHABLE, 1, gcRefs[m]} /\ list'[m] \in {list[m], "young"}
          BY <2>1, <4>0
        <5> QED BY <5>3, <5>4 DEF GC_REACHABLE
      <4> QED BY <4>1, <4>2
    <3> QED BY <3>0, <3>1, <3>3, <3>4, <3>5, <3>6, <3>7, <2>3, <1>2 DEF WalkSound
  <2>8. TrashSound'
    BY <1>2 DEF TrashSound
  <2>9. FinalizeSound' /\ DeleteSound'
    BY <1>2, <1>3, NotClearing, NotFinalizing
  <2> QED BY <1>3, <2>4, <2>5, <2>6, <2>7, <2>8, <2>9, WalkStep
<1>8. ASSUME gcRefs[n] = 0, gcRefs' = [gcRefs EXCEPT ![n] = GC_TENTATIVELY_UNREACHABLE],
             list' = [list EXCEPT ![n] = "unreachable"]
      PROVE  IInv'
  <2> HIDE DEF told
  <2>1. /\ gcRefs' \in [Nodes -> Int] /\ list' \in [Nodes -> Lists]
        /\ gcRefs'[n] = GC_TENTATIVELY_UNREACHABLE /\ list'[n] = "unreachable"
        /\ \A m \in Nodes : m # n => gcRefs'[m] = gcRefs[m] /\ list'[m] = list[m]
    BY <1>5, <1>8 DEF GC_TENTATIVELY_UNREACHABLE, Lists
  <2>3. /\ On("young")' = On("young") \ {n} /\ On("unreachable")' = On("unreachable") \cup {n}
        /\ Examined' = Examined
    <3>1. On("young")' = On("young") \ {n}
      BY <2>1 DEF On
    <3>2. On("unreachable")' = On("unreachable") \cup {n}
      BY <2>1 DEF On
    <3> QED BY <3>1, <3>2, <1>2 DEF Examined
  <2>4. TypeOK'
    <3>1. phase' \in Phases
      BY <1>2 DEF Phases
    <3> QED BY <3>1, <2>1, <1>1, <1>2, WalkRest
  <2>5. WalkMoves
    <3>0. list[n] = "young"
      BY <1>2 DEF On
    <3>1. \A m \in Nodes : list'[m] = "callbacks" <=> list[m] = "callbacks"
      BY <2>1, <3>0
    <3>2. \A m \in Nodes : list[m] = "none" => list'[m] = "none"
      BY <2>1, <3>0
    <3> QED BY <3>1, <3>2, <1>1, <1>2, <1>4 DEF WalkMoves, restVars
  <2>n. n \in Examined /\ n \notin Outside(Examined)
    <3>1. n \in Examined
      BY <1>2 DEF Examined
    <3> QED BY <3>1, <1>2, <1>8 DEF WalkSound
  <2>6. ListSound'
    <3>1. \A i \in DOMAIN stack : stack[i].do \in Deallocs \ {"dealloc"} =>
            list'[stack[i].obj] \notin {"unreachable", "finalizers"}
      <4>1. \A i \in DOMAIN stack : stack[i].do \in Deallocs \ {"dealloc"} =>
              stack[i].obj \in Nodes /\ stack[i].obj # n
        BY <2>n, <1>2, FrameFacts, NotLeaving
      <4> QED BY <4>1, <2>1 DEF ListSound
    <3>2. \A m \in Nodes : list'[m] # "callbacks"
      BY <2>1, <1>2 DEF ListSound
    <3>3. ASSUME NEW m \in Nodes
          PROVE  \/ gcRefs'[m] \in {GC_UNTRACKED, GC_REACHABLE}
                 \/ list'[m] = "unreachable"
                 \/ list'[m] = "young"
      BY <2>1, <1>6
    <3>4. trash' = <<>>
      BY <1>2, <1>3 DEF ListSound, Ordered
    <3> QED BY <3>1, <3>2, <3>3, <3>4, <1>2, <1>3 DEF ListSound, Ordered
  <2>7. WalkSound'
    <3>0. /\ \A m \in Examined : refcnt[m] > 0
          /\ \A m \in On("young") : gcRefs[m] = GC_REACHABLE \/ gcRefs[m] >= 0
          /\ \A m \in On("unreachable") : gcRefs[m] = GC_TENTATIVELY_UNREACHABLE
          /\ \A m \in On("young") : gcRefs[m] # 0 => m \in Reach(Outside(Examined))
          /\ \A m \in Examined : gcRefs[m] \in {0, GC_TENTATIVELY_UNREACHABLE} => m \notin Outside(Examined)
          /\ \A x \in On("young"), m \in Examined :
               gcRefs[x] = GC_REACHABLE /\ m \in refs[x] => list[m] = "young" /\ gcRefs[m] # 0
      BY <1>2 DEF WalkSound
    <3>1. Outside(Examined)' = Outside(Examined) /\ Reach(Outside(Examined))' = Reach(Outside(Examined))
      <4>1. Outside(Examined)' = Outside(Examined)
        BY <2>3, <1>2 DEF Outside, From
      <4> QED BY <4>1, <1>2 DEF Reach, Closed
    <3>2. On("young") \subseteq Nodes /\ On("unreachable") \subseteq Nodes /\ Examined \subseteq Nodes
      BY DEF On, Examined
    <3>3. \A m \in On("young") \ {n} : gcRefs'[m] = gcRefs[m]
      BY <3>2, <2>1
    <3>4. \A m \in On("unreachable") \cup {n} : gcRefs'[m] = GC_TENTATIVELY_UNREACHABLE
      BY <3>0, <3>2, <2>1
    <3>6. ASSUME NEW m \in Examined, gcRefs'[m] \in {0, GC_TENTATIVELY_UNREACHABLE}
          PROVE  m \notin Outside(Examined)
      BY <2>n, <3>0, <3>2, <3>6, <2>1
    <3>7. ASSUME NEW x \in On("young") \ {n}, NEW m \in Examined,
                 gcRefs'[x] = GC_REACHABLE, m \in refs[x]
          PROVE  list'[m] = "young" /\ gcRefs'[m] # 0
      <4>1. list[m] = "young" /\ gcRefs[m] # 0
        BY <3>0, <3>3, <3>7
      <4> QED BY <4>1, <3>2, <2>1, <1>8
    <3> QED BY <3>0, <3>1, <3>3, <3>4, <3>6, <3>7, <2>3, <1>2 DEF WalkSound
  <2>8. TrashSound'
    BY <1>2 DEF TrashSound
  <2>9. FinalizeSound' /\ DeleteSound'
    BY <1>2, <1>3, NotClearing, NotFinalizing
  <2> QED BY <1>3, <2>4, <2>5, <2>6, <2>7, <2>8, <2>9, WalkStep
<1> QED BY <1>2, <1>7, <1>8

LEMMA MergeYoungStep ==
  ASSUME IInv, MergeYoung
  PROVE  IInv'
<1> USE DEF IInv
<1>1. /\ Collector /\ phase = "move_unreachable" /\ phase' = "legacy" /\ Unscanned = {}
      /\ list' = [n \in Nodes |-> IF list[n] = "young" THEN "old" ELSE list[n]]
      /\ refs' = refs /\ refcnt' = refcnt /\ gcRefs' = gcRefs /\ UNCHANGED restVars
  BY DEF MergeYoung, merge_young
<1>2. /\ UNCHANGED <<life, cleared, found, leaked>> /\ UNCHANGED <<hasFin, hasDel, finalized, found>>
      /\ trash' = trash /\ stack' = stack /\ hasDel' = hasDel /\ roots' = roots
  BY <1>1 DEF restVars, world, fixed, pastVars
<1>3. Top.obj = None /\ Top.holds = {}
  BY <1>1 DEF CollectorSound, Silent, Frame
<1>4. /\ list' \in [Nodes -> Lists]
      /\ \A n \in Nodes : list'[n] = IF list[n] = "young" THEN "old" ELSE list[n]
  BY <1>1 DEF TypeOK, Lists
<1>5. On("unreachable")' = On("unreachable") /\ On("unreachable") \subseteq Nodes
  BY <1>4 DEF On
<1>6. TypeOK'
  <2>1. phase' \in Phases /\ gcRefs' \in [Nodes -> Int]
    BY <1>1 DEF TypeOK, Phases
  <2> QED BY <2>1, <1>1, <1>4, WalkRest
<1>7. WalkMoves
  <2>1. \A n \in Nodes : list'[n] = "callbacks" <=> list[n] = "callbacks"
    BY <1>4
  <2>2. \A n \in Nodes : list[n] = "none" => list'[n] = "none"
    BY <1>4
  <2> QED BY <2>1, <2>2, <1>1, <1>3 DEF WalkMoves, restVars
\* The walk has reached everything in young.
<1>8. \A n \in On("young") : gcRefs[n] = GC_REACHABLE
  BY <1>1 DEF WalkSound, Unscanned
<1>9. ListSound'
  <2>1. \A i \in DOMAIN stack : stack[i].do \in Deallocs \ {"dealloc"} =>
          list'[stack[i].obj] \notin {"unreachable", "finalizers"}
    <3>1. \A i \in DOMAIN stack : stack[i].do \in Deallocs \ {"dealloc"} => stack[i].obj \in Nodes
      BY FrameFacts
    <3> QED BY <3>1, <1>4 DEF ListSound
  <2>2. \A m \in Nodes : list'[m] # "callbacks"
    BY <1>1, <1>4 DEF ListSound
  <2>3. ASSUME NEW m \in Nodes
        PROVE  \/ gcRefs'[m] \in {GC_UNTRACKED, GC_REACHABLE}
               \/ list'[m] = "unreachable"
    <3>1. list[m] = "young" => gcRefs[m] = GC_REACHABLE
      BY <1>8 DEF On
    <3>2. gcRefs[m] \in {GC_UNTRACKED, GC_REACHABLE} \/ list[m] \in {"unreachable", "young"}
      BY DEF ListSound
    <3> QED BY <3>1, <3>2, <1>1, <1>4
  <2>4. trash' = <<>>
    BY <1>1, <1>2 DEF ListSound, Ordered
  <2> QED BY <2>1, <2>2, <2>3, <2>4, <1>1, <1>2 DEF ListSound, Ordered
<1>10. WalkSound'
  BY <1>1, NoWalkNext
<1>11. TrashSound'
  <2>1. ASSUME NEW n \in On("unreachable")
        PROVE  /\ From(Nodes, n) \subseteq On("unreachable") /\ n \notin roots
               /\ \A i \in DOMAIN stack :
                    n \notin stack[i].holds /\ (stack[i].do \in Deallocs => stack[i].obj # n)
               /\ gcRefs[n] = GC_TENTATIVELY_UNREACHABLE
    <3>1. n \in Examined /\ n \in Nodes /\ Examined \subseteq Nodes /\ list[n] = "unreachable"
      BY DEF Examined, On
    <3>2. gcRefs[n] = GC_TENTATIVELY_UNREACHABLE /\ n \notin Outside(Examined)
      BY <3>1, <1>1 DEF WalkSound
    <3>3. Inside(Examined, n)
      <4>1. Cardinality(From(Examined, n)) \in Nat /\ refcnt[n] \in Nat
        BY <3>1, CountedAtLeast DEF TypeOK, HeapType
      <4>2. refcnt[n] <= Cardinality(From(Examined, n))
        BY <3>1, <3>2, <4>1 DEF Outside
      <4> QED BY <4>2, <3>1, CountedInside
    <3>4. ASSUME NEW m \in From(Nodes, n) PROVE m \in On("unreachable")
      <4>1. m \in Examined /\ n \in refs[m]
        BY <3>3 DEF Inside, From
      <4>2. m \notin On("young")
        BY <4>1, <3>1, <1>1, <1>8 DEF WalkSound
      <4> QED BY <4>1, <4>2 DEF Examined
    <3>5. \A i \in DOMAIN stack : stack[i].do \in Deallocs => stack[i].obj # n
      BY <3>1, <3>2, <1>1, NotLeaving
    <3> QED BY <3>2, <3>3, <3>4, <3>5 DEF Inside
  <2>2. Sealed(On("unreachable"))'
    <3> QED BY <2>1, <1>1, <1>2, <1>5 DEF Sealed, From
  <2>3. \A i \in DOMAIN stack :
          /\ stack[i].holds \cap On("unreachable") = {}
          /\ stack[i].do \in Deallocs => stack[i].obj \notin On("unreachable")
    BY <2>1
  <2>4. \A n \in On("unreachable") : gcRefs[n] = GC_TENTATIVELY_UNREACHABLE
    BY <2>1
  <2> QED BY <2>2, <2>3, <2>4, <1>1, <1>2, <1>5 DEF TrashSound
<1>12. FinalizeSound' /\ DeleteSound'
  BY <1>1, <1>2, NotClearing, NotFinalizing
<1> QED BY <1>2, <1>6, <1>7, <1>9, <1>10, <1>11, <1>12, WalkStep

\* A finite set in some order.
LEMMA OrderFacts ==
  ASSUME NEW S \in SUBSET Nodes, NEW t \in SetToSeqs(S)
  PROVE  t \in Seq(Nodes) /\ IsInjective(t) /\ Range(t) = S
<1> DEFINE D == 1..Cardinality(S)
<1>1. IsFiniteSet(S) /\ Cardinality(S) \in Nat
  BY FiniteNodes, FS_Subset, FS_CardinalityType
<1>2. t \in [D -> S] /\ \A i, j \in D : i # j => t[i] # t[j]
  BY DEF SetToSeqs
<1>3. DOMAIN t = D /\ IsInjective(t)
  BY <1>2 DEF IsInjective
<1>4. t \in Injection(D, S)
  BY <1>2, <1>3 DEF Injection
<1>5. Cardinality(D) = Cardinality(S)
  BY <1>1, FS_Interval
<1> HIDE DEF D
<1>6. t \in Surjection(D, S)
  BY <1>1, <1>4, <1>5, FS_Injection
<1>7. Range(t) = S
  BY <1>2, <1>3, <1>6 DEF Surjection, Range
<1>8. t \in Seq(Nodes)
  <2>1. t \in [D -> Nodes]
    BY <1>2
  <2> QED BY <2>1, <1>1, SeqDef DEF D
<1> QED BY <1>3, <1>7, <1>8

LEMMA MoveLegacyFinalizersStep ==
  ASSUME IInv, MoveLegacyFinalizers
  PROVE  IInv'
<1> USE DEF IInv
<1> DEFINE U == On("unreachable")
           kept == U \cap Reach(U \cap hasDel)
<1>1. /\ Collector /\ phase = "legacy" /\ phase' = "weakrefs"
      /\ list' = [n \in Nodes |-> IF n \in kept THEN "finalizers" ELSE list[n]]
      /\ gcRefs' = [n \in Nodes |-> IF n \in kept THEN GC_REACHABLE ELSE gcRefs[n]]
      /\ trash' \in SetToSeqs(U \ kept)
      /\ refs' = refs /\ refcnt' = refcnt /\ finalized' = finalized /\ cursor' = cursor /\ stack' = stack
      /\ UNCHANGED <<callVars, pastVars, world, weakVars>>
  BY DEF MoveLegacyFinalizers
<1>2. /\ UNCHANGED <<life, cleared, found, leaked>> /\ UNCHANGED <<hasFin, hasDel, finalized, found>>
      /\ hasDel' = hasDel /\ roots' = roots
  BY <1>1 DEF world, fixed, pastVars
<1>3. Top.obj = None /\ Top.holds = {}
  BY <1>1 DEF CollectorSound, Silent, Frame
<1>k. U \subseteq Nodes /\ kept \subseteq U /\ \A n \in U : n \in Nodes /\ list[n] = "unreachable"
  BY DEF On
<1>m. \A n \in U \ kept : n \notin hasDel
  BY <1>k, ReachBase
<1>s. /\ Sealed(U)
      /\ \A i \in DOMAIN stack :
           stack[i].holds \cap U = {} /\ (stack[i].do \in Deallocs => stack[i].obj \notin U)
      /\ \A n \in U : gcRefs[n] = GC_TENTATIVELY_UNREACHABLE
  BY <1>1 DEF TrashSound
\* Nothing that is kept refers to what is not.
<1>c. \A n \in U \ kept : From(Nodes, n) \subseteq U \ kept
  <2> SUFFICES ASSUME NEW n \in U \ kept, NEW m \in From(Nodes, n) PROVE m \in U \ kept
    OBVIOUS
  <2>1. m \in U /\ n \in refs[m] /\ n \in Nodes
    BY <1>s, <1>k DEF Sealed, From
  <2>2. m \notin kept
    BY <2>1, ReachStep
  <2> QED BY <2>1, <2>2
<1>l. trash' \in Seq(Nodes) /\ IsInjective(trash') /\ Range(trash') = U \ kept
  BY <1>1, <1>k, OrderFacts
<1> HIDE DEF kept
<1>4. /\ list' \in [Nodes -> Lists] /\ gcRefs' \in [Nodes -> Int]
      /\ \A n \in Nodes : n \in kept => list'[n] = "finalizers" /\ gcRefs'[n] = GC_REACHABLE
      /\ \A n \in Nodes : n \notin kept => list'[n] = list[n] /\ gcRefs'[n] = gcRefs[n]
  BY <1>1 DEF TypeOK, Lists, GC_REACHABLE
<1>5. On("unreachable")' = U \ kept
  BY <1>4, <1>k DEF On
<1> HIDE DEF U
<1>6. TypeOK'
  <2>1. phase' \in Phases
    BY <1>1 DEF Phases
  <2> QED BY <2>1, <1>1, <1>4, <1>l DEF TypeOK, HeapType, world, fixed, weakVars, callVars, pastVars
<1>7. WalkMoves
  <2>1. \A n \in Nodes : list'[n] = "callbacks" <=> list[n] = "callbacks"
    BY <1>4, <1>k
  <2>2. \A n \in Nodes : list[n] = "none" => list'[n] = "none"
    BY <1>4, <1>k
  <2> QED BY <2>1, <2>2, <1>1, <1>3 DEF WalkMoves
<1>9. ListSound'
  <2>1. \A i \in DOMAIN stack : stack[i].do \in Deallocs \ {"dealloc"} =>
          list'[stack[i].obj] \notin {"unreachable", "finalizers"}
    <3>1. \A i \in DOMAIN stack : stack[i].do \in Deallocs \ {"dealloc"} =>
            stack[i].obj \in Nodes /\ stack[i].obj \notin kept
      BY <1>s, <1>k, FrameFacts
    <3> QED BY <3>1, <1>4 DEF ListSound
  <2>2. \A m \in Nodes : list'[m] # "callbacks"
    BY <1>1, <1>4 DEF ListSound
  <2>3. ASSUME NEW m \in Nodes
        PROVE  \/ gcRefs'[m] \in {GC_UNTRACKED, GC_REACHABLE}
               \/ list'[m] = "unreachable"
    <3>1. gcRefs[m] \in {GC_UNTRACKED, GC_REACHABLE} \/ list[m] = "unreachable"
      BY <1>1 DEF ListSound
    <3> QED BY <3>1, <1>4
  <2>4. Collectable' = On("unreachable")' /\ IsInjective(trash')
    BY <1>l, <1>5 DEF Collectable
  <2>5. On("unreachable")' \cap hasDel = {}
    BY <1>m, <1>5
  <2> QED BY <2>1, <2>2, <2>3, <2>4, <2>5, <1>1, <1>2 DEF ListSound, Ordered
<1>10. WalkSound'
  BY <1>1, NoWalkNext
<1>11. TrashSound'
  <2>1. \A n \in U \ kept :
          /\ From(Nodes, n) \subseteq U \ kept
          /\ n \notin roots
          /\ \A i \in DOMAIN stack : stack[i].do # "dealloc.callbacks" => n \notin stack[i].holds
    BY <1>s, <1>c DEF Sealed
  <2>2. Sealed(On("unreachable"))'
    BY <2>1, <1>1, <1>2, <1>5 DEF Sealed, From
  <2>3. \A i \in DOMAIN stack :
          /\ stack[i].holds \cap (U \ kept) = {}
          /\ stack[i].do \in Deallocs => stack[i].obj \notin U \ kept
    BY <1>s
  <2>4. \A n \in U \ kept : gcRefs'[n] = GC_TENTATIVELY_UNREACHABLE
    BY <1>s, <1>4, <1>k
  <2> QED BY <2>2, <2>3, <2>4, <1>1, <1>5 DEF TrashSound
<1>12. FinalizeSound' /\ DeleteSound'
  BY <1>1, <1>2, NotClearing, NotFinalizing
<1> QED BY <1>2, <1>6, <1>7, <1>9, <1>10, <1>11, <1>12, WalkStep

LEMMA DeleteDoneStep ==
  ASSUME IInv, DeleteDone
  PROVE  IInv'
<1> USE DEF IInv
<1>1. /\ Collector /\ phase = "delete" /\ phase' = "done" /\ Top.obj = None /\ trash = <<>>
      /\ refs' = refs /\ refcnt' = refcnt /\ list' = list /\ gcRefs' = gcRefs /\ UNCHANGED restVars
  BY DEF DeleteDone
<1>2. /\ UNCHANGED <<life, cleared, found, leaked>> /\ UNCHANGED <<hasFin, hasDel, finalized, found>>
      /\ trash' = trash /\ stack' = stack /\ hasDel' = hasDel /\ roots' = roots
  BY <1>1 DEF restVars, world, fixed, pastVars
<1>3. /\ Len(stack) \in Nat \ {0} /\ DOMAIN stack = 1..Len(stack) /\ Len(stack) \in DOMAIN stack
      /\ Top = stack[Len(stack)] /\ Top.do = "gc" /\ Top.holds \subseteq Weakrefs
      /\ \A i \in DOMAIN stack : stack[i].do # "gc.clear"
  BY <1>1, CollectorFacts
<1>4. Top.holds = {}
  BY <1>1, <1>3 DEF CollectorSound
<1>5. TypeOK'
  <2>1. phase' \in Phases /\ gcRefs' \in [Nodes -> Int] /\ list' \in [Nodes -> Lists]
    BY <1>1 DEF TypeOK, Phases
  <2> QED BY <2>1, <1>1, WalkRest
<1>6. WalkMoves
  BY <1>1, <1>4 DEF WalkMoves, restVars
<1>7. Collectable = {} /\ On("unreachable") = {}
  BY <1>1 DEF ListSound, Ordered, Collectable, Range
<1>8. ListSound'
  BY <1>1, <1>2, <1>7 DEF ListSound, On, Ordered, Collectable
<1>9. WalkSound' /\ TrashSound'
  BY <1>1, NoWalkNext DEF TrashSound
<1>10. FinalizeSound'
  BY <1>1, <1>2, NotFinalizing
\* What was to be cleared is gone: nothing refers to it any more.
<1>11. ASSUME ~leaked, NEW n \in found PROVE life[n] = "dead"
  <2>1. /\ Sealed(found)
        /\ \A i, j \in DOMAIN stack : stack[j].do = "gc" =>
             /\ stack[i].holds \cap found # {} => i > j
             /\ stack[i].do \in Deallocs /\ stack[i].obj \in found => i > j
        /\ \A m \in found : refs[m] = {} \/ \E i \in DOMAIN stack : stack[i].do \in Dying /\ stack[i].obj = m
    BY <1>1, <1>7, <1>11 DEF DeleteSound, FoundSealed
  <2>2. \A i \in DOMAIN stack :
          /\ stack[i].holds \cap found = {}
          /\ stack[i].do \in Deallocs => stack[i].obj \notin found
    <3>1. \A i \in DOMAIN stack : ~(i > Len(stack))
      BY <1>3
    <3> QED BY <3>1, <2>1, <1>3
  <2>3. \A m \in found : refs[m] = {}
    BY <2>1, <2>2 DEF Deallocs
  <2>4. n \in Nodes
    BY DEF TypeOK
  <2>5. Inside({}, n)
    <3>1. From(Nodes, n) = {}
      BY <2>1, <2>3 DEF Sealed, From
    <3>2. \A i \in DOMAIN stack : n \notin stack[i].holds /\ (stack[i].obj = n => stack[i].do \notin Keepers)
      BY <2>2, <1>3 DEF Keepers, Deallocs, Bracketed
    <3> QED BY <3>1, <3>2, <2>1 DEF Inside, Sealed
  <2>6. refcnt[n] = 0
    <3>1. refcnt[n] = Cardinality(From({}, n))
      BY <2>4, <2>5, <1>1, InsideCounted
    <3>2. From({}, n) = {}
      BY DEF From
    <3> QED BY <3>1, <3>2, FS_EmptySet
  <2>7. life[n] # "live"
    BY <2>2, <2>4, <2>6 DEF LifeSound, ZeroLeaves
  <2>8. life[n] # "new"
    BY DEF DeleteSound, FoundSound
  <2> QED BY <2>4, <2>7, <2>8 DEF TypeOK, HeapType
<1>12. DeleteSound'
  <2>1. FoundSound'
    BY <1>1, <1>2 DEF DeleteSound, FoundSound
  <2>2. ClearedSound'
    BY <1>1, <1>2, <1>11 DEF DeleteSound, ClearedSound
  <2>3. FoundSealed'
    BY <1>1 DEF FoundSealed
  <2> QED BY <2>1, <2>2, <2>3 DEF DeleteSound
<1> QED BY <1>2, <1>5, <1>6, <1>8, <1>9, <1>10, <1>12, WalkStep

LEMMA CallbacksDoneStep ==
  ASSUME IInv, CallbacksDone
  PROVE  IInv'
<1> USE DEF IInv
<1>1. /\ Collector /\ phase = "callbacks" /\ phase' = "finalize" /\ cursor' = None
      /\ Top.obj = None /\ On("callbacks") = {}
      /\ refs' = refs /\ refcnt' = refcnt /\ finalized' = finalized /\ stack' = stack
      /\ UNCHANGED <<callVars, pastVars, world, listVars, weakVars>>
  BY DEF CallbacksDone
<1>2. /\ UNCHANGED <<life, cleared, found, leaked>> /\ UNCHANGED <<hasFin, hasDel, finalized, found>>
      /\ trash' = trash /\ hasDel' = hasDel /\ list' = list /\ gcRefs' = gcRefs
  BY <1>1 DEF world, fixed, pastVars, listVars
<1>3. /\ Len(stack) \in DOMAIN stack /\ Top = stack[Len(stack)] /\ Top.do = "gc" /\ Top.holds \subseteq Weakrefs
  BY <1>1, CollectorFacts
<1>4. Top.holds = {}
  <2>1. \A w \in Top.holds : list[w] = "callbacks" /\ w \in Nodes
    BY <1>3, NodeKinds DEF CollectorSound
  <2> QED BY <2>1, <1>1 DEF On
<1>5. TypeOK'
  <2>1. phase' \in Phases
    BY <1>1 DEF Phases
  <2> QED BY <2>1, <1>1, <1>2 DEF TypeOK, HeapType, world, fixed, weakVars, callVars, pastVars
<1>6. WalkMoves
  BY <1>1, <1>2, <1>4 DEF WalkMoves
<1>8. ListSound'
  <2>1. \A m \in Nodes : list[m] # "callbacks"
    BY <1>1 DEF On
  <2> QED BY <2>1, <1>1, <1>2 DEF ListSound, On, Ordered, Collectable
<1>9. WalkSound' /\ TrashSound'
  BY <1>1, NoWalkNext DEF TrashSound
<1>10. FinalizeSound'
  <2>1. \A j \in DOMAIN trash : trash[j] # None
    BY LenProperties, NoneIsNoNode DEF TypeOK
  <2> QED BY <2>1, <1>1, <1>2 DEF FinalizeSound
<1>11. DeleteSound'
  BY <1>1, <1>2, NotClearing
<1> QED BY <1>2, <1>5, <1>6, <1>8, <1>9, <1>10, <1>11, WalkStep

LEMMA CheckGarbageStep ==
  ASSUME IInv, CheckGarbage
  PROVE  IInv'
<1> USE DEF IInv
<1> DEFINE U == On("unreachable")
           revived == \E n \in Collectable : Subtract("unreachable")[n] # 0
<1>1. /\ Collector /\ phase = "finalize" /\ Top.obj = None
      /\ CursorOnList /\ IndexOf(cursor) = Len(trash)
      /\ refs' = refs /\ refcnt' = refcnt /\ finalized' = finalized /\ stack' = stack /\ cursor' = None
      /\ cleared' = cleared /\ leaked' = leaked /\ woken' = woken
      /\ UNCHANGED <<callVars, world, weakVars>>
      /\ IF revived
           THEN /\ gcRefs' = [n \in Nodes |-> IF n \in Collectable THEN GC_REACHABLE ELSE gcRefs[n]]
                /\ list' = [n \in Nodes |-> IF n \in Collectable THEN "old" ELSE list[n]]
                /\ trash' = <<>> /\ found' = found /\ phase' = "done"
           ELSE /\ gcRefs' = Subtract("unreachable") /\ found' = Collectable /\ phase' = "delete"
                /\ list' = list /\ trash' = trash
  BY DEF CheckGarbage
<1>2. /\ UNCHANGED <<hasFin, hasDel, finalized>> /\ hasDel' = hasDel /\ life' = life /\ roots' = roots
  BY <1>1 DEF world, fixed
<1>3. /\ Len(stack) \in DOMAIN stack /\ Top = stack[Len(stack)] /\ Top.do = "gc" /\ Top.holds \subseteq Weakrefs
      /\ \A i \in DOMAIN stack : stack[i].do = "gc" => i = Len(stack)
  BY <1>1, CollectorFacts
<1>4. Top.holds = {}
  BY <1>1, <1>3 DEF CollectorSound
<1>5. /\ Collectable = U /\ IsInjective(trash) /\ U \cap hasDel = {} /\ U \subseteq Nodes
      /\ \A n \in U : n \in Nodes /\ list[n] = "unreachable"
  BY <1>1 DEF ListSound, Ordered, On
<1>6. found = {}
  BY <1>1 DEF DeleteSound, FoundSound
<1>c. ~leaked => \A n \in cleared : life[n] = "dead"
  BY <1>1 DEF DeleteSound, ClearedSound
<1>i. list \in [Nodes -> Lists] /\ gcRefs \in [Nodes -> Int]
  BY DEF TypeOK
<1> HIDE DEF revived, U
<1>7. CASE revived
  <2>1. /\ gcRefs' = [n \in Nodes |-> IF n \in U THEN GC_REACHABLE ELSE gcRefs[n]]
        /\ list' = [n \in Nodes |-> IF n \in U THEN "old" ELSE list[n]]
        /\ trash' = <<>> /\ found' = found /\ phase' = "done"
    BY <1>1, <1>5, <1>7
  <2>2. /\ gcRefs' \in [Nodes -> Int] /\ list' \in [Nodes -> Lists]
        /\ \A n \in Nodes : n \in U => gcRefs'[n] = GC_REACHABLE /\ list'[n] = "old"
        /\ \A n \in Nodes : n \notin U => gcRefs'[n] = gcRefs[n] /\ list'[n] = list[n]
    BY <2>1, <1>i DEF Lists, GC_REACHABLE
  <2>3. TypeOK'
    <3>1. phase' \in Phases /\ trash' \in Seq(Nodes) /\ cursor' \in Nodes \cup {None}
      BY <1>1, <2>1, EmptySeq DEF Phases
    <3> QED BY <3>1, <2>1, <2>2, <1>1 DEF TypeOK, HeapType, world, fixed, weakVars, callVars
  <2>4. WalkMoves
    <3>1. \A n \in Nodes : list'[n] = "callbacks" <=> list[n] = "callbacks"
      BY <2>2, <1>5
    <3>2. \A n \in Nodes : list[n] = "none" => list'[n] = "none"
      BY <2>2, <1>5
    <3> QED BY <3>1, <3>2, <2>1, <1>1, <1>4 DEF WalkMoves
  <2>5. ListSound'
    <3>1. \A i \in DOMAIN stack : stack[i].do \in Deallocs \ {"dealloc"} =>
            list'[stack[i].obj] \notin {"unreachable", "finalizers"}
      <4>1. \A i \in DOMAIN stack : stack[i].do \in Deallocs \ {"dealloc"} => stack[i].obj \in Nodes
        BY FrameFacts
      <4> QED BY <4>1, <2>2 DEF ListSound
    <3>2. \A m \in Nodes : list'[m] # "callbacks"
      BY <1>1, <2>2 DEF ListSound
    <3>3. On("unreachable")' = {}
      <4>1. \A m \in Nodes : list[m] = "unreachable" => m \in U
        BY DEF U, On
      <4> QED BY <4>1, <2>2 DEF On
    <3>4. ASSUME NEW m \in Nodes PROVE gcRefs'[m] \in {GC_UNTRACKED, GC_REACHABLE}
      <4>1. gcRefs[m] \in {GC_UNTRACKED, GC_REACHABLE} \/ list[m] = "unreachable"
        BY <1>1 DEF ListSound
      <4>2. list[m] = "unreachable" => m \in U
        BY DEF U, On
      <4> QED BY <4>1, <4>2, <2>2
    <3> QED BY <3>1, <3>2, <3>3, <3>4, <2>1, <1>1 DEF ListSound, Ordered
  <2>6. WalkSound' /\ TrashSound'
    BY <2>1, NoWalkNext DEF TrashSound
  <2>7. FinalizeSound'
    BY <2>1, <1>2, NotFinalizing
  <2>8. DeleteSound'
    <3>1. FoundSound'
      BY <2>1, <1>6 DEF FoundSound
    <3>2. ClearedSound'
      BY <2>1, <1>1, <1>2, <1>6, <1>c DEF ClearedSound
    <3>3. FoundSealed'
      BY <2>1 DEF FoundSealed
    <3> QED BY <3>1, <3>2, <3>3 DEF DeleteSound
  <2> QED BY <1>2, <2>3, <2>4, <2>5, <2>6, <2>7, <2>8, WalkStep
<1>8. CASE ~revived
  <2>1. /\ gcRefs' = Subtract("unreachable") /\ found' = U /\ phase' = "delete"
        /\ list' = list /\ trash' = trash
    BY <1>1, <1>5, <1>8
  <2>2. \A n \in Nodes : refcnt[n] \in Nat /\ Cardinality(From(U, n)) \in Nat
    BY <1>5, CountedAtLeast DEF TypeOK, HeapType
  <2>3. /\ gcRefs' \in [Nodes -> Int]
        /\ \A n \in Nodes : gcRefs'[n] = IF n \in U THEN refcnt[n] - Cardinality(From(U, n)) ELSE gcRefs[n]
    BY <2>1, <2>2, <1>i DEF Subtract, U
\* The second look: the trash refers to itself, and nothing else does.
  <2>4. ASSUME NEW n \in U
        PROVE  /\ Inside(U, n)
               /\ \A i \in DOMAIN stack : stack[i].do \in Deallocs => stack[i].obj # n
    <3>1. gcRefs'[n] = 0
      BY <2>1, <1>5, <1>8 DEF revived
    <3>2. refcnt[n] <= Cardinality(From(U, n))
      BY <3>1, <2>2, <2>3, <1>5
    <3>3. Inside(U, n)
      BY <3>2, <1>5, CountedInside
    <3>4. ASSUME NEW i \in DOMAIN stack, stack[i].do \in Deallocs PROVE stack[i].obj # n
      <4>1. stack[i].do # "dealloc"
        BY <1>3 DEF StackSound
      <4>2. list[stack[i].obj] # "unreachable"
        BY <4>1, <3>4 DEF ListSound
      <4> QED BY <4>2, <1>5
    <3> QED BY <3>3, <3>4
  <2>5. TypeOK'
    <3>1. phase' \in Phases /\ cursor' \in Nodes \cup {None} /\ found' \in SUBSET Nodes
      BY <1>1, <2>1, <1>5 DEF Phases
    <3> QED BY <3>1, <2>1, <2>3, <1>1 DEF TypeOK, HeapType, world, fixed, weakVars, callVars
  <2>6. WalkMoves
    BY <2>1, <1>1, <1>4 DEF WalkMoves
  <2>7. ListSound'
    <3>1. ASSUME NEW m \in Nodes
          PROVE  gcRefs'[m] \in {GC_UNTRACKED, GC_REACHABLE} \/ list'[m] = "unreachable"
      <4>1. gcRefs[m] \in {GC_UNTRACKED, GC_REACHABLE} \/ list[m] = "unreachable"
        BY <1>1 DEF ListSound
      <4> QED BY <4>1, <2>1, <2>3, <1>5
    <3>2. Collectable' = Collectable /\ On("unreachable")' = On("unreachable")
      BY <2>1 DEF Collectable, On
    <3> QED BY <3>1, <3>2, <2>1, <1>1, <1>2 DEF ListSound, Ordered
  <2>8. WalkSound' /\ TrashSound'
    BY <2>1, NoWalkNext DEF TrashSound
  <2>9. FinalizeSound'
    <3>1. ASSUME NEW n \in U \cap hasFin PROVE n \in finalized
      <4>1. PICK i \in DOMAIN trash : trash[i] = n
        BY <1>5 DEF Collectable, Range
      <4>2. DOMAIN trash = 1..Len(trash) /\ Len(trash) \in Nat /\ i \in 1..Len(trash)
        BY <4>1, LenProperties DEF TypeOK
      <4>3. cursor \in Collectable
        BY <4>2, <1>1 DEF CursorOnList, IndexOf
      <4>4. PICK k \in DOMAIN trash : trash[k] = cursor
        BY <4>3 DEF Collectable, Range
      <4>5. k = Len(trash)
        BY <4>4, <1>1, <1>5, IndexFacts
      <4>6. i <= k
        BY <4>2, <4>5
      <4> QED BY <4>1, <4>4, <4>6, <1>1 DEF FinalizeSound
    <3> QED BY <3>1, <2>1, <1>2, <1>5 DEF FinalizeSound
  <2>10. DeleteSound'
    <3>1. FoundSound'
      <4>1. Collectable' = U
        BY <2>1, <1>5 DEF Collectable
      <4>2. \A n \in U : life[n] # "new"
        BY <1>5 DEF LifeSound, NotLive
      <4>3. \A i \in DOMAIN stack : stack[i].do \in Bracketed => stack[i].obj \notin U
        BY <2>4 DEF Deallocs
      <4> QED BY <4>1, <4>2, <4>3, <2>1, <1>1, <1>2 DEF FoundSound
    <3>2. ClearedSound'
      BY <2>1, <1>1, <1>2, <1>c DEF ClearedSound
    <3>3. FoundSealed'
      <4>1. Sealed(found)'
        <5>1. \A n \in U :
                /\ From(Nodes, n) \subseteq U
                /\ n \notin roots
                /\ \A i \in DOMAIN stack : stack[i].do # "dealloc.callbacks" => n \notin stack[i].holds
          BY <2>4 DEF Inside
        <5> QED BY <5>1, <2>1, <1>1, <1>2 DEF Sealed, From
      <4>2. \A i \in DOMAIN stack :
              /\ stack[i].holds \cap U = {}
              /\ stack[i].do \in Deallocs => stack[i].obj \notin U
        BY <2>4 DEF Inside
      <4>3. \A j \in DOMAIN stack : stack[j].do = "gc" => stack[j].obj = None
        BY <1>1, <1>3
      <4>4. Collectable' = found'
        BY <2>1, <1>5 DEF Collectable
      <4> QED BY <4>1, <4>2, <4>3, <4>4, <2>1, <1>1 DEF FoundSealed
    <3> QED BY <3>1, <3>2, <3>3 DEF DeleteSound
  <2> QED BY <1>2, <2>5, <2>6, <2>7, <2>8, <2>9, <2>10, WalkStep
<1> QED BY <1>7, <1>8

\* Those that go on with the frame g, and may have a call, f, above it.
CollectorMoves(g, f) ==
  /\ Collector /\ g \in FrameSet /\ f \in FrameSet /\ Pushed(g, f) /\ g.do = "gc"
  /\ f.do = "python" \/ (f.do = "gc.clear" /\ f.obj = g.obj /\ phase' = "delete")
  /\ phase' \in {"callbacks", "finalize", "delete"}
  /\ refs' = refs /\ life' = life /\ hasDel' = hasDel
  /\ \A n \in Nodes : refcnt'[n] = refcnt[n] \/ (refcnt[n] > 0 /\ refcnt'[n] > 0)
  /\ \A w \in Weakrefs : target'[w] = target[w] \/ target'[w] = None
  /\ \A n \in Nodes : list[n] = "none" => list'[n] = "none" \/ (n \in Weakrefs /\ target[n] # None)
  /\ g.holds # {} => phase' = "callbacks"
  /\ \A w \in g.holds : list'[w] = "callbacks"
  /\ g.obj # None =>
       /\ phase' = "callbacks" => g.obj \in Weakrefs
       /\ phase' = "finalize" => g.obj = cursor' /\ cursor' \in Collectable'
       /\ phase' = "delete" => g.obj \in found'

\* The frames then: those of tp_dealloc's stay as they are.
LEMMA CollectorFrames ==
  ASSUME TypeOK, StackSound, CollectorSound, NEW g, NEW f, CollectorMoves(g, f)
  PROVE  /\ Len(stack) \in Nat \ {0} /\ Len(stack) > 1 /\ DOMAIN stack = 1..Len(stack)
         /\ Len(stack) \in DOMAIN stack /\ Top = stack[Len(stack)] /\ Top.do = "gc"
         /\ \A i \in DOMAIN stack : stack[i].do = "gc" => i = Len(stack)
         /\ \A i \in DOMAIN stack : stack[i].do # "gc.clear"
         /\ Len(stack') \in Nat \ {0} /\ DOMAIN stack' = 1..Len(stack')
         /\ \A i \in DOMAIN stack : i \in DOMAIN stack' /\ (i # Len(stack) => stack'[i] = stack[i])
         /\ stack'[Len(stack)] = g
         /\ \A i \in DOMAIN stack' : i \notin DOMAIN stack =>
              i = Len(stack) + 1 /\ i = Len(stack') /\ stack'[i] = f
         /\ \A i \in DOMAIN stack' : stack'[i].do \in Deallocs => i \in DOMAIN stack /\ stack'[i] = stack[i]
         /\ \A i \in DOMAIN stack : stack[i].do \in Deallocs =>
              i \in DOMAIN stack' /\ stack'[i] = stack[i] /\ stack[i].obj \in Nodes
         /\ \A i \in DOMAIN stack' : stack'[i].do = "gc" => i = Len(stack)
<1>1. /\ Collector /\ g \in FrameSet /\ f \in FrameSet /\ Pushed(g, f) /\ g.do = "gc"
      /\ f.do = "python" \/ f.do = "gc.clear"
  BY DEF CollectorMoves
<1>2. /\ Len(stack) \in Nat \ {0} /\ Len(stack) > 1 /\ DOMAIN stack = 1..Len(stack)
      /\ Len(stack) \in DOMAIN stack /\ Top = stack[Len(stack)] /\ Top.do = "gc"
      /\ \A i \in DOMAIN stack : stack[i].do = "gc" => i = Len(stack)
      /\ \A i \in DOMAIN stack : stack[i].do # "gc.clear"
  BY <1>1, CollectorFacts
<1>3. /\ Len(stack') \in Nat \ {0} /\ DOMAIN stack' = 1..Len(stack')
      /\ \A i \in DOMAIN stack : i \in DOMAIN stack' /\ (i # Len(stack) => stack'[i] = stack[i])
      /\ stack'[Len(stack)] = g
      /\ \A i \in DOMAIN stack' : i \notin DOMAIN stack =>
           i = Len(stack) + 1 /\ i = Len(stack') /\ stack'[i] = f
  BY <1>1, PushedFacts
<1>4. \A i \in DOMAIN stack' : stack'[i].do \in Deallocs =>
        i \in DOMAIN stack /\ stack'[i] = stack[i]
  <2>1. g.do \notin Deallocs /\ f.do \notin Deallocs
    BY <1>1 DEF Deallocs, Dying, Bracketed
  <2> QED BY <2>1, <1>3
<1>5. \A i \in DOMAIN stack : stack[i].do \in Deallocs =>
        i \in DOMAIN stack' /\ stack'[i] = stack[i] /\ stack[i].obj \in Nodes
  <2>1. \A i \in DOMAIN stack : stack[i].do \in Deallocs => i # Len(stack)
    BY <1>2 DEF Deallocs, Dying, Bracketed
  <2> QED BY <2>1, <1>3, FrameFacts
<1>6. \A i \in DOMAIN stack' : stack'[i].do = "gc" => i = Len(stack)
  <2>1. ASSUME NEW i \in DOMAIN stack', stack'[i].do = "gc" PROVE i = Len(stack)
    BY <2>1, <1>1, <1>2, <1>3
  <2> QED BY <2>1
<1> QED BY <1>2, <1>3, <1>4, <1>5, <1>6

LEMMA CollectorStep ==
  ASSUME IInv, NEW g, NEW f, CollectorMoves(g, f), TypeOK', CountsTrue', ListSound', TrashSound',
         FinalizeSound', DeleteSound', CallsSound'
  PROVE  IInv'
<1> USE DEF IInv
<1>1. /\ Collector /\ g \in FrameSet /\ f \in FrameSet /\ Pushed(g, f) /\ g.do = "gc"
      /\ f.do = "python" \/ (f.do = "gc.clear" /\ f.obj = g.obj /\ phase' = "delete")
      /\ phase' \in {"callbacks", "finalize", "delete"}
      /\ refs' = refs /\ life' = life /\ hasDel' = hasDel
      /\ \A n \in Nodes : refcnt'[n] = refcnt[n] \/ (refcnt[n] > 0 /\ refcnt'[n] > 0)
      /\ \A w \in Weakrefs : target'[w] = target[w] \/ target'[w] = None
      /\ \A n \in Nodes : list[n] = "none" => list'[n] = "none" \/ (n \in Weakrefs /\ target[n] # None)
  BY DEF CollectorMoves
<1>2. /\ Len(stack) \in Nat \ {0} /\ Len(stack) > 1 /\ DOMAIN stack = 1..Len(stack)
      /\ Len(stack) \in DOMAIN stack /\ Top = stack[Len(stack)] /\ Top.do = "gc"
      /\ \A i \in DOMAIN stack : stack[i].do = "gc" => i = Len(stack)
      /\ \A i \in DOMAIN stack : stack[i].do # "gc.clear"
  BY CollectorFrames
<1>3. /\ Len(stack') \in Nat \ {0} /\ DOMAIN stack' = 1..Len(stack')
      /\ \A i \in DOMAIN stack : i \in DOMAIN stack' /\ (i # Len(stack) => stack'[i] = stack[i])
      /\ stack'[Len(stack)] = g
      /\ \A i \in DOMAIN stack' : i \notin DOMAIN stack =>
           i = Len(stack) + 1 /\ i = Len(stack') /\ stack'[i] = f
  BY CollectorFrames
<1>4. \A i \in DOMAIN stack' : stack'[i].do \in Deallocs =>
        i \in DOMAIN stack /\ stack'[i] = stack[i]
  BY CollectorFrames
<1>5. \A i \in DOMAIN stack : stack[i].do \in Deallocs =>
        i \in DOMAIN stack' /\ stack'[i] = stack[i] /\ stack[i].obj \in Nodes
  BY CollectorFrames
<1>6. \A i \in DOMAIN stack' : stack'[i].do = "gc" => i = Len(stack)
  BY CollectorFrames
<1>7. StackSound'
  <2>1. stack'[1].do = "python"
    <3>1. 1 \in DOMAIN stack /\ 1 # Len(stack)
      BY <1>2
    <3> QED BY <3>1, <1>3 DEF StackSound
  <2>2. \A i, j \in DOMAIN stack' :
          stack'[i].do \in Deallocs /\ stack'[j].do \in Deallocs /\ stack'[i].obj = stack'[j].obj => i = j
    BY <1>4 DEF StackSound
  <2>3. \A i \in DOMAIN stack' : stack'[i].do # "dealloc"
    <3>1. ASSUME NEW i \in DOMAIN stack', stack'[i].do = "dealloc" PROVE FALSE
      <4>1. i \in DOMAIN stack /\ stack[i].do = "dealloc"
        BY <3>1, <1>4 DEF Deallocs, Dying
      <4>2. i = Len(stack)
        BY <4>1 DEF StackSound
      <4> QED BY <4>1, <4>2, <1>2
    <3> QED BY <3>1
  <2>4. \A i \in DOMAIN stack' : stack'[i].do = "dealloc.deleted" => stack'[i].obj \in hasDel
    BY <1>4 DEF StackSound, Deallocs, Bracketed
  <2> QED BY <2>1, <2>2, <2>3, <2>4, <1>1 DEF StackSound
<1>8. CollectorSound'
  <2>1. \A i, j \in DOMAIN stack' : stack'[i].do = "gc" /\ stack'[j].do = "gc" => i = j
    BY <1>6
  <2>2. phase' # "idle" /\ phase' \notin Silent
    BY <1>1 DEF Silent
  <2>3. \E i \in DOMAIN stack' : stack'[i].do = "gc"
    BY <1>1, <1>2, <1>3
  <2>4. ASSUME NEW i \in DOMAIN stack', stack'[i].do = "gc.clear"
        PROVE  /\ phase' = "delete" /\ i > 1 /\ stack'[i-1].do = "gc" /\ stack'[i-1].obj = stack'[i].obj
    <3>1. i \notin DOMAIN stack
      BY <2>4, <1>1, <1>2, <1>3
    <3>2. i = Len(stack) + 1 /\ stack'[i] = f
      BY <3>1, <1>3
    <3>3. i - 1 = Len(stack) /\ i > 1
      BY <3>2, <1>2
    <3> QED BY <3>2, <3>3, <2>4, <1>1, <1>3
  <2>5. ASSUME NEW i \in DOMAIN stack', stack'[i].do = "gc"
        PROVE  /\ stack'[i].holds # {} => phase' = "callbacks"
               /\ \A w \in stack'[i].holds : list'[w] = "callbacks"
               /\ stack'[i].obj # None => phase' \in {"callbacks", "finalize", "delete"}
               /\ stack'[i].obj # None /\ phase' = "callbacks" => stack'[i].obj \in Weakrefs
               /\ stack'[i].obj # None /\ phase' = "finalize" =>
                    stack'[i].obj = cursor' /\ cursor' \in Collectable'
               /\ stack'[i].obj # None /\ phase' = "delete" => stack'[i].obj \in found'
    <3>1. stack'[i] = g
      BY <2>5, <1>3, <1>6
    <3> QED BY <3>1 DEF CollectorMoves
  <2> QED BY <2>1, <2>2, <2>3, <2>4, <2>5 DEF CollectorSound
<1>9. LifeSound'
  <2>1. NotLive'
    <3>1. \A n \in Nodes : life[n] # "live" => list'[n] = "none"
      BY <1>1 DEF LifeSound, NotLive, WeakSound
    <3> QED BY <3>1, <1>1 DEF LifeSound, NotLive
  <2>2. ZeroLeaves'
    <3>1. ASSUME NEW n \in Nodes, life[n] = "live", refcnt'[n] = 0
          PROVE  \E i \in DOMAIN stack' : stack'[i].do \in Deallocs /\ stack'[i].obj = n
      <4>1. refcnt[n] = 0
        BY <3>1, <1>1
      <4>2. PICK i \in DOMAIN stack : stack[i].do \in Deallocs /\ stack[i].obj = n
        BY <3>1, <4>1 DEF LifeSound, ZeroLeaves
      <4> QED BY <4>2, <1>5
    <3> QED BY <3>1, <1>1 DEF ZeroLeaves
  <2>3. LeavingSound'
    <3>1. ASSUME NEW i \in DOMAIN stack', stack'[i].do \in Deallocs
          PROVE  /\ i \in DOMAIN stack /\ stack'[i] = stack[i] /\ stack[i].obj \in Nodes
                 /\ life[stack[i].obj] = "live"
                 /\ stack[i].do \in Dying => refcnt[stack[i].obj] = 0
                 /\ stack[i].do = "dealloc.clear" =>
                      /\ list[stack[i].obj] = "none"
                      /\ stack[i].obj \in Weakrefs => target[stack[i].obj] = None
      <4>1. i \in DOMAIN stack /\ stack'[i] = stack[i]
        BY <3>1, <1>4
      <4>2. stack[i].do \in Deallocs
        BY <3>1, <4>1
      <4> QED BY <4>1, <4>2, <1>5 DEF LifeSound, LeavingSound
    <3>2. \A i \in DOMAIN stack' : stack'[i].do \in Dying => stack'[i].do \in Deallocs
      BY DEF Deallocs
    <3>3. \A i \in DOMAIN stack' : stack'[i].do = "dealloc.clear" => stack'[i].do \in Deallocs
      BY DEF Deallocs, Dying
    <3>4. \A i \in DOMAIN stack' : stack'[i].do \in Deallocs => life'[stack'[i].obj] = "live"
      BY <3>1, <1>1
    <3>5. \A i \in DOMAIN stack' : stack'[i].do \in Dying => refcnt'[stack'[i].obj] = 0
      BY <3>1, <3>2, <1>1
    <3>6. \A i \in DOMAIN stack' : stack'[i].do = "dealloc.clear" =>
            /\ list'[stack'[i].obj] = "none"
            /\ stack'[i].obj \in Weakrefs => target'[stack'[i].obj] = None
      BY <3>1, <3>3, <1>1
    <3> QED BY <3>4, <3>5, <3>6 DEF LeavingSound
  <2> QED BY <2>1, <2>2, <2>3 DEF LifeSound
<1>10. WeakSound'
  <2>1. \A w \in Weakrefs : target'[w] # None => life'[w] = "live" /\ life'[target'[w]] = "live"
    BY <1>1 DEF WeakSound
  <2>2. ASSUME NEW i \in DOMAIN stack', NEW w \in Weakrefs,
               \/ stack'[i].do \in {"dealloc.callbacks", "dealloc.clear"}
               \/ stack'[i].do = "dealloc.untrack" /\ stack'[i].obj \notin hasDel
        PROVE  target'[w] # stack'[i].obj
    <3>1. stack'[i].do \in Deallocs
      BY <2>2 DEF Deallocs, Dying
    <3>2. i \in DOMAIN stack /\ stack'[i] = stack[i] /\ stack[i].obj # None
      BY <3>1, <1>4, <1>5, NoneIsNoNode
    <3>3. target[w] # stack[i].obj
      BY <2>2, <3>2 DEF WeakSound
    <3> QED BY <3>2, <3>3, <1>1
  <2> QED BY <2>1, <2>2, <1>1 DEF WeakSound
<1>11. WalkSound'
  BY <1>1, NoWalkNext
<1> QED BY <1>7, <1>8, <1>9, <1>10, <1>11

\* What a collector's frame owes, by what it holds and where it is.
LEMMA CollectorWeight ==
  ASSUME NEW g, g.do = "gc", NEW ph, NEW m
  PROVE  Weight(g, ph, m) = One(m \in g.holds) + One(ph = "finalize" /\ g.obj = m)
BY DEF Weight, One, Keepers

LEMMA HandleWeakrefsStep ==
  ASSUME IInv, HandleWeakrefs
  PROVE  IInv'
<1> USE DEF IInv
<1> DEFINE U == On("unreachable")
           hit == {w \in Weakrefs : target[w] \in Collectable}
           toCall == {w \in hit \cap callback : gcRefs[w] # GC_TENTATIVELY_UNREACHABLE}
           g == [Top EXCEPT !.holds = toCall]
           f == Python({})
<1>1. /\ Collector /\ phase = "weakrefs" /\ phase' = "callbacks"
      /\ target' = [w \in Weakrefs |-> IF w \in hit THEN None ELSE target[w]]
      /\ refcnt' = Incref(toCall)
      /\ list' = [n \in Nodes |-> IF n \in toCall THEN "callbacks" ELSE list[n]]
      /\ stack' = Goto(g)
      /\ refs' = refs /\ gcRefs' = gcRefs /\ callback' = callback /\ finalized' = finalized
      /\ trash' = trash /\ cursor' = cursor
      /\ UNCHANGED <<callVars, pastVars, world>>
  BY DEF HandleWeakrefs, ClearRefs
<1>2. /\ UNCHANGED <<life, cleared, found, leaked>> /\ UNCHANGED <<hasFin, hasDel, finalized, found>>
      /\ hasDel' = hasDel /\ roots' = roots /\ life' = life /\ woken' = woken
      /\ finCalls' = finCalls /\ cbCalls' = cbCalls
  BY <1>1 DEF world, fixed, pastVars, callVars
<1>3. /\ Len(stack) \in Nat \ {0} /\ DOMAIN stack = 1..Len(stack)
      /\ Len(stack) \in DOMAIN stack /\ Top = stack[Len(stack)] /\ Top.do = "gc"
      /\ \A i \in DOMAIN stack : stack[i].do = "gc" => i = Len(stack)
  BY <1>1, CollectorFacts
<1>4. Top \in FrameSet /\ Top.obj = None /\ Top.holds = {}
  BY <1>1, TopFacts DEF CollectorSound, Silent, Frame
<1>5. toCall \subseteq Weakrefs /\ toCall \subseteq Nodes /\ \A w \in toCall : target[w] # None /\ w \in hit
  <2>1. None \notin Collectable
    BY NoneIsNoNode, LenProperties DEF Collectable, Range, TypeOK
  <2> QED BY <2>1, NodeKinds
<1>6. g \in FrameSet /\ g.do = "gc" /\ g.obj = None /\ g.holds = toCall
  BY <1>4, <1>3, <1>5 DEF FrameSet, Code, Deallocs, Dying, Bracketed
<1>7. f \in FrameSet /\ f.do = "python"
  BY PythonFrame
<1>8. /\ Collectable = U /\ U \subseteq Nodes
      /\ \A n \in U : gcRefs[n] = GC_TENTATIVELY_UNREACHABLE /\ list[n] = "unreachable"
  BY <1>1 DEF ListSound, Ordered, TrashSound, On
<1>9. toCall \cap U = {}
  BY <1>8
<1>h. \A w \in Weakrefs : (w \in hit <=> target[w] \in U)
  BY <1>8
<1>t. \A w \in Weakrefs : target'[w] = IF w \in hit THEN None ELSE target[w]
  BY <1>1
<1>u. hit \subseteq Weakrefs
  OBVIOUS
<1>v. \A w \in Weakrefs : w \in hit => target[w] # None
  <2>1. None \notin U
    BY <1>8, NoneIsNoNode
  <2> QED BY <2>1, <1>h
<1> HIDE DEF f, toCall, hit, g, U
\* The weak references to be called are not dying.
<1>10. \A w \in toCall : refcnt[w] > 0
  <2> SUFFICES ASSUME NEW w \in toCall, ~(refcnt[w] > 0) PROVE FALSE
    OBVIOUS
  <2>1. w \in Nodes /\ w \in Weakrefs /\ target[w] # None /\ refcnt[w] = 0
    BY <1>5 DEF TypeOK, HeapType
  <2>2. life[w] = "live"
    BY <2>1 DEF WeakSound
  <2>3. PICK i \in DOMAIN stack : stack[i].do \in Deallocs /\ stack[i].obj = w
    BY <2>1, <2>2 DEF LifeSound, ZeroLeaves
  <2>4. w \notin Objects
    BY <2>1, NodeKinds
  <2>5. stack[i].do \in {"dealloc", "dealloc.clear"}
    BY <2>3, <2>4, FrameFacts
  <2>6. stack[i].do # "dealloc"
    BY <1>3 DEF StackSound
  <2>7. target[w] = None
    BY <2>1, <2>3, <2>5, <2>6 DEF LifeSound, LeavingSound
  <2> QED BY <2>1, <2>7
<1>11. /\ refcnt' \in [Nodes -> Nat]
       /\ \A n \in Nodes : refcnt'[n] = refcnt[n] + One(n \in toCall)
  <2>1. \A n \in Nodes : refcnt[n] \in Nat
    BY DEF TypeOK, HeapType
  <2> QED BY <2>1, <1>1 DEF Incref, One
<1>12. /\ list' \in [Nodes -> Lists]
       /\ \A n \in Nodes : n \in toCall => list'[n] = "callbacks"
       /\ \A n \in Nodes : n \notin toCall => list'[n] = list[n]
  BY <1>1 DEF TypeOK, Lists
<1>13. target' \in [Weakrefs -> Objects \cup {None}]
  BY <1>1 DEF TypeOK, HeapType
<1>14. Pushed(g, f)
  BY <1>1 DEF Pushed
<1>15. /\ stack' \in Seq(FrameSet) /\ stack' # <<>>
       /\ \A ph, m : Owed(stack', ph, m) = Owed(stack, ph, m) - Weight(Top, ph, m) + Weight(g, ph, m)
  BY <1>1, <1>6, GotoFacts
<1>16. TypeOK'
  <2>1. phase' \in Phases
    BY <1>1 DEF Phases
  <2> QED BY <2>1, <1>1, <1>2, <1>11, <1>12, <1>13, <1>15
         DEF TypeOK, HeapType, world, fixed, callVars, pastVars
<1>17. CountsTrue'
  <2>1. ASSUME NEW m \in Nodes
        PROVE  refcnt'[m] = refcnt[m] + Owed(stack', phase', m) - Owed(stack, phase, m)
    <3>1. \A i \in DOMAIN stack : stack[i].do = "gc" => stack[i].obj # m
      BY <1>3, <1>4, NoneIsNoNode
    <3>2. stack \in Seq(FrameSet)
      BY DEF TypeOK
    <3>3. Owed(stack, phase', m) = Owed(stack, phase, m) /\ Owed(stack, phase, m) \in Nat
      BY <3>1, <3>2, OwedPhase, OwedNat
    <3>4. Weight(Top, phase', m) = 0
      BY <1>1, <1>3, <1>4, CollectorWeight DEF One
    <3>5. Weight(g, phase', m) = One(m \in toCall)
      BY <1>1, <1>6, CollectorWeight DEF One
    <3>6. Owed(stack', phase', m) = Owed(stack, phase, m) + One(m \in toCall)
      BY <3>3, <3>4, <3>5, <1>15 DEF One
    <3> QED BY <3>3, <3>6, <1>11 DEF One, TypeOK, HeapType
  <2> QED BY <2>1, <1>1, <1>2, <1>15, CountsMove
<1>18. CollectorMoves(g, f)
  <2>1. \A n \in Nodes : refcnt'[n] = refcnt[n] \/ (refcnt[n] > 0 /\ refcnt'[n] > 0)
    BY <1>10, <1>11 DEF One, TypeOK, HeapType
  <2>2. \A n \in Nodes : list[n] = "none" => list'[n] = "none" \/ (n \in Weakrefs /\ target[n] # None)
    BY <1>5, <1>12
  <2>3. \A w \in g.holds : list'[w] = "callbacks"
    BY <1>5, <1>6, <1>12
  <2> QED BY <2>1, <2>2, <2>3, <1>1, <1>2, <1>6, <1>7, <1>14, <1>t DEF CollectorMoves
<1>19. On("unreachable")' = U
  <2>1. \A n \in Nodes : list'[n] = "unreachable" <=> list[n] = "unreachable"
    BY <1>9, <1>12 DEF U, On
  <2> QED BY <2>1 DEF U, On
<1>20. /\ \A i \in DOMAIN stack' : stack'[i].do \in Deallocs => i \in DOMAIN stack /\ stack'[i] = stack[i]
       /\ \A i \in DOMAIN stack' : stack'[i].holds \subseteq stack[i].holds \/ stack'[i].holds = toCall
       /\ DOMAIN stack' = DOMAIN stack
  <2>1. \A i \in DOMAIN stack' : stack'[i].do \in Deallocs => i \in DOMAIN stack /\ stack'[i] = stack[i]
    BY <1>18, CollectorFrames
  <2>0. DOMAIN stack' = 1..Len(stack) /\ \A i \in 1..Len(stack) : i # Len(stack) => stack'[i] = stack[i]
    BY <1>1, <1>6, GotoFacts
  <2>2. DOMAIN stack' = DOMAIN stack /\ \A i \in DOMAIN stack : i # Len(stack) => stack'[i] = stack[i]
    BY <2>0, <1>3, Zenon
  <2>3. stack'[Len(stack)] = g
    BY <1>1, <1>6, GotoFacts
  <2> QED BY <2>1, <2>2, <2>3, <1>6
<1>21. ListSound'
  <2>1. \A i \in DOMAIN stack' : stack'[i].do \in Deallocs \ {"dealloc"} =>
          list'[stack'[i].obj] \notin {"unreachable", "finalizers"}
    <3>1. \A i \in DOMAIN stack : stack[i].do \in Deallocs \ {"dealloc"} =>
            stack[i].obj \in Nodes /\ list[stack[i].obj] \notin {"unreachable", "finalizers"}
      BY FrameFacts DEF ListSound
    <3>2. \A n \in Nodes : list'[n] \in {list[n], "callbacks"}
      BY <1>12
    <3> QED BY <3>1, <3>2, <1>20
  <2>2. \A n \in Nodes : list'[n] = "callbacks" => n \in Weakrefs
    <3>1. \A n \in Nodes : list[n] # "callbacks"
      BY <1>1 DEF ListSound
    <3> QED BY <3>1, <1>5, <1>12
  <2>3. ASSUME NEW n \in Nodes
        PROVE  gcRefs'[n] \in {GC_UNTRACKED, GC_REACHABLE} \/ list'[n] = "unreachable"
    <3>1. gcRefs[n] \in {GC_UNTRACKED, GC_REACHABLE} \/ list[n] = "unreachable"
      BY <1>1 DEF ListSound
    <3>2. list[n] = "unreachable" => list'[n] = "unreachable"
      BY <1>9, <1>12 DEF U, On
    <3> QED BY <3>1, <3>2, <1>1
  <2>4. Collectable' = On("unreachable")' /\ IsInjective(trash') /\ On("unreachable")' \cap hasDel = {}
    <3>1. IsInjective(trash) /\ U \cap hasDel = {}
      BY <1>1 DEF ListSound, Ordered, U
    <3> QED BY <3>1, <1>1, <1>8, <1>19 DEF Collectable
  <2> QED BY <2>1, <2>2, <2>3, <2>4, <1>1, <1>2 DEF ListSound, Ordered
<1>22. TrashSound'
  <2>1. \A n \in U :
          /\ From(Nodes, n) \subseteq U
          /\ n \notin roots
          /\ \A i \in DOMAIN stack : n \notin stack[i].holds /\ (stack[i].do \in Deallocs => stack[i].obj # n)
    BY <1>1 DEF TrashSound, Sealed, U
  <2>2. \A i \in DOMAIN stack' :
          stack'[i].holds \cap U = {} /\ (stack'[i].do \in Deallocs => stack'[i].obj \notin U)
    BY <2>1, <1>9, <1>20
  <2>3. Sealed(On("unreachable"))'
    BY <2>1, <2>2, <1>1, <1>2, <1>19 DEF Sealed, From
  <2>4. \A w \in Weakrefs : target'[w] \notin U
    BY <1>h, <1>t, <1>8, NoneIsNoNode
  <2> QED BY <2>2, <2>3, <2>4, <1>1, <1>19 DEF TrashSound
<1>23. FinalizeSound' /\ DeleteSound'
  BY <1>1, <1>2, NotClearing, NotFinalizing
<1>24. CallsSound'
  <2>1. \A n \in Objects :
          /\ finCalls[n] <= 1
          /\ finCalls[n] = 1 => n \in finalized \/ \E i \in DOMAIN stack' :
               stack'[i].do = "dealloc.finalized" /\ stack'[i].obj = n
    <3>1. \A i \in DOMAIN stack : stack[i].do = "dealloc.finalized" => i \in DOMAIN stack' /\ stack'[i] = stack[i]
      BY <1>18, CollectorFrames DEF Deallocs, Bracketed
    <3> QED BY <3>1 DEF CallsSound
  <2>2. ASSUME NEW w \in Weakrefs
        PROVE  /\ cbCalls[w] <= 1
               /\ life[w] = "new" => cbCalls[w] = 0
               /\ target'[w] # None => cbCalls[w] = 0 /\ list'[w] # "callbacks"
               /\ list'[w] = "callbacks" => target'[w] = None /\ cbCalls[w] = 0
               /\ \A i \in DOMAIN stack : stack[i].do = "dealloc.callbacks" /\ w \in stack[i].holds =>
                    /\ cbCalls[w] = 0 /\ target'[w] = None /\ list'[w] # "callbacks"
                    /\ \A j \in DOMAIN stack :
                         stack[j].do = "dealloc.callbacks" /\ w \in stack[j].holds => i = j
    <3>1. w \in Nodes /\ list[w] # "callbacks"
      BY <1>1, NodeKinds DEF ListSound
    <3>2. list'[w] = "callbacks" <=> w \in toCall
      BY <3>1, <1>12
    <3>3. w \in toCall => target[w] # None /\ target'[w] = None
      BY <1>5, <1>t
    <3>4. target'[w] = target[w] \/ target'[w] = None
      BY <1>t
    <3> QED BY <3>2, <3>3, <3>4 DEF CallsSound
  <2>3. \A i \in DOMAIN stack' : stack'[i].do = "dealloc.callbacks" => i \in DOMAIN stack /\ stack'[i] = stack[i]
    BY <1>20 DEF Deallocs, Dying
  <2>4. ASSUME NEW w \in Weakrefs
        PROVE  \A i \in DOMAIN stack' : stack'[i].do = "dealloc.callbacks" /\ w \in stack'[i].holds =>
                 /\ cbCalls[w] = 0 /\ target'[w] = None /\ list'[w] # "callbacks"
                 /\ \A j \in DOMAIN stack' :
                      stack'[j].do = "dealloc.callbacks" /\ w \in stack'[j].holds => i = j
    BY <2>2, <2>3
  <2> QED BY <2>1, <2>2, <2>4, <1>2, <1>1 DEF CallsSound
<1> QED BY <1>16, <1>17, <1>18, <1>21, <1>22, <1>23, <1>24, CollectorStep

\* While the collector is on top, what is on these lists is not dying.
LEMMA TrackedCounted ==
  ASSUME IInv, Collector, NEW n \in Nodes, list[n] \in {"unreachable", "callbacks"}
  PROVE  refcnt[n] > 0 /\ life[n] = "live"
<1> USE DEF IInv
<1>1. /\ Len(stack) \in DOMAIN stack /\ Top = stack[Len(stack)] /\ Top.do = "gc"
  BY CollectorFacts
<1>2. life[n] = "live"
  BY DEF LifeSound, NotLive
<1>3. ASSUME refcnt[n] = 0 PROVE FALSE
  <2>1. PICK i \in DOMAIN stack : stack[i].do \in Deallocs /\ stack[i].obj = n
    BY <1>2, <1>3 DEF LifeSound, ZeroLeaves
  <2>2. stack[i].do # "dealloc"
    BY <1>1 DEF StackSound
  <2>3. list[n] # "unreachable"
    BY <2>1, <2>2 DEF ListSound
  <2>4. n \in Weakrefs
    BY <2>3 DEF ListSound
  <2>5. n \notin Objects
    BY <2>4, NodeKinds
  <2>6. stack[i].do = "dealloc.clear"
    BY <2>1, <2>2, <2>5, FrameFacts
  <2>7. list[n] = "none"
    BY <2>1, <2>6 DEF LifeSound, LeavingSound
  <2> QED BY <2>7
<1>4. refcnt[n] \in Nat
  BY DEF TypeOK, HeapType
<1> QED BY <1>2, <1>3, <1>4

LEMMA InvokeCallbackStep ==
  ASSUME IInv, NEW w \in Weakrefs, InvokeCallback(w)
  PROVE  IInv'
<1> USE DEF IInv
<1> DEFINE g == [Top EXCEPT !.obj = w]
           f == Python({w})
<1>1. /\ Collector /\ phase = "callbacks" /\ phase' = phase /\ Top.obj = None /\ list[w] = "callbacks"
      /\ refcnt' = Incref({w})
      /\ stack' = Append(Goto(g), f)
      /\ cbCalls' = [cbCalls EXCEPT ![w] = @ + 1] /\ finCalls' = finCalls
      /\ refs' = refs /\ finalized' = finalized /\ cursor' = cursor
      /\ UNCHANGED <<pastVars, world, listVars, weakVars>>
  BY DEF InvokeCallback
<1>2. /\ UNCHANGED <<life, cleared, found, leaked>> /\ UNCHANGED <<hasFin, hasDel, finalized, found>>
      /\ hasDel' = hasDel /\ roots' = roots /\ life' = life /\ woken' = woken
      /\ list' = list /\ gcRefs' = gcRefs /\ trash' = trash /\ target' = target /\ callback' = callback
  BY <1>1 DEF world, fixed, pastVars, listVars, weakVars
<1>3. /\ Len(stack) \in Nat \ {0} /\ DOMAIN stack = 1..Len(stack)
      /\ Len(stack) \in DOMAIN stack /\ Top = stack[Len(stack)] /\ Top.do = "gc" /\ Top \in FrameSet
      /\ \A i \in DOMAIN stack : stack[i].do = "gc" => i = Len(stack)
  BY <1>1, CollectorFacts
<1>4. w \in Nodes
  BY NodeKinds
<1>6. g \in FrameSet /\ g.do = "gc" /\ g.obj = w /\ g.holds = Top.holds
  BY <1>3, <1>4 DEF FrameSet, Code, Deallocs, Dying, Bracketed
<1>7. f \in FrameSet /\ f.do = "python" /\ f.holds = {w} /\ \A ph, m : Weight(f, ph, m) = One(m \in {w})
  BY <1>4, PythonFrame
<1> HIDE DEF f, g
<1>8. refcnt[w] > 0 /\ life[w] = "live"
  BY <1>1, <1>4, TrackedCounted
<1>9. cbCalls[w] = 0 /\ target[w] = None
  BY <1>1, <1>3, NoneIsNoNode, NodeKinds DEF CallsSound
<1>11. /\ refcnt' \in [Nodes -> Nat]
       /\ \A n \in Nodes : refcnt'[n] = refcnt[n] + One(n \in {w})
  <2>1. \A n \in Nodes : refcnt[n] \in Nat
    BY DEF TypeOK, HeapType
  <2> QED BY <2>1, <1>1 DEF Incref, One
<1>12. cbCalls' \in [Weakrefs -> Nat] /\ cbCalls'[w] = 1
       /\ \A x \in Weakrefs : x # w => cbCalls'[x] = cbCalls[x]
  BY <1>1, <1>9 DEF TypeOK
<1>14. Pushed(g, f)
  BY <1>1 DEF Pushed
<1>15. stack' \in Seq(FrameSet) /\ stack' # <<>>
  BY <1>6, <1>7, <1>14, PushedFacts
<1>16. TypeOK'
  <2>1. phase' \in Phases
    BY <1>1 DEF TypeOK
  <2> QED BY <2>1, <1>1, <1>2, <1>11, <1>12, <1>15 DEF TypeOK, HeapType, world, fixed, pastVars
<1>17. CountsTrue'
  <2>1. ASSUME NEW m \in Nodes
        PROVE  refcnt'[m] = refcnt[m] + Owed(stack', phase', m) - Owed(stack, phase, m)
    <3>1. Owed(stack', phase, m)
            = Owed(stack, phase, m) - Weight(Top, phase, m) + Weight(g, phase, m) + Weight(f, phase, m)
      BY <1>1, <1>6, <1>7, CallOwed
    <3>2. Weight(g, phase, m) = Weight(Top, phase, m)
      BY <1>1, <1>3, <1>6, CollectorWeight DEF One
    <3>3. Weight(f, phase, m) = One(m \in {w})
      BY <1>7
    <3>4. Owed(stack, phase, m) \in Nat /\ Weight(Top, phase, m) \in Nat /\ One(m \in {w}) \in Nat
      BY OwedNat, WeightNat DEF TypeOK, One
    <3>5. Owed(stack', phase', m) = Owed(stack, phase, m) + One(m \in {w})
      BY <3>1, <3>2, <3>3, <3>4, <1>1
    <3>6. refcnt[m] \in Nat
      BY DEF TypeOK, HeapType
    <3> QED BY <3>4, <3>5, <3>6, <1>11
  <2> QED BY <2>1, <1>1, <1>2, <1>15, CountsMove
<1>18. CollectorMoves(g, f)
  <2>1. \A n \in Nodes : refcnt'[n] = refcnt[n] \/ (refcnt[n] > 0 /\ refcnt'[n] > 0)
    <3>1. refcnt[w] \in Nat
      BY <1>4 DEF TypeOK, HeapType
    <3>2. refcnt'[w] = refcnt[w] + 1
      BY <1>4, <1>11 DEF One
    <3>3. \A n \in Nodes : n # w => refcnt'[n] = refcnt[n] + 0
      BY <1>11 DEF One
    <3>4. \A n \in Nodes : refcnt[n] \in Nat
      BY DEF TypeOK, HeapType
    <3> QED BY <3>1, <3>2, <3>3, <3>4, <1>8
  <2>3. \A v \in g.holds : list'[v] = "callbacks"
    BY <1>2, <1>3, <1>6 DEF CollectorSound
  <2> QED BY <2>1, <2>3, <1>1, <1>2, <1>6, <1>7, <1>14 DEF CollectorMoves
<1>20. /\ \A i \in DOMAIN stack' : stack'[i].do \in Deallocs => i \in DOMAIN stack /\ stack'[i] = stack[i]
       /\ \A i \in DOMAIN stack : stack[i].do \in Deallocs => i \in DOMAIN stack' /\ stack'[i] = stack[i]
  BY <1>18, CollectorFrames
<1>21. ListSound'
  <2>1. \A i \in DOMAIN stack' : stack'[i].do \in Deallocs \ {"dealloc"} =>
          list'[stack'[i].obj] \notin {"unreachable", "finalizers"}
    BY <1>2, <1>20 DEF ListSound
  <2> QED BY <2>1, <1>1, <1>2 DEF ListSound, On, Collectable
<1>22. TrashSound'
  <2> DEFINE U == On("unreachable")
  <2>0. U' = U /\ w \notin U
    BY <1>1, <1>2 DEF On
  <2> SUFFICES ASSUME woken = {} PROVE TrashSound'
    BY <1>1, <1>2 DEF TrashSound
  <2>1. \A n \in U :
          /\ From(Nodes, n) \subseteq U
          /\ n \notin roots
          /\ \A i \in DOMAIN stack : stack[i].do # "dealloc.callbacks" => n \notin stack[i].holds
    BY <1>1 DEF TrashSound, Sealed
  <2>2. \A i \in DOMAIN stack :
          stack[i].holds \cap U = {} /\ (stack[i].do \in Deallocs => stack[i].obj \notin U)
    BY <1>1 DEF TrashSound
  <2>3. \A v \in Weakrefs : target[v] \notin U
    BY <1>1 DEF TrashSound
  <2> HIDE DEF U
  <2>4. \A i \in DOMAIN stack' : stack'[i].holds \cap U = {}
    <3>1. ASSUME NEW i \in DOMAIN stack' PROVE stack'[i].holds \cap U = {}
      <4>1. CASE i \in DOMAIN stack /\ i # Len(stack)
        <5>1. stack'[i] = stack[i]
          BY <4>1, <1>18, CollectorFrames
        <5> QED BY <5>1, <4>1, <2>2
      <4>2. CASE i = Len(stack)
        <5>1. stack'[i] = g
          BY <4>2, <1>18, CollectorFrames
        <5> QED BY <5>1, <1>3, <1>6, <2>2
      <4>3. CASE i \notin DOMAIN stack
        <5>1. stack'[i] = f
          BY <4>3, <1>18, CollectorFrames
        <5> QED BY <5>1, <1>7, <2>0
      <4> QED BY <4>1, <4>2, <4>3
    <3> QED BY <3>1
  <2>5. \A i \in DOMAIN stack' : stack'[i].do \in Deallocs => stack'[i].obj \notin U
    BY <2>2, <1>20
  <2>6. Sealed(On("unreachable"))'
    <3>1. On("unreachable")' = U
      BY <2>0 DEF U
    <3> QED BY <3>1, <2>1, <2>4, <1>1, <1>2 DEF Sealed, From
  <2> QED BY <2>0, <2>3, <2>4, <2>5, <2>6, <1>1, <1>2 DEF TrashSound, U
<1>23. FinalizeSound' /\ DeleteSound'
  BY <1>1, <1>2, NotClearing, NotFinalizing
<1>24. CallsSound'
  <2>1. \A n \in Objects :
          /\ finCalls[n] <= 1
          /\ finCalls[n] = 1 => n \in finalized \/ \E i \in DOMAIN stack' :
               stack'[i].do = "dealloc.finalized" /\ stack'[i].obj = n
    <3>1. \A i \in DOMAIN stack : stack[i].do = "dealloc.finalized" => i \in DOMAIN stack' /\ stack'[i] = stack[i]
      BY <1>20 DEF Deallocs, Bracketed
    <3> QED BY <3>1 DEF CallsSound
  <2>3. \A i \in DOMAIN stack' : stack'[i].do = "dealloc.callbacks" => i \in DOMAIN stack /\ stack'[i] = stack[i]
    BY <1>20 DEF Deallocs, Dying
  <2>4. ASSUME NEW x \in Weakrefs, x # w
        PROVE  /\ cbCalls[x] <= 1
               /\ life[x] = "new" => cbCalls[x] = 0
               /\ target[x] # None => cbCalls[x] = 0 /\ list[x] # "callbacks"
               /\ list[x] = "callbacks" => target[x] = None /\ cbCalls[x] = 0
               /\ \A i \in DOMAIN stack' : stack'[i].do = "dealloc.callbacks" /\ x \in stack'[i].holds =>
                    /\ cbCalls[x] = 0 /\ target[x] = None /\ list[x] # "callbacks"
                    /\ \A j \in DOMAIN stack' :
                         stack'[j].do = "dealloc.callbacks" /\ x \in stack'[j].holds => i = j
    <3>1. \A i \in DOMAIN stack : stack[i].do = "gc" => stack[i].obj # x
      BY <1>1, <1>3, NoneIsNoNode, NodeKinds
    <3>2. list[x] = "callbacks" => target[x] = None /\ cbCalls[x] = 0
      BY <3>1 DEF CallsSound
    <3>3. \A i \in DOMAIN stack' : stack'[i].do = "dealloc.callbacks" /\ x \in stack'[i].holds =>
            /\ cbCalls[x] = 0 /\ target[x] = None /\ list[x] # "callbacks"
            /\ \A j \in DOMAIN stack' :
                 stack'[j].do = "dealloc.callbacks" /\ x \in stack'[j].holds => i = j
      BY <2>3 DEF CallsSound
    <3> QED BY <3>2, <3>3 DEF CallsSound
  <2>5. \A i \in DOMAIN stack' : stack'[i].do = "dealloc.callbacks" => w \notin stack'[i].holds
    BY <2>3, <1>1 DEF CallsSound
  <2>6. \E i \in DOMAIN stack' : stack'[i].do = "gc" /\ stack'[i].obj = w
    <3>1. Len(stack) \in DOMAIN stack' /\ stack'[Len(stack)] = g
      BY <1>18, CollectorFrames
    <3> QED BY <3>1, <1>6
  <2>7. \A x \in Weakrefs :
          /\ cbCalls'[x] <= 1
          /\ life[x] = "new" => cbCalls'[x] = 0
          /\ target[x] # None => cbCalls'[x] = 0 /\ list[x] # "callbacks"
          /\ list[x] = "callbacks" => target[x] = None /\ (x = w \/ cbCalls'[x] = 0)
          /\ \A i \in DOMAIN stack' : stack'[i].do = "dealloc.callbacks" /\ x \in stack'[i].holds =>
               /\ cbCalls'[x] = 0 /\ target[x] = None /\ list[x] # "callbacks"
               /\ \A j \in DOMAIN stack' :
                    stack'[j].do = "dealloc.callbacks" /\ x \in stack'[j].holds => i = j
    <3> SUFFICES ASSUME NEW x \in Weakrefs
                 PROVE  /\ cbCalls'[x] <= 1
                        /\ life[x] = "new" => cbCalls'[x] = 0
                        /\ target[x] # None => cbCalls'[x] = 0 /\ list[x] # "callbacks"
                        /\ list[x] = "callbacks" => target[x] = None /\ (x = w \/ cbCalls'[x] = 0)
                        /\ \A i \in DOMAIN stack' : stack'[i].do = "dealloc.callbacks" /\ x \in stack'[i].holds =>
                             /\ cbCalls'[x] = 0 /\ target[x] = None /\ list[x] # "callbacks"
                             /\ \A j \in DOMAIN stack' :
                                  stack'[j].do = "dealloc.callbacks" /\ x \in stack'[j].holds => i = j
      OBVIOUS
    <3>1. CASE x = w
      BY <3>1, <2>5, <1>8, <1>9, <1>12
    <3>2. CASE x # w
      <4>1. cbCalls'[x] = cbCalls[x]
        BY <3>2, <1>12
      <4> QED BY <4>1, <3>2, <2>4
    <3> QED BY <3>1, <3>2
  <2> QED BY <2>1, <2>6, <2>7, <1>2, <1>1 DEF CallsSound
<1> QED BY <1>16, <1>17, <1>18, <1>21, <1>22, <1>23, <1>24, CollectorStep

LEMMA CallbackForgottenStep ==
  ASSUME IInv, CallbackDone, Top.obj \notin Top.holds
  PROVE  IInv'
<1> USE DEF IInv
<1> DEFINE w == Top.obj
           g == [Top EXCEPT !.obj = None]
           f == Python({})
<1>1. /\ Collector /\ phase = "callbacks" /\ phase' = phase /\ w # None
      /\ list' = (IF list[w] = "callbacks" THEN [list EXCEPT ![w] = "old"] ELSE list)
      /\ stack' = Goto(g) /\ refcnt' = refcnt
      /\ refs' = refs /\ gcRefs' = gcRefs /\ finalized' = finalized /\ cursor' = cursor /\ trash' = trash
      /\ UNCHANGED <<callVars, pastVars, world, weakVars>>
  BY DEF CallbackDone
<1>2. /\ UNCHANGED <<life, cleared, found, leaked>> /\ UNCHANGED <<hasFin, hasDel, finalized, found>>
      /\ hasDel' = hasDel /\ roots' = roots /\ life' = life /\ woken' = woken
      /\ target' = target /\ callback' = callback /\ finCalls' = finCalls /\ cbCalls' = cbCalls
  BY <1>1 DEF world, fixed, pastVars, weakVars, callVars
<1>3. /\ Len(stack) \in Nat \ {0} /\ DOMAIN stack = 1..Len(stack)
      /\ Len(stack) \in DOMAIN stack /\ Top = stack[Len(stack)] /\ Top.do = "gc" /\ Top \in FrameSet
      /\ \A i \in DOMAIN stack : stack[i].do = "gc" => i = Len(stack)
      /\ w \in Nodes \cup {None}
  BY <1>1, CollectorFacts
<1>4. w \in Nodes /\ w \in Weakrefs /\ w \notin Top.holds
  BY <1>1, <1>3 DEF CollectorSound
<1>6. g \in FrameSet /\ g.do = "gc" /\ g.obj = None /\ g.holds = Top.holds
  BY <1>3 DEF FrameSet, Code, Deallocs, Dying, Bracketed
<1>7. f \in FrameSet /\ f.do = "python"
  BY PythonFrame
<1>w. Top.obj = w
  OBVIOUS
<1> HIDE DEF f, g, w
<1>12. /\ list' \in [Nodes -> Lists]
       /\ \A n \in Nodes : list'[n] = list[n] \/ (n = w /\ list[n] = "callbacks" /\ list'[n] = "old")
       /\ list'[w] # "callbacks"
  BY <1>1, <1>4 DEF TypeOK, Lists
<1>14. Pushed(g, f)
  BY <1>1 DEF Pushed
<1>15. /\ stack' \in Seq(FrameSet) /\ stack' # <<>>
       /\ \A ph, m : Owed(stack', ph, m) = Owed(stack, ph, m) - Weight(Top, ph, m) + Weight(g, ph, m)
  BY <1>1, <1>6, GotoFacts
<1>16. TypeOK'
  <2>1. phase' \in Phases
    BY <1>1 DEF TypeOK
  <2> QED BY <2>1, <1>1, <1>2, <1>12, <1>15 DEF TypeOK, HeapType, world, fixed, pastVars
<1>17. CountsTrue'
  <2>1. ASSUME NEW m \in Nodes
        PROVE  refcnt'[m] = refcnt[m] + Owed(stack', phase', m) - Owed(stack, phase, m)
    <3>2. Weight(g, phase, m) = Weight(Top, phase, m)
      BY <1>1, <1>3, <1>6, CollectorWeight DEF One
    <3>4. Owed(stack, phase, m) \in Nat /\ Weight(Top, phase, m) \in Nat
      BY OwedNat, WeightNat DEF TypeOK
    <3>5. Owed(stack', phase', m) = Owed(stack, phase, m)
      BY <3>2, <3>4, <1>1, <1>15
    <3>6. refcnt[m] \in Nat
      BY DEF TypeOK, HeapType
    <3> QED BY <3>4, <3>5, <3>6, <1>1
  <2> QED BY <2>1, <1>1, <1>2, <1>15, CountsMove
<1>18. CollectorMoves(g, f)
  <2>3. \A v \in g.holds : list'[v] = "callbacks"
    <3>1. \A v \in Top.holds : list[v] = "callbacks" /\ v # w
      BY <1>3, <1>4 DEF CollectorSound
    <3>2. Top.holds \subseteq Nodes
      BY TopFacts
    <3> QED BY <3>1, <3>2, <1>6, <1>12
  <2>4. \A n \in Nodes : list[n] = "none" => list'[n] = "none"
    BY <1>12
  <2>5. \A n \in Nodes : refcnt'[n] = refcnt[n]
    BY <1>1
  <2> QED BY <2>3, <2>4, <2>5, <1>1, <1>2, <1>6, <1>7, <1>14 DEF CollectorMoves
<1>20. /\ \A i \in DOMAIN stack' : stack'[i].do \in Deallocs => i \in DOMAIN stack /\ stack'[i] = stack[i]
       /\ \A i \in DOMAIN stack : stack[i].do \in Deallocs => i \in DOMAIN stack' /\ stack'[i] = stack[i]
  BY <1>18, CollectorFrames
<1>s. DOMAIN stack' = DOMAIN stack /\ \A i \in DOMAIN stack : i # Len(stack) => stack'[i] = stack[i]
  <2>0. DOMAIN stack' = 1..Len(stack)
    BY <1>1, <1>6, GotoFacts
  <2>1. \A i \in DOMAIN stack : i # Len(stack) => stack'[i] = stack[i]
    BY <1>18, CollectorFrames
  <2> QED BY <2>0, <2>1, <1>3, Zenon
<1>g. stack'[Len(stack)] = g
  BY <1>18, CollectorFrames
<1>h. \A i \in DOMAIN stack' : stack'[i].holds = stack[i].holds
  BY <1>s, <1>g, <1>3, <1>6
<1>19. On("unreachable")' = On("unreachable")
  BY <1>12 DEF On
<1>21. ListSound'
  <2>1. \A i \in DOMAIN stack' : stack'[i].do \in Deallocs \ {"dealloc"} =>
          list'[stack'[i].obj] \notin {"unreachable", "finalizers"}
    <3>1. \A i \in DOMAIN stack : stack[i].do \in Deallocs \ {"dealloc"} =>
            stack[i].obj \in Nodes /\ list[stack[i].obj] \notin {"unreachable", "finalizers"}
      BY FrameFacts DEF ListSound
    <3>2. \A n \in Nodes : list'[n] \in {list[n], "old"}
      BY <1>12
    <3> QED BY <3>1, <3>2, <1>20
  <2>2. \A n \in Nodes : list'[n] = "callbacks" => n \in Weakrefs
    BY <1>12 DEF ListSound
  <2>3. ASSUME NEW n \in Nodes
        PROVE  gcRefs'[n] \in {GC_UNTRACKED, GC_REACHABLE} \/ list'[n] = "unreachable"
    <3>1. gcRefs[n] \in {GC_UNTRACKED, GC_REACHABLE} \/ list[n] = "unreachable"
      BY <1>1 DEF ListSound
    <3>2. list[n] = "unreachable" => list'[n] = "unreachable"
      BY <1>12
    <3> QED BY <3>1, <3>2, <1>1
  <2>4. Collectable' = On("unreachable")' /\ IsInjective(trash') /\ On("unreachable")' \cap hasDel = {}
    BY <1>1, <1>19 DEF ListSound, Ordered, Collectable
  <2> QED BY <2>1, <2>2, <2>3, <2>4, <1>1, <1>2 DEF ListSound, Ordered
<1>22. TrashSound'
  <2> DEFINE U == On("unreachable")
  <2> SUFFICES ASSUME woken = {} PROVE TrashSound'
    BY <1>1, <1>2 DEF TrashSound
  <2>1. \A n \in U :
          /\ From(Nodes, n) \subseteq U
          /\ n \notin roots
          /\ \A i \in DOMAIN stack : n \notin stack[i].holds
    BY <1>1 DEF TrashSound, Sealed
  <2>2. \A i \in DOMAIN stack :
          stack[i].holds \cap U = {} /\ (stack[i].do \in Deallocs => stack[i].obj \notin U)
    BY <1>1 DEF TrashSound
  <2>3. \A v \in Weakrefs : target[v] \notin U
    BY <1>1 DEF TrashSound
  <2>6. Sealed(On("unreachable"))'
    <3>1. On("unreachable")' = U
      BY <1>19 DEF U
    <3> HIDE DEF U
    <3> QED BY <3>1, <2>1, <1>s, <1>h, <1>1, <1>2 DEF Sealed, From
  <2> HIDE DEF U
  <2>7. \A i \in DOMAIN stack' :
          stack'[i].holds \cap U = {} /\ (stack'[i].do \in Deallocs => stack'[i].obj \notin U)
    BY <2>2, <1>20, <1>h, <1>s
  <2> QED BY <2>3, <2>6, <2>7, <1>1, <1>2, <1>19 DEF TrashSound, U
<1>23. FinalizeSound' /\ DeleteSound'
  BY <1>1, <1>2, NotClearing, NotFinalizing
<1>24. CallsSound'
  <2>1. \A n \in Objects :
          /\ finCalls[n] <= 1
          /\ finCalls[n] = 1 => n \in finalized \/ \E i \in DOMAIN stack' :
               stack'[i].do = "dealloc.finalized" /\ stack'[i].obj = n
    <3>1. \A i \in DOMAIN stack : stack[i].do = "dealloc.finalized" => i \in DOMAIN stack' /\ stack'[i] = stack[i]
      BY <1>20 DEF Deallocs, Bracketed
    <3> QED BY <3>1 DEF CallsSound
  <2>3. \A i \in DOMAIN stack' : stack'[i].do = "dealloc.callbacks" => i \in DOMAIN stack /\ stack'[i] = stack[i]
    BY <1>20 DEF Deallocs, Dying
  <2>4. ASSUME NEW x \in Weakrefs
        PROVE  /\ cbCalls[x] <= 1
               /\ life[x] = "new" => cbCalls[x] = 0
               /\ target[x] # None => cbCalls[x] = 0 /\ list'[x] # "callbacks"
               /\ list'[x] = "callbacks" => target[x] = None /\ cbCalls[x] = 0
               /\ \A i \in DOMAIN stack' : stack'[i].do = "dealloc.callbacks" /\ x \in stack'[i].holds =>
                    /\ cbCalls[x] = 0 /\ target[x] = None /\ list'[x] # "callbacks"
                    /\ \A j \in DOMAIN stack' :
                         stack'[j].do = "dealloc.callbacks" /\ x \in stack'[j].holds => i = j
    <3>0. x \in Nodes /\ (list'[x] = "callbacks" => list[x] = "callbacks" /\ x # w)
      BY <1>12, NodeKinds
    <3>1. x # w => \A i \in DOMAIN stack : stack[i].do = "gc" => stack[i].obj # x
      BY <1>3, <1>w
    <3>2. list'[x] = "callbacks" => target[x] = None /\ cbCalls[x] = 0
      BY <3>0, <3>1 DEF CallsSound
    <3>3. \A i \in DOMAIN stack' : stack'[i].do = "dealloc.callbacks" /\ x \in stack'[i].holds =>
            /\ cbCalls[x] = 0 /\ target[x] = None /\ list'[x] # "callbacks"
            /\ \A j \in DOMAIN stack' :
                 stack'[j].do = "dealloc.callbacks" /\ x \in stack'[j].holds => i = j
      BY <2>3, <3>0 DEF CallsSound
    <3> QED BY <3>0, <3>2, <3>3 DEF CallsSound
  <2> QED BY <2>1, <2>4, <1>2, <1>1 DEF CallsSound
<1> QED BY <1>16, <1>17, <1>18, <1>21, <1>22, <1>23, <1>24, CollectorStep

\* No callback is called while the collector finalizes and clears.
LEMMA CallsKept ==
  ASSUME IInv, NEW g, NEW f, CollectorMoves(g, f), phase' # "callbacks", ListSound',
         cbCalls' = cbCalls, finalized \subseteq finalized',
         \A n \in Objects : finCalls'[n] = finCalls[n] \/ (finCalls'[n] = 1 /\ n \in finalized')
  PROVE  CallsSound'
<1> USE DEF IInv
<1>1. /\ \A i \in DOMAIN stack' : stack'[i].do \in Deallocs => i \in DOMAIN stack /\ stack'[i] = stack[i]
      /\ \A i \in DOMAIN stack : stack[i].do \in Deallocs => i \in DOMAIN stack' /\ stack'[i] = stack[i]
  BY CollectorFrames
<1>2. /\ life' = life /\ \A w \in Weakrefs : target'[w] = target[w] \/ target'[w] = None
  BY DEF CollectorMoves
<1>3. \A n \in Nodes : list'[n] # "callbacks"
  BY DEF ListSound
<1>4. ASSUME NEW n \in Objects
      PROVE  /\ finCalls'[n] <= 1
             /\ finCalls'[n] = 1 => n \in finalized' \/ \E i \in DOMAIN stack' :
                  stack'[i].do = "dealloc.finalized" /\ stack'[i].obj = n
  <2>1. \A i \in DOMAIN stack : stack[i].do = "dealloc.finalized" => i \in DOMAIN stack' /\ stack'[i] = stack[i]
    BY <1>1 DEF Deallocs, Bracketed
  <2>2. CASE finCalls'[n] = finCalls[n]
    BY <2>1, <2>2 DEF CallsSound
  <2>3. CASE finCalls'[n] = 1 /\ n \in finalized'
    BY <2>3
  <2> QED BY <2>2, <2>3
<1>5. ASSUME NEW w \in Weakrefs
      PROVE  /\ cbCalls[w] <= 1
             /\ life[w] = "new" => cbCalls[w] = 0
             /\ target'[w] # None => cbCalls[w] = 0
             /\ list'[w] # "callbacks"
             /\ \A i \in DOMAIN stack' : stack'[i].do = "dealloc.callbacks" /\ w \in stack'[i].holds =>
                  /\ cbCalls[w] = 0 /\ target'[w] = None
                  /\ \A j \in DOMAIN stack' :
                       stack'[j].do = "dealloc.callbacks" /\ w \in stack'[j].holds => i = j
  <2>1. \A i \in DOMAIN stack' : stack'[i].do = "dealloc.callbacks" => i \in DOMAIN stack /\ stack'[i] = stack[i]
    BY <1>1 DEF Deallocs, Dying
  <2>2. w \in Nodes
    BY NodeKinds
  <2>3. \A i \in DOMAIN stack' : stack'[i].do = "dealloc.callbacks" /\ w \in stack'[i].holds =>
          /\ cbCalls[w] = 0 /\ target[w] = None
          /\ \A j \in DOMAIN stack' :
               stack'[j].do = "dealloc.callbacks" /\ w \in stack'[j].holds => i = j
    BY <2>1 DEF CallsSound
  <2>4. target'[w] = target[w] \/ target'[w] = None
    BY <1>2
  <2> QED BY <2>2, <2>3, <2>4, <1>3 DEF CallsSound
<1> QED BY <1>2, <1>4, <1>5 DEF CallsSound

LEMMA FinalizeNextStep ==
  ASSUME IInv, FinalizeNext
  PROVE  IInv'
<1> USE DEF IInv
<1> DEFINE n == trash[IndexOf(cursor) + 1]
           g == [Top EXCEPT !.obj = n]
           f == Python({n})
<1>1. /\ Collector /\ phase = "finalize" /\ phase' = phase /\ Top.obj = None
      /\ CursorOnList /\ IndexOf(cursor) < Len(trash) /\ cursor' = n
      /\ IF n \in hasFin \ finalized
           THEN /\ finalized' = finalized \cup {n}
                /\ refcnt' = [refcnt EXCEPT ![n] = @ + 2]
                /\ stack' = Append(Goto(g), f)
                /\ finCalls' = [finCalls EXCEPT ![n] = @ + 1]
           ELSE finalized' = finalized /\ refcnt' = refcnt /\ stack' = stack /\ finCalls' = finCalls
      /\ refs' = refs /\ cbCalls' = cbCalls
      /\ UNCHANGED <<pastVars, world, listVars, weakVars>>
  BY DEF FinalizeNext
<1>2. /\ UNCHANGED <<life, cleared, found, leaked>> /\ hasFin' = hasFin /\ found' = found
      /\ hasDel' = hasDel /\ roots' = roots /\ life' = life /\ woken' = woken
      /\ list' = list /\ gcRefs' = gcRefs /\ trash' = trash /\ target' = target /\ callback' = callback
  BY <1>1 DEF world, fixed, pastVars, listVars, weakVars
<1>3. /\ Len(stack) \in Nat \ {0} /\ DOMAIN stack = 1..Len(stack)
      /\ Len(stack) \in DOMAIN stack /\ Top = stack[Len(stack)] /\ Top.do = "gc" /\ Top \in FrameSet
      /\ \A i \in DOMAIN stack : stack[i].do = "gc" => i = Len(stack)
  BY <1>1, CollectorFacts
<1>4. Top.holds = {}
  BY <1>1, <1>3 DEF CollectorSound
<1>5. IsInjective(trash) /\ DOMAIN trash = 1..Len(trash) /\ Len(trash) \in Nat /\ Collectable = On("unreachable")
  BY <1>1, LenProperties DEF ListSound, Ordered, TypeOK
\* The cursor goes to the next place.
<1>6. PICK k \in 0..Len(trash) :
        k = IndexOf(cursor) /\ k + 1 \in DOMAIN trash /\ (k > 0 => trash[k] = cursor)
  <2>1. CASE cursor = None
    <3>1. IndexOf(cursor) = 0
      BY <2>1 DEF IndexOf
    <3> QED BY <3>1, <1>1, <1>5
  <2>2. CASE cursor \in Collectable
    <3>1. PICK k \in DOMAIN trash : trash[k] = cursor
      BY <2>2 DEF Collectable, Range
    <3>2. IndexOf(cursor) = k
      BY <3>1, <1>5, IndexFacts
    <3>3. k \in 0..Len(trash) /\ k + 1 \in DOMAIN trash
      BY <3>1, <3>2, <1>1, <1>5
    <3> QED BY <3>1, <3>2, <3>3
  <2> QED BY <2>1, <2>2, <1>1 DEF CursorOnList
<1>7. n = trash[k + 1] /\ n \in Nodes /\ n # None /\ n \in Collectable /\ IndexOf(n) = k + 1
  <2>1. n = trash[k + 1]
    BY <1>6
  <2> QED BY <2>1, <1>5, <1>6, IndexFacts
<1> HIDE DEF n
<1>8. list[n] = "unreachable" /\ refcnt[n] > 0 /\ life[n] = "live"
  <2>1. list[n] = "unreachable"
    BY <1>5, <1>7 DEF On
  <2> QED BY <2>1, <1>1, <1>7, TrackedCounted
<1>9. FinalizeSound'
  <2>1. ASSUME NEW i \in DOMAIN trash, NEW j \in DOMAIN trash, trash[j] = n, i <= j, trash[i] \in hasFin
        PROVE  trash[i] \in finalized'
    <3>1. j = k + 1
      BY <2>1, <1>5, <1>7, IndexFacts
    <3>2. CASE i = k + 1
      BY <3>2, <2>1, <1>1, <1>7
    <3>3. CASE i # k + 1
      <4>1. i \in 1..Len(trash) /\ i <= k /\ k > 0 /\ k \in DOMAIN trash
        BY <3>1, <3>3, <2>1, <1>5, <1>6
      <4>2. trash[i] \in finalized
        BY <4>1, <2>1, <1>1, <1>6 DEF FinalizeSound
      <4> QED BY <4>2, <1>1
    <3> QED BY <3>2, <3>3
  <2>2. found \cap hasDel = {} /\ found \cap hasFin \subseteq finalized'
    BY <1>1 DEF FinalizeSound
  <2> QED BY <2>1, <2>2, <1>1, <1>2 DEF FinalizeSound
<1>10. DeleteSound'
  BY <1>1, <1>2, NotClearing
<1>11. ListSound' \/ stack' # stack
  BY <1>1, <1>2 DEF ListSound, On, Collectable
<1>12. TrashSound' /\ WalkSound'
  BY <1>1, NoWalkNext DEF TrashSound
<1>13. CASE n \notin hasFin \ finalized
  <2>1. finalized' = finalized /\ refcnt' = refcnt /\ stack' = stack /\ finCalls' = finCalls
    BY <1>1, <1>13
  <2>2. WalkMoves
    BY <2>1, <1>1, <1>2, <1>4 DEF WalkMoves, weakVars, callVars
  <2>3. TypeOK'
    <3>1. cursor' \in Nodes \cup {None} /\ phase' \in Phases
      BY <1>1, <1>7 DEF TypeOK
    <3> QED BY <3>1, <2>1, <1>1, <1>2 DEF TypeOK, HeapType, world, fixed, pastVars
  <2> QED BY <2>1, <2>2, <2>3, <1>9, <1>10, <1>11, <1>12, WalkStep
<1>14. CASE n \in hasFin \ finalized
  <2>1. /\ finalized' = finalized \cup {n} /\ refcnt' = [refcnt EXCEPT ![n] = @ + 2]
        /\ stack' = Append(Goto(g), f) /\ finCalls' = [finCalls EXCEPT ![n] = @ + 1]
    BY <1>1, <1>14
  <2>2. g \in FrameSet /\ g.do = "gc" /\ g.obj = n /\ g.holds = {}
    BY <1>3, <1>4, <1>7 DEF FrameSet, Code, Deallocs, Dying, Bracketed
  <2>3. f \in FrameSet /\ f.do = "python" /\ f.holds = {n} /\ \A ph, m : Weight(f, ph, m) = One(m \in {n})
    BY <1>7, PythonFrame
  <2> HIDE DEF f, g
  <2>4. n \in Objects
    BY <1>14 DEF TypeOK, HeapType
  <2>5. finCalls[n] = 0
    <3>1. \A i \in DOMAIN stack : stack[i].do = "dealloc.finalized" => stack[i].obj # n
      BY <1>8 DEF ListSound, Deallocs, Bracketed
    <3>2. finCalls[n] # 1 /\ finCalls[n] <= 1
      BY <3>1, <2>4, <1>14 DEF CallsSound
    <3> QED BY <3>2, <2>4 DEF TypeOK
  <2>6. finCalls' \in [Objects -> Nat] /\ finCalls'[n] = 1
        /\ \A m \in Objects : m # n => finCalls'[m] = finCalls[m]
    BY <2>1, <2>4, <2>5 DEF TypeOK
  <2>7. /\ refcnt' \in [Nodes -> Nat] /\ refcnt'[n] = refcnt[n] + 2 /\ refcnt[n] \in Nat
        /\ \A m \in Nodes : m # n => refcnt'[m] = refcnt[m]
    BY <2>1, <1>7 DEF TypeOK, HeapType
  <2>8. Pushed(g, f)
    BY <2>1 DEF Pushed
  <2>9. stack' \in Seq(FrameSet) /\ stack' # <<>>
    BY <2>2, <2>3, <2>8, PushedFacts
  <2>10. TypeOK'
    <3>1. cursor' \in Nodes \cup {None} /\ phase' \in Phases /\ finalized' \in SUBSET Objects
      BY <2>1, <2>4, <1>1, <1>7 DEF TypeOK
    <3> QED BY <3>1, <2>6, <2>7, <2>9, <1>1, <1>2 DEF TypeOK, HeapType, world, fixed, pastVars
  <2>11. CountsTrue'
    <3>1. ASSUME NEW m \in Nodes
          PROVE  refcnt'[m] = refcnt[m] + Owed(stack', phase', m) - Owed(stack, phase, m)
      <4>1. Owed(stack', phase, m)
              = Owed(stack, phase, m) - Weight(Top, phase, m) + Weight(g, phase, m) + Weight(f, phase, m)
        BY <2>1, <2>2, <2>3, CallOwed
      <4>2. Weight(Top, phase, m) = 0
        BY <1>1, <1>3, <1>4, CollectorWeight, NoneIsNoNode DEF One
      <4>3. Weight(g, phase, m) = One(m = n)
        BY <1>1, <2>2, CollectorWeight DEF One
      <4>4. Weight(f, phase, m) = One(m = n)
        BY <2>3 DEF One
      <4>5. Owed(stack, phase, m) \in Nat /\ refcnt[m] \in Nat
        BY OwedNat DEF TypeOK, HeapType
      <4>6. Owed(stack', phase', m) = Owed(stack, phase, m) + One(m = n) + One(m = n)
        BY <4>1, <4>2, <4>3, <4>4, <4>5, <1>1 DEF One
      <4>7. CASE m = n
        BY <4>5, <4>6, <4>7, <2>7 DEF One
      <4>8. CASE m # n
        BY <4>5, <4>6, <4>8, <2>7 DEF One
      <4> QED BY <4>7, <4>8
    <3> QED BY <3>1, <2>9, <1>1, <1>2, CountsMove
  <2>12. CollectorMoves(g, f)
    <3>1. \A m \in Nodes : refcnt'[m] = refcnt[m] \/ (refcnt[m] > 0 /\ refcnt'[m] > 0)
      BY <2>7, <1>8
    <3>2. Collectable' = Collectable
      BY <1>2 DEF Collectable
    <3> QED BY <3>1, <3>2, <2>2, <2>3, <2>8, <1>1, <1>2, <1>7 DEF CollectorMoves
  <2>13. ListSound'
    <3>1. \A i \in DOMAIN stack' : stack'[i].do \in Deallocs => i \in DOMAIN stack /\ stack'[i] = stack[i]
      BY <2>12, CollectorFrames
    <3>2. \A i \in DOMAIN stack' : stack'[i].do \in Deallocs \ {"dealloc"} =>
            list'[stack'[i].obj] \notin {"unreachable", "finalizers"}
      BY <3>1, <1>2 DEF ListSound
    <3> QED BY <3>2, <1>1, <1>2 DEF ListSound, On, Collectable
  <2>14. CallsSound'
    BY <2>1, <2>6, <2>12, <2>13, <1>1, CallsKept
  <2> QED BY <2>10, <2>11, <2>12, <2>13, <2>14, <1>9, <1>10, <1>12, CollectorStep
<1> QED BY <1>13, <1>14

LEMMA ClearFirstStep ==
  ASSUME IInv, ClearFirst
  PROVE  IInv'
<1> USE DEF IInv
<1> DEFINE n == Head(trash)
           g == [Top EXCEPT !.obj = n]
           f == Frame("gc.clear", n, {})
<1>1. /\ Collector /\ phase = "delete" /\ phase' = phase /\ Top.obj = None /\ trash # <<>>
      /\ refcnt' = Incref({n})
      /\ IF n \in Weakrefs THEN ClearRefs({n}) /\ callback' = callback \ {n}
                           ELSE target' = target /\ callback' = callback
      /\ cleared' = cleared \cup {n}
      /\ stack' = Append(Goto(g), f)
      /\ refs' = refs /\ finalized' = finalized /\ cursor' = cursor /\ found' = found
      /\ leaked' = leaked /\ woken' = woken
      /\ UNCHANGED <<callVars, world, listVars>>
  BY DEF ClearFirst, weakVars
<1>2. /\ life' = life /\ hasFin' = hasFin /\ hasDel' = hasDel /\ roots' = roots
      /\ list' = list /\ gcRefs' = gcRefs /\ trash' = trash /\ finCalls' = finCalls /\ cbCalls' = cbCalls
  BY <1>1 DEF world, fixed, listVars, callVars
<1>3. /\ Len(stack) \in Nat \ {0} /\ DOMAIN stack = 1..Len(stack)
      /\ Len(stack) \in DOMAIN stack /\ Top = stack[Len(stack)] /\ Top.do = "gc" /\ Top \in FrameSet
      /\ \A i \in DOMAIN stack : stack[i].do = "gc" => i = Len(stack)
  BY <1>1, CollectorFacts
<1>4. Top.holds = {}
  BY <1>1, <1>3 DEF CollectorSound
<1>5. n \in Nodes /\ n # None /\ n \in Collectable /\ n \in found /\ list[n] = "unreachable"
  <2>1. 1 \in DOMAIN trash /\ n = trash[1]
    BY <1>1, EmptySeq, LenProperties DEF TypeOK
  <2>2. IsInjective(trash) /\ Collectable = On("unreachable")
    BY <1>1 DEF ListSound, Ordered
  <2>3. n \in Nodes /\ n # None /\ n \in Collectable
    BY <2>1, <2>2, IndexFacts
  <2> QED BY <2>2, <2>3, <1>1 DEF On, DeleteSound, FoundSound
<1>6. g \in FrameSet /\ g.do = "gc" /\ g.obj = n /\ g.holds = {}
  BY <1>3, <1>4, <1>5 DEF FrameSet, Code, Deallocs, Dying, Bracketed
<1>7. /\ f \in FrameSet /\ f.do = "gc.clear" /\ f.obj = n /\ f.holds = {}
      /\ \A ph, m : Weight(f, ph, m) = One(m = n)
  BY <1>5 DEF Frame, FrameSet, Deallocs, Dying, Bracketed, Code, Weight, One, Keepers
<1> HIDE DEF f, g, n
<1>8. refcnt[n] > 0 /\ life[n] = "live"
  BY <1>1, <1>5, TrackedCounted
<1>9. /\ target' \in [Weakrefs -> Objects \cup {None}] /\ callback' \in SUBSET Weakrefs
      /\ \A w \in Weakrefs : target'[w] = target[w] \/ target'[w] = None
  BY <1>1 DEF ClearRefs, TypeOK, HeapType
<1>11. /\ refcnt' \in [Nodes -> Nat] /\ refcnt'[n] = refcnt[n] + 1 /\ refcnt[n] \in Nat
       /\ \A m \in Nodes : m # n => refcnt'[m] = refcnt[m]
  BY <1>1, <1>5 DEF Incref, TypeOK, HeapType
<1>14. Pushed(g, f)
  BY <1>1 DEF Pushed
<1>15. stack' \in Seq(FrameSet) /\ stack' # <<>>
  BY <1>6, <1>7, <1>14, PushedFacts
<1>16. TypeOK'
  <2>1. phase' \in Phases /\ cleared' \in SUBSET Nodes
    BY <1>1, <1>5 DEF TypeOK
  <2> QED BY <2>1, <1>1, <1>2, <1>9, <1>11, <1>15 DEF TypeOK, HeapType
<1>17. CountsTrue'
  <2>1. ASSUME NEW m \in Nodes
        PROVE  refcnt'[m] = refcnt[m] + Owed(stack', phase', m) - Owed(stack, phase, m)
    <3>1. Owed(stack', phase, m)
            = Owed(stack, phase, m) - Weight(Top, phase, m) + Weight(g, phase, m) + Weight(f, phase, m)
      BY <1>1, <1>6, <1>7, CallOwed
    <3>2. Weight(Top, phase, m) = 0 /\ Weight(g, phase, m) = 0
      BY <1>1, <1>3, <1>4, <1>6, CollectorWeight DEF One
    <3>3. Weight(f, phase, m) = One(m = n)
      BY <1>7
    <3>4. Owed(stack, phase, m) \in Nat /\ refcnt[m] \in Nat
      BY OwedNat DEF TypeOK, HeapType
    <3>5. Owed(stack', phase', m) = Owed(stack, phase, m) + One(m = n)
      BY <3>1, <3>2, <3>3, <3>4, <1>1 DEF One
    <3>6. CASE m = n
      BY <3>4, <3>5, <3>6, <1>11 DEF One
    <3>7. CASE m # n
      BY <3>4, <3>5, <3>7, <1>11 DEF One
    <3> QED BY <3>6, <3>7
  <2> QED BY <2>1, <1>1, <1>2, <1>15, CountsMove
<1>18. CollectorMoves(g, f)
  <2>1. \A m \in Nodes : refcnt'[m] = refcnt[m] \/ (refcnt[m] > 0 /\ refcnt'[m] > 0)
    BY <1>8, <1>11
  <2> QED BY <2>1, <1>1, <1>2, <1>5, <1>6, <1>7, <1>9, <1>14 DEF CollectorMoves
<1>20. /\ \A i \in DOMAIN stack' : stack'[i].do \in Deallocs => i \in DOMAIN stack /\ stack'[i] = stack[i]
       /\ \A i \in DOMAIN stack : stack[i].do \in Deallocs => i \in DOMAIN stack' /\ stack'[i] = stack[i]
  BY <1>18, CollectorFrames
<1>g. /\ \A i \in DOMAIN stack' : stack'[i].do = "gc" => i = Len(stack)
      /\ stack'[Len(stack)] = g
      /\ \A i \in DOMAIN stack' : i \notin DOMAIN stack => stack'[i] = f
      /\ \A i \in DOMAIN stack : i \in DOMAIN stack' /\ (i # Len(stack) => stack'[i] = stack[i])
  BY <1>18, CollectorFrames
<1>h. \A i \in DOMAIN stack' : stack'[i].holds = {} \/ (i \in DOMAIN stack /\ stack'[i] = stack[i])
  BY <1>g, <1>6, <1>7
<1>21. ListSound'
  <2>1. \A i \in DOMAIN stack' : stack'[i].do \in Deallocs \ {"dealloc"} =>
          list'[stack'[i].obj] \notin {"unreachable", "finalizers"}
    BY <1>2, <1>20 DEF ListSound
  <2> QED BY <2>1, <1>1, <1>2 DEF ListSound, On, Collectable
<1>22. TrashSound'
  BY <1>1 DEF TrashSound
<1>23. FinalizeSound'
  BY <1>1, <1>2, NotFinalizing
<1>24. DeleteSound'
  <2>0. Collectable' = Collectable
    BY <1>2 DEF Collectable
  <2>1. FoundSound'
    <3>1. \A i \in DOMAIN stack' : stack'[i].do \in Bracketed => stack'[i].obj \notin found
      BY <1>1, <1>20 DEF DeleteSound, FoundSound, Deallocs
    <3> QED BY <2>0, <3>1, <1>1, <1>2 DEF DeleteSound, FoundSound
  <2>2. ClearedSound'
    BY <1>1, <1>2, <1>5 DEF DeleteSound, ClearedSound
  <2>3. FoundSealed'
    <3> SUFFICES ASSUME ~leaked PROVE FoundSealed'
      BY <1>1 DEF FoundSealed
    <3>1. \A x \in found :
            /\ From(Nodes, x) \subseteq found
            /\ x \notin roots
            /\ \A i \in DOMAIN stack : stack[i].do # "dealloc.callbacks" => x \notin stack[i].holds
      BY <1>1 DEF DeleteSound, FoundSealed, Sealed
    <3>2. \A i \in DOMAIN stack :
            /\ stack[i].holds \cap found # {} => i > Len(stack)
            /\ stack[i].do \in Deallocs /\ stack[i].obj \in found => i > Len(stack)
      BY <1>1, <1>3 DEF DeleteSound, FoundSealed
    <3>3. Sealed(found)'
      BY <3>1, <1>h, <1>1, <1>2 DEF Sealed, From
    <3>4. ASSUME NEW i \in DOMAIN stack', NEW j \in DOMAIN stack', stack'[j].do = "gc"
          PROVE  /\ stack'[i].holds \cap found # {} => i > j
                 /\ stack'[i].do \in Deallocs /\ stack'[i].obj \in found => i > j
                 /\ stack'[j].obj # None => refs[stack'[j].obj] = {} \/ Is(j + 1, "gc.clear")'
      <4>1. j = Len(stack)
        BY <3>4, <1>g
      <4>2. stack'[i].holds \cap found # {} => i > j
        BY <4>1, <3>2, <1>h
      <4>3. stack'[i].do \in Deallocs /\ stack'[i].obj \in found => i > j
        BY <4>1, <3>2, <1>20
      <4>4. Is(j + 1, "gc.clear")'
        <5>1. Len(stack') = Len(stack) + 1 /\ DOMAIN stack' = 1..Len(stack')
          <6>1. PICK s : s = Goto(g)
            OBVIOUS
          <6>2. s \in Seq(FrameSet) /\ Len(s) = Len(stack)
            BY <6>1, <1>6, GotoFacts
          <6>3. Len(stack') = Len(s) + 1 /\ DOMAIN stack' = 1..(Len(s) + 1)
            BY <6>1, <6>2, <1>1, <1>7, PushFacts
          <6> QED BY <6>2, <6>3
        <5>2. j + 1 \in DOMAIN stack' /\ j + 1 \notin DOMAIN stack
          BY <4>1, <5>1, <1>3
        <5> QED BY <5>2, <1>7, <1>g DEF Is
      <4> QED BY <4>2, <4>3, <4>4
    <3>5. \A x \in found \ Collectable :
            \/ refs[x] = {}
            \/ \E i \in DOMAIN stack' : stack'[i].do \in Dying /\ stack'[i].obj = x
      <4>1. \A i \in DOMAIN stack : stack[i].do \in Dying => i \in DOMAIN stack' /\ stack'[i] = stack[i]
        BY <1>20 DEF Deallocs
      <4> QED BY <4>1, <1>1 DEF DeleteSound, FoundSealed
    <3> QED BY <2>0, <3>3, <3>4, <3>5, <1>1 DEF FoundSealed
  <2> QED BY <2>1, <2>2, <2>3 DEF DeleteSound
<1>25. CallsSound'
  BY <1>1, <1>2, <1>18, <1>21, CallsKept
<1> QED BY <1>16, <1>17, <1>18, <1>21, <1>22, <1>23, <1>24, <1>25, CollectorStep

LEMMA KeepOrForgetStep ==
  ASSUME IInv, KeepOrForget
  PROVE  IInv'
<1> USE DEF IInv
<1> DEFINE n == Top.obj
           g == [Top EXCEPT !.obj = None]
           f == Python({})
<1>1. /\ Collector /\ phase = "delete" /\ phase' = phase /\ n # None
      /\ IF trash # <<>> /\ Head(trash) = n THEN Track(n, "old")
         ELSE list' = list /\ gcRefs' = gcRefs /\ trash' = trash
      /\ stack' = Goto(g) /\ refcnt' = refcnt
      /\ refs' = refs /\ finalized' = finalized /\ cursor' = cursor
      /\ UNCHANGED <<callVars, pastVars, world, weakVars>>
  BY DEF KeepOrForget, listVars
<1>2. /\ life' = life /\ hasFin' = hasFin /\ hasDel' = hasDel /\ roots' = roots
      /\ target' = target /\ callback' = callback /\ finCalls' = finCalls /\ cbCalls' = cbCalls
      /\ cleared' = cleared /\ found' = found /\ leaked' = leaked /\ woken' = woken
  BY <1>1 DEF world, fixed, weakVars, callVars, pastVars
<1>3. /\ Len(stack) \in Nat \ {0} /\ DOMAIN stack = 1..Len(stack)
      /\ Len(stack) \in DOMAIN stack /\ Top = stack[Len(stack)] /\ Top.do = "gc" /\ Top \in FrameSet
      /\ \A i \in DOMAIN stack : stack[i].do = "gc" => i = Len(stack)
      /\ n \in Nodes \cup {None}
      /\ \A i \in DOMAIN stack : stack[i].do # "gc.clear"
  BY <1>1, CollectorFacts
<1>4. Top.holds = {} /\ n \in Nodes /\ n \in found
  BY <1>1, <1>3 DEF CollectorSound
<1>6. g \in FrameSet /\ g.do = "gc" /\ g.obj = None /\ g.holds = {}
  BY <1>3, <1>4 DEF FrameSet, Code, Deallocs, Dying, Bracketed
<1>7. f \in FrameSet /\ f.do = "python"
  BY PythonFrame
<1>w. Top.obj = n
  OBVIOUS
<1> HIDE DEF f, g, n
<1>8. IsInjective(trash) /\ Collectable = On("unreachable") /\ On("unreachable") \cap hasDel = {}
  BY <1>1 DEF ListSound, Ordered
<1>9. /\ list' \in [Nodes -> Lists] /\ gcRefs' \in [Nodes -> Int] /\ trash' \in Seq(Nodes)
      /\ IsInjective(trash')
      /\ Collectable' = On("unreachable")' /\ On("unreachable")' \subseteq On("unreachable")
      /\ \A x \in Collectable : x \in Collectable' \/ x = n
      /\ \A x \in Nodes : \/ list'[x] = list[x] /\ gcRefs'[x] = gcRefs[x]
                          \/ list[x] = "unreachable" /\ list'[x] = "old" /\ gcRefs'[x] \in {GC_UNTRACKED, GC_REACHABLE}
  <2>1. CASE trash # <<>> /\ Head(trash) = n
    <3>1. /\ list' \in [Nodes -> Lists] /\ list'[n] = "old" /\ \A x \in Nodes : x # n => list'[x] = list[x]
          /\ gcRefs' \in [Nodes -> Int] /\ gcRefs'[n] \in {GC_UNTRACKED, GC_REACHABLE}
          /\ \A x \in Nodes : x # n => gcRefs'[x] = gcRefs[x]
          /\ Sublist(trash') /\ Collectable' = Collectable \ {n}
          /\ On("unreachable")' = On("unreachable") \ {n}
      BY <2>1, <1>1, <1>4, TrackFacts
    <3>2. 1 \in DOMAIN trash /\ n = trash[1]
      BY <2>1, EmptySeq, LenProperties DEF TypeOK
    <3>3. list[n] = "unreachable"
      BY <3>2, <1>8, IndexFacts DEF On
    <3>4. trash' \in Seq(Nodes) /\ IsInjective(trash')
      BY <3>1, <1>8 DEF Sublist
    <3>5. ASSUME NEW x \in Nodes
          PROVE  \/ list'[x] = list[x] /\ gcRefs'[x] = gcRefs[x]
                 \/ list[x] = "unreachable" /\ list'[x] = "old" /\ gcRefs'[x] \in {GC_UNTRACKED, GC_REACHABLE}
      BY <3>1, <3>3
    <3> QED BY <3>1, <3>4, <3>5, <1>8
  <2>2. CASE ~(trash # <<>> /\ Head(trash) = n)
    <3>1. list' = list /\ gcRefs' = gcRefs /\ trash' = trash
      BY <2>2, <1>1
    <3>2. Collectable' = Collectable /\ On("unreachable")' = On("unreachable")
      BY <3>1 DEF Collectable, On
    <3> QED BY <3>1, <3>2, <1>8 DEF TypeOK
  <2> QED BY <2>1, <2>2
<1>14. Pushed(g, f)
  BY <1>1 DEF Pushed
<1>15. /\ stack' \in Seq(FrameSet) /\ stack' # <<>>
       /\ \A ph, m : Owed(stack', ph, m) = Owed(stack, ph, m) - Weight(Top, ph, m) + Weight(g, ph, m)
  BY <1>1, <1>6, GotoFacts
<1>16. TypeOK'
  <2>1. phase' \in Phases
    BY <1>1 DEF TypeOK
  <2> QED BY <2>1, <1>1, <1>2, <1>9, <1>15 DEF TypeOK, HeapType
<1>17. CountsTrue'
  <2>1. ASSUME NEW m \in Nodes
        PROVE  refcnt'[m] = refcnt[m] + Owed(stack', phase', m) - Owed(stack, phase, m)
    <3>2. Weight(Top, phase, m) = 0 /\ Weight(g, phase, m) = 0
      BY <1>1, <1>3, <1>4, <1>6, CollectorWeight DEF One
    <3>4. Owed(stack, phase, m) \in Nat /\ refcnt[m] \in Nat
      BY OwedNat DEF TypeOK, HeapType
    <3>5. Owed(stack', phase', m) = Owed(stack, phase, m)
      BY <3>2, <3>4, <1>1, <1>15
    <3> QED BY <3>4, <3>5, <1>1
  <2> QED BY <2>1, <1>1, <1>2, <1>15, CountsMove
<1>18. CollectorMoves(g, f)
  <2>4. \A x \in Nodes : list[x] = "none" => list'[x] = "none"
    BY <1>9
  <2>5. \A x \in Nodes : refcnt'[x] = refcnt[x]
    BY <1>1
  <2> QED BY <2>4, <2>5, <1>1, <1>2, <1>6, <1>7, <1>14 DEF CollectorMoves
<1>20. /\ \A i \in DOMAIN stack' : stack'[i].do \in Deallocs => i \in DOMAIN stack /\ stack'[i] = stack[i]
       /\ \A i \in DOMAIN stack : stack[i].do \in Deallocs => i \in DOMAIN stack' /\ stack'[i] = stack[i]
  BY <1>18, CollectorFrames
<1>g. /\ \A i \in DOMAIN stack' : stack'[i].do = "gc" => i = Len(stack)
      /\ stack'[Len(stack)] = g
      /\ \A i \in DOMAIN stack : i \in DOMAIN stack' /\ (i # Len(stack) => stack'[i] = stack[i])
  BY <1>18, CollectorFrames
<1>s. DOMAIN stack' = DOMAIN stack
  <2>0. DOMAIN stack' = 1..Len(stack)
    BY <1>1, <1>6, GotoFacts
  <2> QED BY <2>0, <1>3, Zenon
<1>h. \A i \in DOMAIN stack' : stack'[i].holds = {} \/ (i \in DOMAIN stack /\ stack'[i] = stack[i])
  BY <1>g, <1>s, <1>6
<1>21. ListSound'
  <2>1. \A i \in DOMAIN stack' : stack'[i].do \in Deallocs \ {"dealloc"} =>
          list'[stack'[i].obj] \notin {"unreachable", "finalizers"}
    <3>1. \A i \in DOMAIN stack : stack[i].do \in Deallocs \ {"dealloc"} =>
            stack[i].obj \in Nodes /\ list[stack[i].obj] \notin {"unreachable", "finalizers"}
      BY FrameFacts DEF ListSound
    <3>2. \A x \in Nodes : list'[x] \in {list[x], "old"}
      BY <1>9
    <3> QED BY <3>1, <3>2, <1>20
  <2>2. \A x \in Nodes : list'[x] # "callbacks"
    BY <1>1, <1>9 DEF ListSound
  <2>3. ASSUME NEW x \in Nodes
        PROVE  gcRefs'[x] \in {GC_UNTRACKED, GC_REACHABLE} \/ list'[x] = "unreachable"
    <3>1. gcRefs[x] \in {GC_UNTRACKED, GC_REACHABLE} \/ list[x] = "unreachable"
      BY <1>1 DEF ListSound
    <3> QED BY <3>1, <1>9
  <2>4. On("unreachable")' \cap hasDel = {}
    BY <1>8, <1>9
  <2> QED BY <2>1, <2>2, <2>3, <2>4, <1>1, <1>2, <1>9 DEF ListSound, Ordered
<1>22. TrashSound'
  BY <1>1 DEF TrashSound
<1>23. FinalizeSound'
  BY <1>1, <1>2, NotFinalizing
<1>24. DeleteSound'
  <2>1. FoundSound'
    <3>1. \A i \in DOMAIN stack' : stack'[i].do \in Bracketed => stack'[i].obj \notin found
      BY <1>1, <1>20 DEF DeleteSound, FoundSound, Deallocs
    <3>2. Collectable' \subseteq found
      BY <1>1, <1>8, <1>9 DEF DeleteSound, FoundSound
    <3> QED BY <3>1, <3>2, <1>1, <1>2 DEF DeleteSound, FoundSound
  <2>2. ClearedSound'
    BY <1>1, <1>2 DEF DeleteSound, ClearedSound
  <2>3. FoundSealed'
    <3> SUFFICES ASSUME ~leaked PROVE FoundSealed'
      BY <1>2 DEF FoundSealed
    <3>1. \A x \in found :
            /\ From(Nodes, x) \subseteq found
            /\ x \notin roots
            /\ \A i \in DOMAIN stack : stack[i].do # "dealloc.callbacks" => x \notin stack[i].holds
      BY <1>1 DEF DeleteSound, FoundSealed, Sealed
    <3>2. /\ \A i \in DOMAIN stack :
               /\ stack[i].holds \cap found # {} => i > Len(stack)
               /\ stack[i].do \in Deallocs /\ stack[i].obj \in found => i > Len(stack)
          /\ refs[n] = {}
      <4>1. ~Is(Len(stack) + 1, "gc.clear")
        BY <1>3 DEF Is
      <4> QED BY <4>1, <1>1, <1>3, <1>w DEF DeleteSound, FoundSealed
    <3>3. Sealed(found)'
      BY <3>1, <1>h, <1>1, <1>2 DEF Sealed, From
    <3>4. ASSUME NEW i \in DOMAIN stack', NEW j \in DOMAIN stack', stack'[j].do = "gc"
          PROVE  /\ stack'[i].holds \cap found # {} => i > j
                 /\ stack'[i].do \in Deallocs /\ stack'[i].obj \in found => i > j
                 /\ stack'[j].obj = None
      <4>1. j = Len(stack)
        BY <3>4, <1>g
      <4>2. stack'[i].holds \cap found # {} => i > j
        BY <4>1, <3>2, <1>h
      <4>3. stack'[i].do \in Deallocs /\ stack'[i].obj \in found => i > j
        BY <4>1, <3>2, <1>20
      <4> QED BY <4>1, <4>2, <4>3, <1>g, <1>6
    <3>5. \A x \in found \ Collectable' :
            \/ refs[x] = {}
            \/ \E i \in DOMAIN stack' : stack'[i].do \in Dying /\ stack'[i].obj = x
      <4>1. \A i \in DOMAIN stack : stack[i].do \in Dying => i \in DOMAIN stack' /\ stack'[i] = stack[i]
        BY <1>20 DEF Deallocs
      <4>2. \A x \in found \ Collectable :
              \/ refs[x] = {}
              \/ \E i \in DOMAIN stack : stack[i].do \in Dying /\ stack[i].obj = x
        BY <1>1 DEF DeleteSound, FoundSealed
      <4>3. \A x \in found \ Collectable' : x \in found \ Collectable \/ x = n
        BY <1>9
      <4> QED BY <4>1, <4>2, <4>3, <3>2
    <3> QED BY <3>3, <3>4, <3>5, <1>1, <1>2 DEF FoundSealed
  <2> QED BY <2>1, <2>2, <2>3 DEF DeleteSound
<1>25. CallsSound'
  BY <1>1, <1>2, <1>18, <1>21, CallsKept
<1> QED BY <1>16, <1>17, <1>18, <1>21, <1>22, <1>23, <1>24, <1>25, CollectorStep

LEMMA CollectStep ==
  ASSUME IInv, NEW full \in BOOLEAN, Collect(full)
  PROVE  IInv'
<1> USE DEF IInv
<1> DEFINE f == Frame("gc", None, {})
<1>1. /\ InPython /\ phase = "idle" /\ phase' = "update_refs"
      /\ list' = [n \in Nodes |-> IF full /\ list[n] = "old" THEN "young" ELSE list[n]]
      /\ stack' = Append(stack, f)
      /\ refs' = refs /\ refcnt' = refcnt /\ gcRefs' = gcRefs /\ roots' = roots /\ life' = life
      /\ hasFin' = hasFin /\ hasDel' = hasDel /\ finalized' = finalized /\ trash' = trash /\ cursor' = cursor
      /\ target' = target /\ callback' = callback /\ finCalls' = finCalls /\ cbCalls' = cbCalls
      /\ cleared' = cleared /\ found' = found /\ leaked' = leaked /\ woken' = woken
  BY DEF Collect, Collecting, fixed, callVars, pastVars, weakVars
<1>2. /\ stack \in Seq(FrameSet) /\ stack # <<>> /\ Len(stack) \in Nat \ {0}
      /\ DOMAIN stack = 1..Len(stack) /\ Len(stack) \in DOMAIN stack /\ Top = stack[Len(stack)]
  BY TopFacts
<1>3. f \in FrameSet /\ f.do = "gc" /\ f.obj = None /\ f.holds = {}
  BY DEF Frame, FrameSet, Deallocs, Dying, Bracketed, Code
<1>v. f = Frame("gc", None, {})
  OBVIOUS
<1> HIDE DEF f
<1>4. /\ stack' \in Seq(FrameSet) /\ stack' # <<>>
      /\ Len(stack') = Len(stack) + 1 /\ DOMAIN stack' = 1..(Len(stack) + 1)
      /\ \A i \in 1..Len(stack) : stack'[i] = stack[i]
      /\ stack'[Len(stack) + 1] = f
  BY <1>1, <1>2, <1>3, PushFacts
<1>5. /\ \A i \in DOMAIN stack : i \in DOMAIN stack' /\ stack'[i] = stack[i]
      /\ \A i \in DOMAIN stack' : i \in DOMAIN stack \/ (i = Len(stack) + 1 /\ stack'[i] = f)
  BY <1>2, <1>4
<1>6. /\ \A i \in DOMAIN stack : stack[i].do # "gc"
      /\ \A i \in DOMAIN stack : stack[i].do # "gc.clear"
  BY <1>1 DEF CollectorSound
<1>7. \A i \in DOMAIN stack' : stack'[i].do \in Deallocs => i \in DOMAIN stack /\ stack'[i] = stack[i]
  BY <1>3, <1>5 DEF Deallocs, Dying, Bracketed
<1>8. \A i \in DOMAIN stack : stack[i].do # "dealloc"
  BY <1>1, <1>2 DEF StackSound, InPython
<1>9. /\ list' \in [Nodes -> Lists]
      /\ \A n \in Nodes : list'[n] = list[n] \/ (list[n] = "old" /\ list'[n] = "young")
  BY <1>1 DEF TypeOK, Lists
<1>10. TypeOK'
  <2>1. phase' \in Phases
    BY <1>1 DEF Phases
  <2> QED BY <2>1, <1>1, <1>4, <1>9 DEF TypeOK, HeapType
<1>11. StackSound'
  <2>1. stack'[1].do = "python"
    BY <1>2, <1>5 DEF StackSound
  <2>2. \A i, j \in DOMAIN stack' :
          stack'[i].do \in Deallocs /\ stack'[j].do \in Deallocs /\ stack'[i].obj = stack'[j].obj => i = j
    BY <1>7 DEF StackSound
  <2>3. \A i \in DOMAIN stack' : stack'[i].do # "dealloc"
    BY <1>3, <1>5, <1>8
  <2>4. \A i \in DOMAIN stack' : stack'[i].do = "dealloc.deleted" => stack'[i].obj \in hasDel
    BY <1>7 DEF StackSound, Deallocs, Bracketed
  <2> QED BY <2>1, <2>2, <2>3, <2>4, <1>1 DEF StackSound
<1>12. CollectorSound'
  <2>1. \A i \in DOMAIN stack' : stack'[i].do = "gc" => i = Len(stack) + 1 /\ stack'[i] = f
    BY <1>5, <1>6
  <2>2. Len(stack) + 1 \in DOMAIN stack' /\ stack'[Len(stack) + 1].do = "gc"
    BY <1>2, <1>3, <1>4
  <2>3. Top' = f
    BY <1>4 DEF Top
  <2>4. \A i \in DOMAIN stack' : stack'[i].do # "gc.clear"
    BY <1>3, <1>5, <1>6
  <2>5. \A i, j \in DOMAIN stack' : stack'[i].do = "gc" /\ stack'[j].do = "gc" => i = j
    BY <2>1
  <2>6. \A i \in DOMAIN stack' : stack'[i].do = "gc" => stack'[i].holds = {} /\ stack'[i].obj = None
    BY <2>1, <1>3
  <2> QED BY <2>2, <2>3, <2>4, <2>5, <2>6, <1>1, <1>v DEF CollectorSound
<1>13. CountsTrue'
  <2>1. ASSUME NEW m \in Nodes
        PROVE  refcnt'[m] = refcnt[m] + Owed(stack', phase', m) - Owed(stack, phase, m)
    <3>1. Owed(stack', phase', m) = Owed(stack, phase', m) + Weight(f, phase', m)
      BY <1>1, <1>2, <1>3, OwedAppend
    <3>2. Owed(stack, phase', m) = Owed(stack, phase, m)
      BY <1>2, <1>6, OwedPhase
    <3>3. Weight(f, phase', m) = 0
      BY <1>3, NoneIsNoNode, CollectorWeight DEF One
    <3>4. Owed(stack, phase, m) \in Nat /\ refcnt[m] \in Nat
      BY OwedNat DEF TypeOK, HeapType
    <3> QED BY <3>1, <3>2, <3>3, <3>4, <1>1
  <2> QED BY <2>1, <1>1, <1>4, CountsMove
<1>14. LifeSound'
  <2>1. NotLive'
    BY <1>1, <1>9 DEF LifeSound, NotLive
  <2>2. ZeroLeaves'
    BY <1>1, <1>5 DEF LifeSound, ZeroLeaves
  <2>3. LeavingSound'
    <3>1. \A i \in DOMAIN stack' : stack'[i].do \in Deallocs => life[stack'[i].obj] = "live"
      BY <1>7 DEF LifeSound, LeavingSound
    <3>2. \A i \in DOMAIN stack' : stack'[i].do \in Dying => refcnt[stack'[i].obj] = 0
      BY <1>7 DEF LifeSound, LeavingSound, Deallocs
    <3>3. ASSUME NEW i \in DOMAIN stack', stack'[i].do = "dealloc.clear"
          PROVE  /\ list'[stack'[i].obj] = "none"
                 /\ stack'[i].obj \in Weakrefs => target[stack'[i].obj] = None
      <4>1. i \in DOMAIN stack /\ stack'[i] = stack[i]
        BY <3>3, <1>7 DEF Deallocs, Dying
      <4>2. stack[i].obj \in Nodes
        BY <3>3, <4>1, FrameFacts DEF Deallocs, Dying
      <4>3. list'[stack[i].obj] = "none"
        BY <3>3, <4>1, <4>2, <1>9 DEF LifeSound, LeavingSound
      <4> QED BY <3>3, <4>1, <4>3 DEF LifeSound, LeavingSound
    <3> QED BY <3>1, <3>2, <3>3, <1>1 DEF LeavingSound
  <2> QED BY <2>1, <2>2, <2>3 DEF LifeSound
<1>15. WeakSound'
  <2>1. ASSUME NEW i \in DOMAIN stack', NEW w \in Weakrefs,
               \/ stack'[i].do \in {"dealloc.callbacks", "dealloc.clear"}
               \/ stack'[i].do = "dealloc.untrack" /\ stack'[i].obj \notin hasDel
        PROVE  target[w] # stack'[i].obj
    <3>1. stack'[i].do \in Deallocs
      BY <2>1 DEF Deallocs, Dying
    <3>2. i \in DOMAIN stack /\ stack'[i] = stack[i]
      BY <3>1, <1>7
    <3> QED BY <2>1, <3>2 DEF WeakSound
  <2> QED BY <2>1, <1>1 DEF WeakSound
<1>16. ListSound'
  <2>1. \A i \in DOMAIN stack' : stack'[i].do \in Deallocs \ {"dealloc"} =>
          list'[stack'[i].obj] \notin {"unreachable", "finalizers"}
    <3>1. \A i \in DOMAIN stack : stack[i].do \in Deallocs \ {"dealloc"} =>
            stack[i].obj \in Nodes /\ list[stack[i].obj] \notin {"unreachable", "finalizers"}
      BY FrameFacts DEF ListSound
    <3>2. \A x \in Nodes : list'[x] \in {list[x], "young"}
      BY <1>9
    <3> QED BY <3>1, <3>2, <1>7
  <2>2. \A x \in Nodes : list'[x] # "callbacks"
    BY <1>1, <1>9 DEF ListSound
  <2>3. On("unreachable") = {} /\ On("unreachable")' = {} /\ trash' = <<>>
    <3>1. On("unreachable") = {} /\ trash = <<>>
      BY <1>1 DEF ListSound, Ordered
    <3> QED BY <3>1, <1>1, <1>9 DEF On
  <2>4. \A x \in Nodes : gcRefs'[x] \in {GC_UNTRACKED, GC_REACHABLE}
    <3>1. \A x \in Nodes : list[x] # "unreachable"
      BY <2>3 DEF On
    <3> QED BY <3>1, <1>1 DEF ListSound
  <2> QED BY <2>1, <2>2, <2>3, <2>4, <1>1 DEF ListSound, Ordered
<1>17. WalkSound' /\ TrashSound'
  BY <1>1, NoWalkNext DEF TrashSound
<1>18. FinalizeSound' /\ DeleteSound'
  BY <1>1, NotClearing, NotFinalizing
<1>19. CallsSound'
  <2>1. ASSUME NEW n \in Objects
        PROVE  /\ finCalls[n] <= 1
               /\ finCalls[n] = 1 => n \in finalized \/ \E i \in DOMAIN stack' :
                    stack'[i].do = "dealloc.finalized" /\ stack'[i].obj = n
    BY <1>5 DEF CallsSound
  <2>2. \A i \in DOMAIN stack' : stack'[i].do = "dealloc.callbacks" => i \in DOMAIN stack /\ stack'[i] = stack[i]
    BY <1>7 DEF Deallocs, Dying
  <2>3. ASSUME NEW w \in Weakrefs
        PROVE  /\ cbCalls[w] <= 1
               /\ life[w] = "new" => cbCalls[w] = 0
               /\ target[w] # None => cbCalls[w] = 0
               /\ list'[w] # "callbacks"
               /\ \A i \in DOMAIN stack' : stack'[i].do = "dealloc.callbacks" /\ w \in stack'[i].holds =>
                    /\ cbCalls[w] = 0 /\ target[w] = None
                    /\ \A j \in DOMAIN stack' :
                         stack'[j].do = "dealloc.callbacks" /\ w \in stack'[j].holds => i = j
    <3>1. list'[w] # "callbacks"
      BY <1>1, <1>9, NodeKinds DEF ListSound
    <3>2. \A i \in DOMAIN stack' : stack'[i].do = "dealloc.callbacks" /\ w \in stack'[i].holds =>
            /\ cbCalls[w] = 0 /\ target[w] = None
            /\ \A j \in DOMAIN stack' :
                 stack'[j].do = "dealloc.callbacks" /\ w \in stack'[j].holds => i = j
      BY <2>2 DEF CallsSound
    <3> QED BY <3>1, <3>2 DEF CallsSound
  <2> QED BY <2>1, <2>3, <1>1 DEF CallsSound
<1> QED BY <1>10, <1>11, <1>12, <1>13, <1>14, <1>15, <1>16, <1>17, <1>18, <1>19

LEMMA HandleLegacyFinalizersStep ==
  ASSUME IInv, HandleLegacyFinalizers
  PROVE  IInv'
<1> USE DEF IInv
<1> DEFINE kept == On("finalizers")
           gained == (kept \cap hasDel) \ roots
<1>1. /\ Collector /\ phase = "done" /\ phase' = "idle" /\ stack' = Front(stack)
      /\ roots' = roots \cup (kept \cap hasDel)
      /\ refcnt' = Incref(gained)
      /\ list' = [n \in Nodes |-> IF n \in kept THEN "old" ELSE list[n]]
      /\ found' = {} /\ woken' = {}
      /\ refs' = refs /\ gcRefs' = gcRefs /\ life' = life
      /\ hasFin' = hasFin /\ hasDel' = hasDel /\ finalized' = finalized /\ trash' = trash /\ cursor' = cursor
      /\ target' = target /\ callback' = callback /\ finCalls' = finCalls /\ cbCalls' = cbCalls
      /\ cleared' = cleared /\ leaked' = leaked
  BY DEF HandleLegacyFinalizers, Return, fixed, callVars, weakVars
<1>2. /\ Len(stack) \in Nat \ {0} /\ Len(stack) > 1 /\ DOMAIN stack = 1..Len(stack)
      /\ Top = stack[Len(stack)] /\ Top.do = "gc"
      /\ stack \in Seq(FrameSet) /\ stack # <<>>
      /\ \A i \in DOMAIN stack : stack[i].do = "gc" => i = Len(stack)
      /\ \A i \in DOMAIN stack : stack[i].do # "gc.clear"
  BY <1>1, CollectorFacts DEF TypeOK
<1>3. Top = Frame("gc", None, {})
  BY <1>1 DEF CollectorSound, Silent
<1>4. Top.obj = None /\ Top.holds = {}
  BY <1>3 DEF Frame
<1>5. /\ stack' \in Seq(FrameSet) /\ stack' # <<>> /\ DOMAIN stack' = 1..(Len(stack) - 1)
      /\ \A i \in 1..(Len(stack) - 1) : stack'[i] = stack[i]
  BY <1>1, <1>2, FrontFacts
<1>6. \A i \in DOMAIN stack' : i \in DOMAIN stack /\ i # Len(stack) /\ stack'[i] = stack[i]
  BY <1>2, <1>5
<1>7. \A i \in DOMAIN stack : i # Len(stack) => i \in DOMAIN stack' /\ stack'[i] = stack[i]
  BY <1>2, <1>5
<1>8. \A i \in DOMAIN stack' : stack'[i].do \notin {"gc", "gc.clear", "dealloc"}
  BY <1>2, <1>6 DEF StackSound
<1>9. \A i \in DOMAIN stack : stack[i].do \in Deallocs => i \in DOMAIN stack' /\ stack'[i] = stack[i]
  BY <1>2, <1>7 DEF Deallocs, Dying, Bracketed
<1>10. gained \in SUBSET Nodes /\ gained \subseteq kept /\ \A n \in gained : n \notin roots
  BY DEF On
<1>11. /\ kept \subseteq Nodes /\ \A n \in kept : list[n] = "finalizers" /\ life[n] = "live"
       /\ \A n \in Nodes : n \notin kept => list[n] # "finalizers"
  BY DEF On, LifeSound, NotLive
<1>12. \A n \in Nodes : n \in roots' <=> n \in roots \/ n \in gained
  BY <1>1
<1>13. hasDel \subseteq Nodes
  BY NodeKinds DEF TypeOK, HeapType
<1>14. list' \in [Nodes -> Lists] /\ \A n \in Nodes : list'[n] = IF n \in kept THEN "old" ELSE list[n]
  BY <1>1 DEF TypeOK, Lists
<1>15. roots' \in SUBSET Nodes
  BY <1>1, <1>13 DEF TypeOK, HeapType
<1> HIDE DEF kept, gained
<1>16. /\ refcnt' \in [Nodes -> Nat]
       /\ \A n \in Nodes : refcnt'[n] = IF n \in gained THEN refcnt[n] + 1 ELSE refcnt[n]
  BY <1>1 DEF Incref, TypeOK, HeapType
<1>17. On("unreachable") = {} /\ trash = <<>>
  BY <1>1 DEF ListSound, Ordered
<1>18. TypeOK'
  <2>1. HeapType'
    BY <1>1, <1>15, <1>16 DEF TypeOK, HeapType
  <2> QED BY <2>1, <1>1, <1>5, <1>14 DEF TypeOK, Phases
<1>19. StackSound'
  <2>1. stack'[1].do = "python"
    BY <1>2, <1>5 DEF StackSound
  <2>2. \A i, j \in DOMAIN stack' :
          stack'[i].do \in Deallocs /\ stack'[j].do \in Deallocs /\ stack'[i].obj = stack'[j].obj => i = j
    BY <1>6 DEF StackSound
  <2>3. \A i \in DOMAIN stack' : stack'[i].do = "dealloc.deleted" => stack'[i].obj \in hasDel
    BY <1>6 DEF StackSound
  <2> QED BY <2>1, <2>2, <2>3, <1>1, <1>8 DEF StackSound
<1>20. CollectorSound'
  <2>1. phase' \notin Silent
    BY <1>1 DEF Silent
  <2> QED BY <2>1, <1>1, <1>8 DEF CollectorSound
<1>21. CountsTrue'
  <2>1. ASSUME NEW m \in Nodes
        PROVE  Due(refs', roots', stack', phase', m)
                 = Due(refs, roots, stack, phase, m) + (IF m \in gained THEN 1 ELSE 0)
    <3>1. Owed(stack', phase', m) = Owed(stack', phase, m)
      <4>1. \A i \in DOMAIN stack' : stack'[i].do = "gc" => stack'[i].obj # m
        BY <1>8
      <4> QED BY <4>1, <1>5, OwedPhase
    <3>2. Owed(stack', phase, m) = Owed(stack, phase, m) - Weight(Top, phase, m)
      BY <1>1, <1>2, OwedFront
    <3>3. Weight(Top, phase, m) = 0
      BY <1>2, <1>4, NoneIsNoNode, CollectorWeight DEF One
    <3>4. Owed(stack, phase, m) \in Nat /\ Cardinality(Sources(refs, m)) \in Nat
      BY OwedNat, SourcesFinite DEF TypeOK
    <3>5. One(m \in roots') = One(m \in roots) + (IF m \in gained THEN 1 ELSE 0)
      BY <1>10, <1>12 DEF One
    <3>6. Owed(stack', phase', m) = Owed(stack, phase, m)
      BY <3>1, <3>2, <3>3, <3>4
    <3>7. One(m \in roots) \in Nat
      BY DEF One
    <3> QED BY <3>4, <3>5, <3>6, <3>7, <1>1 DEF Due
  <2> QED BY <2>1, <1>1, <1>10, GainDue
<1>22. LifeSound'
  <2>1. NotLive'
    BY <1>1, <1>10, <1>11, <1>14, <1>16 DEF LifeSound, NotLive
  <2>2. ZeroLeaves'
    <3>1. \A m \in Nodes : refcnt'[m] = 0 => refcnt[m] = 0
      BY <1>16 DEF TypeOK, HeapType
    <3> QED BY <3>1, <1>1, <1>9 DEF LifeSound, ZeroLeaves
  <2>3. LeavingSound'
    <3>1. \A i \in DOMAIN stack' : stack'[i].do \in Deallocs => life'[stack'[i].obj] = "live"
      BY <1>1, <1>6 DEF LifeSound, LeavingSound
    <3>2. ASSUME NEW i \in DOMAIN stack', stack'[i].do \in Dying
          PROVE  refcnt'[stack'[i].obj] = 0
      <4>1. i \in DOMAIN stack /\ stack'[i] = stack[i] /\ stack[i].do \in Deallocs \ {"dealloc"}
        BY <3>2, <1>6, <1>8 DEF Deallocs
      <4>2. stack[i].obj \in Nodes /\ list[stack[i].obj] # "finalizers" /\ refcnt[stack[i].obj] = 0
        BY <3>2, <4>1, FrameFacts DEF ListSound, LifeSound, LeavingSound
      <4>3. stack[i].obj \notin gained
        BY <4>2, <1>10, <1>11
      <4> QED BY <4>1, <4>2, <4>3, <1>16
    <3>3. ASSUME NEW i \in DOMAIN stack', stack'[i].do = "dealloc.clear"
          PROVE  /\ list'[stack'[i].obj] = "none"
                 /\ stack'[i].obj \in Weakrefs => target'[stack'[i].obj] = None
      <4>1. i \in DOMAIN stack /\ stack'[i] = stack[i] /\ stack[i].do \in Deallocs
        BY <3>3, <1>6 DEF Deallocs, Dying
      <4>2. stack[i].obj \in Nodes /\ list[stack[i].obj] = "none"
        BY <3>3, <4>1, FrameFacts DEF LifeSound, LeavingSound
      <4>3. stack[i].obj \notin kept
        BY <4>2, <1>11
      <4>4. list'[stack[i].obj] = "none"
        BY <4>2, <4>3, <1>14
      <4> QED BY <3>3, <4>1, <4>4, <1>1 DEF LifeSound, LeavingSound
    <3> QED BY <3>1, <3>2, <3>3 DEF LeavingSound
  <2> QED BY <2>1, <2>2, <2>3 DEF LifeSound
<1>23. WeakSound'
  <2>1. ASSUME NEW i \in DOMAIN stack', NEW w \in Weakrefs,
               \/ stack'[i].do \in {"dealloc.callbacks", "dealloc.clear"}
               \/ stack'[i].do = "dealloc.untrack" /\ stack'[i].obj \notin hasDel
        PROVE  target[w] # stack'[i].obj
    BY <2>1, <1>6 DEF WeakSound
  <2> QED BY <2>1, <1>1 DEF WeakSound
<1>24. ListSound'
  <2>1. \A i \in DOMAIN stack' : stack'[i].do \in Deallocs \ {"dealloc"} =>
          list'[stack'[i].obj] \notin {"unreachable", "finalizers"}
    <3>1. \A i \in DOMAIN stack : stack[i].do \in Deallocs \ {"dealloc"} =>
            stack[i].obj \in Nodes /\ list[stack[i].obj] \notin {"unreachable", "finalizers"}
      BY FrameFacts DEF ListSound
    <3>2. \A x \in Nodes : list'[x] \in {list[x], "old"}
      BY <1>14
    <3> QED BY <3>1, <3>2, <1>6
  <2>2. \A x \in Nodes : list'[x] # "callbacks"
    BY <1>1, <1>14 DEF ListSound
  <2>3. On("unreachable")' = {}
    BY <1>14, <1>17 DEF On
  <2>4. \A x \in Nodes : gcRefs'[x] \in {GC_UNTRACKED, GC_REACHABLE}
    <3>1. \A x \in Nodes : list[x] # "unreachable"
      BY <1>17 DEF On
    <3> QED BY <3>1, <1>1 DEF ListSound
  <2> QED BY <2>1, <2>2, <2>3, <2>4, <1>1, <1>17 DEF ListSound, Ordered
<1>25. WalkSound' /\ TrashSound'
  BY <1>1, NoWalkNext DEF TrashSound
<1>26. FinalizeSound'
  BY <1>1 DEF FinalizeSound
<1>27. DeleteSound'
  <2>1. FoundSound'
    BY <1>1 DEF FoundSound
  <2>2. ClearedSound'
    BY <1>1 DEF DeleteSound, ClearedSound
  <2>3. FoundSealed'
    BY <1>1 DEF FoundSealed
  <2> QED BY <2>1, <2>2, <2>3 DEF DeleteSound
<1>28. CallsSound'
  <2>1. ASSUME NEW n \in Objects
        PROVE  /\ finCalls[n] <= 1
               /\ finCalls[n] = 1 => n \in finalized \/ \E i \in DOMAIN stack' :
                    stack'[i].do = "dealloc.finalized" /\ stack'[i].obj = n
    BY <1>9 DEF CallsSound, Deallocs, Bracketed
  <2>2. ASSUME NEW w \in Weakrefs
        PROVE  /\ cbCalls[w] <= 1
               /\ life[w] = "new" => cbCalls[w] = 0
               /\ target[w] # None => cbCalls[w] = 0
               /\ list'[w] # "callbacks"
               /\ \A i \in DOMAIN stack' : stack'[i].do = "dealloc.callbacks" /\ w \in stack'[i].holds =>
                    /\ cbCalls[w] = 0 /\ target[w] = None
                    /\ \A j \in DOMAIN stack' :
                         stack'[j].do = "dealloc.callbacks" /\ w \in stack'[j].holds => i = j
    <3>1. list'[w] # "callbacks"
      BY <1>1, <1>14, NodeKinds DEF ListSound
    <3>2. \A i \in DOMAIN stack' : stack'[i].do = "dealloc.callbacks" /\ w \in stack'[i].holds =>
            /\ cbCalls[w] = 0 /\ target[w] = None
            /\ \A j \in DOMAIN stack' :
                 stack'[j].do = "dealloc.callbacks" /\ w \in stack'[j].holds => i = j
      BY <1>6 DEF CallsSound
    <3> QED BY <3>1, <3>2 DEF CallsSound
  <2> QED BY <2>1, <2>2, <1>1 DEF CallsSound
<1> QED BY <1>18, <1>19, <1>20, <1>21, <1>22, <1>23, <1>24, <1>25, <1>26, <1>27, <1>28

-----------------------------------------------------------------------------
(* The invariant holds                                                     *)

LEMMA RestStep ==
  ASSUME IInv, UNCHANGED vars
  PROVE  IInv'
<1> USE DEF IInv
<1>1. /\ refs' = refs /\ refcnt' = refcnt /\ list' = list /\ gcRefs' = gcRefs /\ phase' = phase
      /\ hasFin' = hasFin /\ hasDel' = hasDel /\ roots' = roots /\ target' = target
      /\ callback' = callback /\ life' = life /\ finalized' = finalized /\ trash' = trash
      /\ cursor' = cursor /\ stack' = stack /\ finCalls' = finCalls /\ cbCalls' = cbCalls
      /\ cleared' = cleared /\ found' = found /\ leaked' = leaked /\ woken' = woken
  BY DEF vars, reachVars
<1>2. On("unreachable")' = On("unreachable") /\ On("young")' = On("young") /\ Collectable' = Collectable
  BY <1>1 DEF On, Collectable
<1>3. TypeOK' /\ StackSound' /\ CollectorSound'
  BY <1>1, <1>2 DEF TypeOK, HeapType, StackSound, CollectorSound, Top
<1>4. CountsTrue'
  BY <1>1 DEF CountsTrue, From, Borrowed, Frames
<1>5. LifeSound' /\ WeakSound' /\ ListSound'
  BY <1>1, <1>2 DEF LifeSound, NotLive, ZeroLeaves, LeavingSound, WeakSound, ListSound
<1>6. WalkSound'
  <2>1. Examined' = Examined
    BY <1>2 DEF Examined
  <2>2. Outside(Examined)' = Outside(Examined)
    BY <2>1, <1>1 DEF Outside, From
  <2>3. Reach(Outside(Examined))' = Reach(Outside(Examined))
    BY <2>2, <1>1 DEF Reach, Closed
  <2> QED BY <2>1, <2>2, <2>3, <1>1, <1>2 DEF WalkSound
<1>7. Sealed(On("unreachable"))' <=> Sealed(On("unreachable"))
  BY <1>1, <1>2 DEF Sealed, From
<1>8. Sealed(found)' <=> Sealed(found)
  BY <1>1 DEF Sealed, From
<1>9. TrashSound' /\ FinalizeSound'
  BY <1>1, <1>2, <1>7 DEF TrashSound, FinalizeSound
<1>10. DeleteSound' /\ CallsSound'
  BY <1>1, <1>2, <1>8 DEF DeleteSound, FoundSound, ClearedSound, FoundSealed, Is, CallsSound
<1> QED BY <1>3, <1>4, <1>5, <1>6, <1>9, <1>10

LEMMA InitSound ==
  ASSUME Init
  PROVE  IInv
<1> DEFINE f == Python({})
<1>1. f.do = "python" /\ f.obj = None /\ f.holds = {} /\ f \in FrameSet
  BY DEF Python, Frame, FrameSet, Deallocs, Dying, Bracketed, Code
<1>2. stack = <<f>>
  BY DEF Init
<1> HIDE DEF f
<1>3. stack \in Seq(FrameSet) /\ stack # <<>> /\ DOMAIN stack = {1} /\ Len(stack) = 1 /\ stack[1] = f
  BY <1>1, <1>2
<1>4. \A i \in DOMAIN stack : stack[i].do = "python" /\ stack[i].holds = {}
  BY <1>1, <1>3
<1>5. /\ refs \in [Nodes -> SUBSET Nodes] /\ roots \in SUBSET Nodes
      /\ refcnt = [n \in Nodes |-> Cardinality(From(Nodes, n)) + (IF n \in roots THEN 1 ELSE 0)]
      /\ life = [n \in Nodes |-> IF refcnt[n] > 0 THEN "live" ELSE "new"]
      /\ \A w \in Weakrefs : refs[w] \subseteq Objects
      /\ \A n \in Nodes : life[n] = "new" => refs[n] = {}
      /\ target \in [Weakrefs -> {n \in Objects : life[n] = "live"} \cup {None}]
      /\ callback \in SUBSET Weakrefs
      /\ \A w \in Weakrefs : life[w] = "new" => target[w] = None
  BY DEF Init, HeapInit
<1>6. /\ list \in [Nodes -> {"young", "old", "none"}]
      /\ \A n \in Nodes : list[n] = "none" <=> life[n] = "new"
      /\ hasFin \in SUBSET Objects /\ hasDel \in SUBSET Objects
      /\ gcRefs = [n \in Nodes |-> IF life[n] = "new" THEN GC_UNTRACKED ELSE GC_REACHABLE]
      /\ phase = "idle" /\ finalized = {} /\ trash = <<>> /\ cursor = None
      /\ finCalls = [n \in Objects |-> 0] /\ cbCalls = [w \in Weakrefs |-> 0]
      /\ cleared = {} /\ found = {} /\ leaked = FALSE /\ woken = {}
  BY DEF Init
<1>7. \A n \in Nodes : Cardinality(From(Nodes, n)) \in Nat
  <2>1. \A n \in Nodes : Sources(refs, n) = From(Nodes, n)
    BY DEF Sources, From
  <2> QED BY <2>1, SourcesFinite
<1>8. /\ refcnt \in [Nodes -> Nat]
      /\ \A n \in Nodes : refcnt[n] = Cardinality(From(Nodes, n)) + (IF n \in roots THEN 1 ELSE 0)
  BY <1>5, <1>7
<1>9. /\ life \in [Nodes -> {"new", "live", "dead"}]
      /\ \A n \in Nodes : life[n] \in {"new", "live"} /\ (life[n] = "live" <=> refcnt[n] > 0)
  BY <1>5
<1>10. TypeOK
  <2>1. HeapType
    BY <1>5, <1>6, <1>8, <1>9 DEF HeapType
  <2>2. list \in [Nodes -> Lists] /\ gcRefs \in [Nodes -> Int]
    BY <1>6 DEF Lists, GC_UNTRACKED, GC_REACHABLE
  <2>3. finCalls \in [Objects -> Nat] /\ cbCalls \in [Weakrefs -> Nat]
    BY <1>6
  <2>4. trash \in Seq(Nodes)
    BY <1>6
  <2> QED BY <2>1, <2>2, <2>3, <2>4, <1>3, <1>6 DEF TypeOK, Phases
<1>11. StackSound
  BY <1>3, <1>4 DEF StackSound, Deallocs, Dying, Bracketed
<1>12. CollectorSound
  BY <1>4, <1>6 DEF CollectorSound, Silent
<1>13. CountsTrue
  <2>1. ASSUME NEW n \in Nodes PROVE Borrowed(n) = 0
    <3>1. {i \in DOMAIN stack : n \in stack[i].holds} = {}
      BY <1>4
    <3>2. Frames(n, {"dealloc.finalized", "dealloc.deleted", "gc.clear"}) = {}
      BY <1>4 DEF Frames
    <3>3. Borrowed(n) = Cardinality({}) + Cardinality({}) + 0
      BY <3>1, <3>2, <1>6 DEF Borrowed
    <3> QED BY <3>3, FS_EmptySet
  <2>2. \A n \in Nodes : Cardinality(From(Nodes, n)) + (IF n \in roots THEN 1 ELSE 0) \in Nat
    BY <1>7
  <2> QED BY <2>1, <2>2, <1>8 DEF CountsTrue
<1>14. \A i \in DOMAIN stack : stack[i].do \notin Deallocs
  BY <1>4 DEF Deallocs, Dying, Bracketed
<1>15. LifeSound
  <2>1. NotLive
    BY <1>5, <1>6, <1>8, <1>9 DEF NotLive
  <2>2. ZeroLeaves
    BY <1>8, <1>9 DEF ZeroLeaves
  <2>3. LeavingSound
    BY <1>14 DEF LeavingSound, Deallocs, Dying
  <2> QED BY <2>1, <2>2, <2>3 DEF LifeSound
<1>16. WeakSound
  <2>1. ASSUME NEW w \in Weakrefs, target[w] # None
        PROVE  life[w] = "live" /\ life[target[w]] = "live"
    BY <2>1, <1>5, <1>9, NodeKinds
  <2> QED BY <2>1, <1>4 DEF WeakSound
<1>17. ListSound
  <2>1. On("unreachable") = {} /\ \A n \in Nodes : list[n] # "callbacks"
    BY <1>6 DEF On
  <2>2. \A n \in Nodes : gcRefs[n] \in {GC_UNTRACKED, GC_REACHABLE}
    BY <1>6
  <2> QED BY <2>1, <2>2, <1>6, <1>14 DEF ListSound, Ordered
<1>18. WalkSound /\ TrashSound /\ FinalizeSound
  BY <1>6 DEF WalkSound, TrashSound, FinalizeSound
<1>19. DeleteSound
  BY <1>6 DEF DeleteSound, FoundSound, ClearedSound, FoundSealed
<1>20. CallsSound
  <2>1. \A w \in Weakrefs : list[w] # "callbacks" /\ cbCalls[w] = 0
    BY <1>6, NodeKinds
  <2>2. \A n \in Objects : finCalls[n] = 0
    BY <1>6
  <2> QED BY <2>1, <2>2, <1>4 DEF CallsSound
<1> QED BY <1>10, <1>11, <1>12, <1>13, <1>15, <1>16, <1>17, <1>18, <1>19, <1>20 DEF IInv

LEMMA PythonSound ==
  ASSUME IInv, PythonNext
  PROVE  IInv'
<1>1. ASSUME InPython, NEW n \in Access, Bind(n) PROVE IInv'
  BY <1>1, BindStep
<1>2. ASSUME InPython, NEW m \in Access \cap Objects, NEW n \in Access, SetAttr(m, n) PROVE IInv'
  BY <1>2, SetAttrStep
<1>3. ASSUME InPython, NEW m \in Access \cap Objects, NEW n \in Access, DelAttr(m, n) PROVE IInv'
  BY <1>3, DelAttrStep
<1>4. ASSUME InPython, NEW w \in Access \cap Weakrefs, Deref(w) PROVE IInv'
  BY <1>4, DerefStep
<1>5. ASSUME InPython, NEW w \in Weakrefs, NEW n \in Access \cap Objects,
             NEW held \in SUBSET (Access \cap Objects), NewWeakref(w, n, held)
      PROVE  IInv'
  BY <1>5, NewWeakrefStep
<1>6. ASSUME NEW n \in roots, Unbind(n) PROVE IInv'
  BY <1>6, UnbindStep DEF Unbind, PythonStep
<1>7. ASSUME NEW full \in BOOLEAN, Collect(full) PROVE IInv'
  BY <1>7, CollectStep
<1>8. ASSUME PythonReturn PROVE IInv'
  BY <1>8, PythonReturnStep
<1> QED BY <1>1, <1>2, <1>3, <1>4, <1>5, <1>6, <1>7, <1>8 DEF PythonNext

LEMMA DeallocSound ==
  ASSUME IInv, DeallocNext
  PROVE  IInv'
<1>1. ASSUME FinalizerDone PROVE IInv'
  BY <1>1, FinalizerDoneStep, ResurrectedStep
<1>2. ASSUME NEW n \in Nodes, ClearOne(n) PROVE IInv'
  BY <1>2, ClearOneStep
<1>3. ASSUME NEW w \in Weakrefs, CallCallback(w) PROVE IInv'
  BY <1>3, CallCallbackStep
<1> QED BY <1>1, <1>2, <1>3, DeallocObjectStep, ClearWeakRefsStep, CallDelStep, UntrackDyingStep,
           DeallocWeakrefStep, FreeStep DEF DeallocNext

LEMMA CollectSound ==
  ASSUME IInv, CollectNext
  PROVE  IInv'
<1>1. ASSUME CallbackDone PROVE IInv'
  BY <1>1, CallbackDropStep, CallbackForgottenStep
<1>2. ASSUME NEW w \in Weakrefs, InvokeCallback(w) PROVE IInv'
  BY <1>2, InvokeCallbackStep
<1>3. ASSUME UpdateRefs \/ SubtractRefs \/ MoveUnreachable \/ MergeYoung \/ MoveLegacyFinalizers
      PROVE  IInv'
  BY <1>3, UpdateRefsStep, SubtractRefsStep, MoveUnreachableStep, MergeYoungStep,
     MoveLegacyFinalizersStep
<1>4. ASSUME HandleWeakrefs \/ CallbacksDone \/ FinalizeNext \/ FinalizedOne \/ CheckGarbage
      PROVE  IInv'
  BY <1>4, HandleWeakrefsStep, CallbacksDoneStep, FinalizeNextStep, FinalizedOneStep, CheckGarbageStep
<1>5. ASSUME \/ ClearFirst \/ ClearReturns \/ KeepOrForget \/ DeleteDone \/ HandleLegacyFinalizers
      PROVE  IInv'
  BY <1>5, ClearFirstStep, ClearReturnsStep, KeepOrForgetStep, DeleteDoneStep,
     HandleLegacyFinalizersStep
<1> QED BY <1>1, <1>2, <1>3, <1>4, <1>5 DEF CollectNext

\* The invariant that the others follow from: every reference is counted, what
\* a frame of Python code, a tp_dealloc or the collector has in hand stays
\* what it was when the frame began, and the collector's lists hold what
\* collect() takes them to hold.
THEOREM Invariance == Spec => []IInv
<1>1. Init => IInv
  BY InitSound
<1>2. IInv /\ [Next]_vars => IInv'
  BY PythonSound, DeallocSound, CollectSound, RestStep DEF Next, Rest
<1> QED BY <1>1, <1>2, PTL DEF Spec

-----------------------------------------------------------------------------
(* What it says                                                            *)

\* RefcountsTrue: whatever the Python code called back does, no step of a
\* tp_dealloc, a weakref callback, a finalizer or the collector takes or
\* leaves a reference too many, what is freed is referred to by nothing and on
\* no list, and what nothing refers to is being deallocated.
THEOREM TrueCounts == Spec => []RefcountsTrue
<1>1. IInv => RefcountsTrue
  <2> SUFFICES ASSUME IInv, NEW n \in Nodes
               PROVE  /\ refcnt[n] = Cardinality(From(Nodes, n)) + (IF n \in roots THEN 1 ELSE 0)
                                       + Borrowed(n)
                      /\ life[n] = "dead" => refcnt[n] = 0 /\ refs[n] = {} /\ list[n] = "none"
                      /\ life[n] = "live" /\ refcnt[n] = 0 =>
                           \E i \in DOMAIN stack :
                             stack[i].obj = n /\ stack[i].do \notin {"gc", "gc.clear"}
    BY DEF RefcountsTrue
  <2>1. refcnt[n] = Cardinality(From(Nodes, n)) + (IF n \in roots THEN 1 ELSE 0) + Borrowed(n)
    BY DEF IInv, CountsTrue
  <2>2. life[n] = "dead" => refcnt[n] = 0 /\ refs[n] = {} /\ list[n] = "none"
    BY DEF IInv, LifeSound, NotLive
  <2>3. life[n] = "live" /\ refcnt[n] = 0 =>
          \E i \in DOMAIN stack : stack[i].obj = n /\ stack[i].do \in Deallocs
    BY DEF IInv, LifeSound, ZeroLeaves
  <2> QED BY <2>1, <2>2, <2>3 DEF Deallocs, Dying, Bracketed
<1> QED BY <1>1, Invariance, PTL

\* TrashIsTrash: what move_unreachable() sets aside is referred to from outside
\* by nothing, and stays so through move_legacy_finalizers() and the callbacks
\* of handle_weakrefs(), to which no weak reference leads back either.
THEOREM TrueTrash == Spec => []TrashIsTrash
<1>1. IInv => WalkInvariant
  <2> SUFFICES ASSUME IInv, phase = "move_unreachable"
               PROVE  /\ \A n \in Examined : gcRefs[n] # GC_UNTRACKED
                      /\ {n \in On("young") : gcRefs[n] # 0} \subseteq Reach(Outside(Examined))
                      /\ \A n \in On("unreachable") : n \notin Outside(Examined)
                      /\ \A n \in On("young"), m \in Examined :
                           gcRefs[n] = GC_REACHABLE /\ m \in refs[n] =>
                             list[m] = "young" /\ gcRefs[m] # 0
    BY DEF WalkInvariant
  <2>1. /\ \A n \in On("young") : gcRefs[n] = GC_REACHABLE \/ gcRefs[n] >= 0
        /\ \A n \in On("unreachable") : gcRefs[n] = GC_TENTATIVELY_UNREACHABLE
        /\ \A n \in On("young") : gcRefs[n] # 0 => n \in Reach(Outside(Examined))
        /\ \A n \in Examined :
             gcRefs[n] \in {0, GC_TENTATIVELY_UNREACHABLE} => n \notin Outside(Examined)
        /\ \A n \in On("young"), m \in Examined :
             gcRefs[n] = GC_REACHABLE /\ m \in refs[n] => list[m] = "young" /\ gcRefs[m] # 0
    BY DEF IInv, WalkSound
  <2>2. \A n \in Examined : n \in On("young") \/ n \in On("unreachable")
    BY DEF Examined
  <2>3. \A n \in Examined : gcRefs[n] # GC_UNTRACKED
    BY <2>1, <2>2 DEF GC_UNTRACKED, GC_REACHABLE, GC_TENTATIVELY_UNREACHABLE
  <2>4. \A n \in On("unreachable") : n \notin Outside(Examined)
    BY <2>1 DEF Examined
  <2> QED BY <2>1, <2>3, <2>4
<1>2. ASSUME IInv, phase \in {"legacy", "weakrefs", "callbacks"}, woken = {} \/ phase # "callbacks",
             NEW n \in On("unreachable")
      PROVE  refcnt[n] = Cardinality(From(On("unreachable"), n))
  <2>1. On("unreachable") \in SUBSET Nodes /\ n \in Nodes
    BY DEF On
  <2>2. /\ Sealed(On("unreachable"))
        /\ \A i \in DOMAIN stack :
             /\ stack[i].holds \cap On("unreachable") = {}
             /\ stack[i].do \in Deallocs => stack[i].obj \notin On("unreachable")
    BY <1>2 DEF IInv, TrashSound
  <2>3. \A i \in DOMAIN stack : stack[i].do # "gc.clear"
    BY <1>2 DEF IInv, CollectorSound
  <2>4. Inside(On("unreachable"), n)
    BY <2>2, <2>3 DEF Inside, Sealed, Keepers, Deallocs, Bracketed
  <2> QED BY <1>2, <2>1, <2>4, InsideCounted DEF IInv
<1>3. IInv => (phase = "callbacks" /\ woken = {} => \A w \in Weakrefs : target[w] \notin Collectable)
  BY DEF IInv, TrashSound, ListSound, Ordered
<1>4. IInv => (trash # <<>> => Collectable = On("unreachable") /\ IsInjective(trash))
  BY DEF IInv, ListSound
<1>5. IInv => TrashIsTrash
  BY <1>1, <1>2, <1>3, <1>4 DEF TrashIsTrash
<1> QED BY <1>5, Invariance, PTL

\* PythonSeesWhole: a finalizer, a callback, or the code that they return to
\* reaches nothing that is dead, dying or emptied by tp_clear, unless a weak
\* reference made after handle_weakrefs(), or one that is trash itself, has
\* led it back to the trash; and no weak reference dangles.
THEOREM WholeObjects == Spec => []PythonSeesWhole
<1>1. ASSUME IInv, InPython, ~leaked, NEW n \in Access
      PROVE  life[n] = "live" /\ refcnt[n] > 0 /\ n \notin cleared
  <2>1. n \in Nodes /\ life[n] = "live" /\ refcnt[n] > 0
    BY <1>1, AccessSeen DEF IInv
  <2>2. ASSUME n \in cleared PROVE FALSE
    <3>1. phase = "delete" /\ n \in found
      BY <1>1, <2>1, <2>2 DEF IInv, DeleteSound, ClearedSound
    <3>2. Sealed(found) /\ found \in SUBSET Nodes
      BY <1>1, <3>1 DEF IInv, DeleteSound, FoundSealed, TypeOK
    <3>3. Access \cap found = {}
      BY <1>1, <3>2, AccessSealed DEF IInv
    <3> QED BY <1>1, <3>1, <3>3
  <2> QED BY <2>1, <2>2
<1>2. IInv => \A w \in Weakrefs : target[w] # None => life[w] = "live" /\ life[target[w]] = "live"
  BY DEF IInv, WeakSound
<1>3. IInv => PythonSeesWhole
  BY <1>1, <1>2 DEF PythonSeesWhole
<1> QED BY <1>3, Invariance, PTL

\* CalledOnce: an object's finalizer is called once at most, from its
\* subtype_dealloc() or from finalize_garbage(), and a weak reference's callback
\* once at most, from PyObject_ClearWeakRefs() or from handle_weakrefs().
THEOREM OneCall == Spec => []CalledOnce
<1>1. IInv => CalledOnce
  BY DEF IInv, CallsSound, CalledOnce
<1> QED BY <1>1, Invariance, PTL

\* Reclaims: when the collection ends, all that check_garbage() found to be
\* unreachable is freed, whatever order delete_garbage() cleared it in, unless
\* it was leaked to Python code meanwhile.
THEOREM AllReclaimed == Spec => Reclaims
<1>1. IInv /\ [Next]_vars =>
        [phase = "done" /\ phase' = "idle" => \A n \in found : life[n] = "dead" \/ leaked]_vars
  BY DEF IInv, DeleteSound, ClearedSound
<1> QED BY <1>1, Invariance, PTL DEF Spec, Reclaims

=============================================================================

----------------------------- MODULE MCCyclicGC -----------------------------
(* Small heaps for CyclicGC.                                               *)
EXTENDS CyclicGC

CONSTANTS
  \* bounds on the heap at the start: references between objects, variables,
  \* and objects that are old, or have tp_finalize, or tp_del
  MaxEdges, MaxRoots, MaxOdd,
  MaxLive     \* bound: objects and weak references there are at the start

Symmetry == Permutations(Objects)

Small(max, S) == {T \in SUBSET S : Cardinality(T) <= max}
Edges(h) == Cardinality(UNION {{<<n, m>> : m \in h[n]} : n \in Nodes})

MCInit ==
  /\ refs \in {h \in [Nodes -> SUBSET Nodes] : Edges(h) <= MaxEdges}
  /\ roots \in Small(MaxRoots, Nodes)
  /\ hasFin \in Small(MaxOdd, Objects)
  /\ hasDel \in Small(MaxOdd, Objects)
  /\ Init
  /\ Cardinality(Live) <= MaxLive
  /\ Cardinality(On("old")) + Cardinality(hasFin) + Cardinality(hasDel) <= MaxOdd
  /\ \A w \in Weakrefs : Cardinality(refs[w]) <= 1

MCSpec == MCInit /\ [][Next]_vars
=============================================================================

------------------------------ MODULE HeapList -----------------------------
(***************************************************************************)
(* A list that heapify() turns into a heap and that is used through the    *)
(* functions of heapq from then on.  The initial states are all the lists  *)
(* up to a length: nlargest(), nsmallest() and merge() are compared with   *)
(* their definitions by sorting on each of them.                           *)
(***************************************************************************)
EXTENDS Heapq

CONSTANTS
  Keys,   \* keys of the elements, a set of integers
  MaxLen  \* bound on the length of the list

ASSUME HeapListAssumption == Keys \subseteq Int /\ MaxLen \in Nat \ {0}

Element == Keys \X {0}

VARIABLES
  heap,   \* the list
  isHeap, \* has heapify() been called?
  item    \* what the last call returned

vars == <<heap, isHeap, item>>

Nothing == <<0, -1>>

\* Type invariant: whatever mixture of calls, the list stays in its bounds.
TypeOK ==
  /\ heap \in BoundedSeq(Element, MaxLen)
  /\ isHeap \in BOOLEAN
  /\ item \in Element \cup {Nothing}

Init ==
  /\ heap \in BoundedSeq(Element, MaxLen)
  /\ isHeap = FALSE
  /\ item = Nothing

Heapify ==
  /\ ~isHeap /\ isHeap' = TRUE
  /\ heap' = heapify(FALSE, heap)
  /\ item' = Nothing

Push(x) ==
  /\ isHeap /\ Len(heap) < MaxLen
  /\ heap' = heappush(heap, x)
  /\ item' = Nothing
  /\ UNCHANGED isHeap

Take(result) ==
  /\ isHeap
  /\ heap' = result.heap
  /\ item' = result.item
  /\ UNCHANGED isHeap

Pop == heap # <<>> /\ Take(heappop(heap))
Replace(x) == heap # <<>> /\ Take(heapreplace(heap, x))
PushPop(x) == Take(heappushpop(FALSE, heap, x))

Next ==
  \/ Heapify
  \/ Pop
  \/ \E x \in Element : Push(x) \/ Replace(x) \/ PushPop(x)

Spec == Init /\ [][Next]_vars

-----------------------------------------------------------------------------
(* Properties.                                                             *)

\* Every function leaves a heap: no element is above its parent.
HeapInvariant ==
  isHeap => \A i \in 2..Len(heap) : ~LT(heap[i], heap[i \div 2])

\* heappop() and heapreplace() return the smallest element of the heap,
\* heappushpop() the smallest of the heap and the new item, and no call loses or
\* duplicates one.
Conserves ==
  [][ /\ Heapify => ToBag(heap') = ToBag(heap)
      /\ Pop => /\ ToBag(heap) = ToBag(Append(heap', item'))
                /\ \A i \in DOMAIN heap : ~LT(heap[i], item')
      /\ \A x \in Element :
           /\ Push(x) => ToBag(heap') = ToBag(Append(heap, x))
           /\ Replace(x) => /\ ToBag(Append(heap, x)) = ToBag(Append(heap', item'))
                            /\ \A i \in DOMAIN heap : ~LT(heap[i], item')
           /\ PushPop(x) => /\ ToBag(Append(heap, x)) = ToBag(Append(heap', item'))
                            /\ \A i \in DOMAIN Append(heap, x) :
                                 ~LT(Append(heap, x)[i], item')
    ]_vars

\* The list stays a heap of the elements that went in and did not come out.
HeapKept == [](TypeOK /\ HeapInvariant) /\ Conserves

\* The keys of the list, in the order of the list.
KeysOf(s) == [i \in DOMAIN s |-> s[i][1]]

\* nlargest() and nsmallest() equal sorted(...)[:n], ties included, as their
\* docstrings say.
SelectionIsSortedPrefix ==
  ~isHeap => \A n \in 0..MaxLen :
    /\ nlargest(n, KeysOf(heap)) = Prefix(Sorted(KeysOf(heap), TRUE), n)
    /\ nsmallest(n, KeysOf(heap)) = Prefix(Sorted(KeysOf(heap), FALSE), n)

\* merge() of sorted iterables yields sorted(chain(*iterables)), equal keys in
\* the order of the iterables.
MergeIsSorted ==
  ~isHeap => \A a, b \in 0..Len(heap) : a <= b =>
    LET piece(i, j) == SortSeq(SubSeq(KeysOf(heap), i, j), LAMBDA x, y : x < y)
        its == <<piece(1, a), piece(a + 1, b), piece(b + 1, Len(heap))>>
        chained == [n \in 1..3 |-> [i \in DOMAIN its[n] |-> <<its[n][i], n>>]]
        all == chained[1] \o chained[2] \o chained[3]
        order == Sorted(KeysOf(all), FALSE)
    IN merge(its) = [n \in DOMAIN all |-> all[order[n]]]

\* The functions that only read a list agree with sorting it.
AgreesWithSorting == SelectionIsSortedPrefix /\ MergeIsSorted
=============================================================================

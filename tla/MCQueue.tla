------------------------------ MODULE MCQueue ------------------------------
(* Instances of Queue for TLC: the containers of the three queue classes.  *)
EXTENDS Queue, Heapq

\* Queue: collections.deque with append() and popleft().
DequeAppend(q, x) == Append(q, x)
DequePopLeft(q) == Tail(q)

\* LifoQueue: a list with append() and pop().
ListPop(q) == Front(q)

\* PriorityQueue: heappush() and heappop() on (priority, data) pairs.
PriorityItems == {<<1, 0>>, <<2, 0>>}
HeapPop(q) == heappop(q).heap

\* What Queue asks of a container holds of the other two classes as well.
ASSUME LifoAssumption ==
  \A q \in Containers(MaxTasks) :
    q # <<>> => ListPop(q) \in Containers(MaxTasks) /\ Len(ListPop(q)) = Len(q) - 1
ASSUME PriorityAssumption ==
  LET Heaps(n) == UNION {[1..m -> PriorityItems] : m \in 0..n} IN
  /\ \A q \in Heaps(MaxTasks - 1), x \in PriorityItems :
       heappush(q, x) \in Heaps(MaxTasks) /\ Len(heappush(q, x)) = Len(q) + 1
  /\ \A q \in Heaps(MaxTasks) :
       q # <<>> => HeapPop(q) \in Heaps(MaxTasks) /\ Len(HeapPop(q)) = Len(q) - 1
=============================================================================

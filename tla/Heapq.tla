------------------------------- MODULE Heapq -------------------------------
(***************************************************************************)
(* heapq: a list kept as a binary heap.  Positions count from 1, so the    *)
(* children of i are 2i and 2i+1 (2i+1 and 2i+2 in the code).              *)
(*                                                                         *)
(* An element is a pair <<key, tag>>, ordered as Python orders tuples: the *)
(* tag is what nlargest(), nsmallest() and merge() decorate a key with.    *)
(* max selects the max-heap variants of the functions.                     *)
(***************************************************************************)
EXTENDS Integers, SequencesExt, FiniteSets

\* Python's "<" on tuples.
LT(a, b) == a[1] < b[1] \/ (a[1] = b[1] /\ a[2] < b[2])

\* May a not stay below b?  "newitem < parent", or the other way round.
Above(max, a, b) == IF max THEN LT(b, a) ELSE LT(a, b)

Swap(h, i, j) == [h EXCEPT ![i] = h[j], ![j] = h[i]]

\* MUTANT: stops one level below startpos.
RECURSIVE _siftdownEarly(_, _, _, _)
_siftdownEarly(max, h, startpos, pos) ==
  IF pos \div 2 > startpos /\ Above(max, h[pos], h[pos \div 2])
  THEN _siftdownEarly(max, Swap(h, pos, pos \div 2), startpos, pos \div 2)
  ELSE h

\* Moves the element at pos towards startpos, past the parents it is above.
RECURSIVE _siftdown(_, _, _, _)
_siftdown(max, h, startpos, pos) ==
  IF pos > startpos /\ Above(max, h[pos], h[pos \div 2])
  THEN _siftdown(max, Swap(h, pos, pos \div 2), startpos, pos \div 2)
  ELSE h

\* The child that moves up: the right one unless the left one is above it.
TopChild(max, h, pos) ==
  IF 2 * pos + 1 <= Len(h) /\ ~Above(max, h[2 * pos], h[2 * pos + 1])
  THEN 2 * pos + 1 ELSE 2 * pos

\* First half of _siftup: the element at pos sinks to a leaf, each time
\* changing places with the child that belongs above.
RECURSIVE Sink(_, _, _)
Sink(max, h, pos) ==
  IF 2 * pos <= Len(h)
  THEN Sink(max, Swap(h, pos, TopChild(max, h, pos)), TopChild(max, h, pos))
  ELSE [heap |-> h, leaf |-> pos]

_siftup(max, h, pos) ==
  LET sunk == Sink(max, h, pos) IN _siftdown(max, sunk.heap, pos, sunk.leaf)

\* heapify(): the inner nodes, last one first.
heapify(max, x) ==
  FoldLeft(LAMBDA h, i : _siftup(max, h, i), x,
           Reverse([i \in 1..(Len(x) \div 2) |-> i]))

heappush(h, item) == _siftdown(FALSE, Append(h, item), 1, Len(h) + 1)

heappop(h) ==
  [item |-> h[1],
   heap |-> IF Len(h) = 1 THEN <<>>
            ELSE _siftup(FALSE, [Front(h) EXCEPT ![1] = Last(h)], 1)]

heapreplace(h, item) ==
  [item |-> h[1], heap |-> _siftup(FALSE, [h EXCEPT ![1] = item], 1)]

heappushpop(max, h, item) ==
  IF h # <<>> /\ Above(max, h[1], item)
  THEN [item |-> h[1], heap |-> _siftup(max, [h EXCEPT ![1] = item], 1)]
  ELSE [item |-> item, heap |-> h]

-----------------------------------------------------------------------------
(* nlargest, nsmallest and merge over a list of keys.  A result is a list   *)
(* of positions in the argument, so that the order of equal keys shows.     *)

\* sorted(iterable, key=key, reverse=...): stable either way.
Sorted(keys, reverse) ==
  SortSeq([i \in DOMAIN keys |-> i], LAMBDA i, j :
    \/ IF reverse THEN keys[i] > keys[j] ELSE keys[i] < keys[j]
    \/ keys[i] = keys[j] /\ i < j)

Prefix(s, n) == SubSeq(s, 1, IF n < Len(s) THEN n ELSE Len(s))

\* min() and max(): the first extreme element.
First(keys, reverse) ==
  CHOOSE i \in DOMAIN keys :
    \A j \in DOMAIN keys :
      \/ IF reverse THEN keys[j] < keys[i] ELSE keys[i] < keys[j]
      \/ keys[i] = keys[j] /\ i <= j

\* MUTANT: nlargest() counts upwards like nsmallest().
CountUp(reverse, i) == i

\* The decoration that makes equal keys come out in the order they went in:
\* count() for nsmallest(), count(0, -1) for nlargest().
Count(reverse, i) == IF reverse THEN -i ELSE i

\* _nlargest (reverse) and _nsmallest: the first n decorated elements as a
\* heap whose root is the next to go, the rest pushed through it.
Selected(size, keys, reverse) ==
  LET decorated == [i \in DOMAIN keys |-> <<keys[i], Count(reverse, i)>>]
      best == FoldLeft(LAMBDA h, e : heappushpop(~reverse, h, e).heap,
                       heapify(~reverse, Prefix(decorated, size)),
                       SubSeq(decorated, size + 1, Len(keys)))
      ranked == SortSeq(best, LAMBDA a, b : Above(reverse, a, b))
      position(e) == CHOOSE i \in DOMAIN keys : decorated[i] = e
  IN [n \in DOMAIN ranked |-> position(ranked[n])]

\* nlargest(n, iterable, key), with its short cuts.
nlargest(n, keys) ==
  CASE keys = <<>> \/ n <= 0 -> <<>>
    [] n = 1 -> <<First(keys, TRUE)>>
    [] n >= Len(keys) -> Prefix(Sorted(keys, TRUE), n)
    [] OTHER -> Selected(n, keys, TRUE)

nsmallest(n, keys) ==
  CASE keys = <<>> \/ n <= 0 -> <<>>
    [] n = 1 -> <<First(keys, FALSE)>>
    [] n >= Len(keys) -> Prefix(Sorted(keys, FALSE), n)
    [] OTHER -> Selected(n, keys, FALSE)

\* The loop of merge(): h has one entry <<next key, itnum>> per live iterator,
\* pos says how far each iterator has got.
RECURSIVE MergeFrom(_, _, _)
MergeFrom(h, its, pos) ==
  IF h = <<>> THEN <<>>
  ELSE LET v == h[1][1]
           n == h[1][2]
           advanced == [pos EXCEPT ![n] = @ + 1]
       IN << <<v, n>> >> \o
          IF pos[n] < Len(its[n])
          THEN MergeFrom(heapreplace(h, <<its[n][pos[n] + 1], n>>).heap, its, advanced)
          ELSE MergeFrom(heappop(h).heap, its, advanced)

merge(its) ==
  LET entries == FoldLeft(LAMBDA h, n : IF its[n] = <<>> THEN h
                                        ELSE Append(h, <<its[n][1], n>>),
                          <<>>, [n \in DOMAIN its |-> n])
  IN MergeFrom(heapify(FALSE, entries), its, [n \in DOMAIN its |-> 1])
=============================================================================

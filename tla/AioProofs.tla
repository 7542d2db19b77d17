------------------------------ MODULE AioProofs ------------------------------
(***************************************************************************)
(* Theorems about the tasks of an event loop and asyncio's Lock, Condition,*)
(* Semaphore and Queue, for any finite set of tasks, any number of         *)
(* cancellations, any initial value and any maxsize.                       *)
(*                                                                         *)
(* What happens to the ready queue is the same few things whoever calls:   *)
(* the lemmas about TasksSound say what each does to all tasks.  What is   *)
(* true of a lock or of a queue then follows one method at a time.         *)
(***************************************************************************)
EXTENDS MCAio, SequenceTheorems, FiniteSetTheorems, TLAPS

-----------------------------------------------------------------------------
(* Lists in which nobody is named twice.                                   *)

LEMMA ListMembers ==
  ASSUME NEW S, NEW s \in Seq(S)
  PROVE  /\ Len(s) \in Nat /\ DOMAIN s = 1..Len(s)
         /\ \A i \in 1..Len(s) : s[i] \in S /\ s[i] \in ToSet(s)
         /\ \A x \in ToSet(s) : x \in S /\ \E i \in 1..Len(s) : s[i] = x
         /\ s = <<>> => ToSet(s) = {}
<1>1. Len(s) \in Nat /\ DOMAIN s = 1..Len(s) /\ \A i \in 1..Len(s) : s[i] \in S
  BY LenProperties
<1> QED BY <1>1 DEF ToSet

LEMMA AppendList ==
  ASSUME NEW S, NEW s \in Seq(S), NEW x \in S, x \notin ToSet(s), IsInjective(s)
  PROVE  /\ Append(s, x) \in Seq(S)
         /\ ToSet(Append(s, x)) = ToSet(s) \cup {x}
         /\ IsInjective(Append(s, x))
<1> DEFINE a == Append(s, x)
<1>1. /\ a \in Seq(S) /\ Len(a) = Len(s) + 1 /\ Len(s) \in Nat
      /\ DOMAIN a = 1..Len(a) /\ DOMAIN s = 1..Len(s)
      /\ \A i \in 1..Len(s) : a[i] = s[i]
      /\ a[Len(s) + 1] = x
  BY AppendProperties, LenProperties
<1> HIDE DEF a
<1>2. ASSUME NEW y \in ToSet(a) PROVE y \in ToSet(s) \cup {x}
  BY <1>1, <1>2 DEF ToSet
<1>3. ASSUME NEW y \in ToSet(s) PROVE y \in ToSet(a)
  BY <1>1, <1>3 DEF ToSet
<1>4. x \in ToSet(a)
  BY <1>1 DEF ToSet
<1>5. IsInjective(a)
  BY <1>1 DEF IsInjective, ToSet
<1> QED BY <1>1, <1>2, <1>3, <1>4, <1>5 DEF a

LEMMA TailList ==
  ASSUME NEW S, NEW s \in Seq(S), s # <<>>, IsInjective(s)
  PROVE  /\ Head(s) \in S /\ Tail(s) \in Seq(S)
         /\ ToSet(s) = ToSet(Tail(s)) \cup {Head(s)}
         /\ Head(s) \notin ToSet(Tail(s)) /\ IsInjective(Tail(s))
<1> DEFINE h == Head(s)
           r == Tail(s)
<1>1. /\ h \in S /\ r \in Seq(S) /\ Len(r) = Len(s) - 1
      /\ \A i \in 1..Len(r) : r[i] = s[i + 1]
      /\ Len(s) \in Nat \ {0} /\ h = s[1]
      /\ DOMAIN s = 1..Len(s) /\ DOMAIN r = 1..Len(r)
  BY HeadTailProperties, EmptySeq, LenProperties
<1> HIDE DEF h, r
<1>2. ASSUME NEW i \in DOMAIN s PROVE s[i] \in ToSet(r) \cup {h}
  <2>1. CASE i # 1
    <3>1. i - 1 \in DOMAIN r /\ r[i - 1] = s[i]
      BY <1>1, <2>1
    <3> QED BY <3>1 DEF ToSet
  <2> QED BY <1>1, <2>1
<1>3. ASSUME NEW i \in DOMAIN r PROVE r[i] \in ToSet(s) /\ r[i] # h
  <2>1. i + 1 \in DOMAIN s /\ i + 1 # 1 /\ 1 \in DOMAIN s /\ r[i] = s[i + 1]
    BY <1>1
  <2> QED BY <1>1, <2>1 DEF ToSet, IsInjective
<1>4. h \in ToSet(s)
  BY <1>1 DEF ToSet
<1>5. IsInjective(r)
  <2> SUFFICES ASSUME NEW i \in DOMAIN r, NEW j \in DOMAIN r, r[i] = r[j] PROVE i = j
    BY DEF IsInjective
  <2>1. i + 1 = j + 1
    BY <1>1 DEF IsInjective
  <2> QED BY <1>1, <2>1
<1> QED BY <1>1, <1>2, <1>3, <1>4, <1>5 DEF h, r, ToSet

\* remove(waiter): what is before it and what is behind it stays.
LEMMA RemoveList ==
  ASSUME NEW S, NEW s \in Seq(S), IsInjective(s), NEW x
  PROVE  /\ RemoveFirst(s, x) \in Seq(S)
         /\ ToSet(RemoveFirst(s, x)) = ToSet(s) \ {x}
         /\ IsInjective(RemoveFirst(s, x))
<1>1. CASE x \notin ToSet(s)
  <2>1. RemoveFirst(s, x) = s
    BY <1>1, ListMembers DEF RemoveFirst
  <2> QED BY <1>1, <2>1
<1>2. CASE x \in ToSet(s)
  <2>0. \A i, j \in 1..Len(s) : s[i] = s[j] => i = j
    BY ListMembers DEF IsInjective
  <2>1. Len(s) \in Nat /\ DOMAIN s = 1..Len(s) /\ \A i \in 1..Len(s) : s[i] \in S
    BY ListMembers
  <2>2. PICK k \in 1..Len(s) : s[k] = x
    BY <1>2, ListMembers
  <2> DEFINE l == SubSeq(s, 1, k - 1)
             r == SubSeq(s, k + 1, Len(s))
             c == l \o r
  <2>3. RemoveFirst(s, x) = c
    <3>1. {i \in 1..Len(s) : s[i] = x} = {k}
      BY <2>0, <2>1, <2>2
    <3>2. Min({k}) = k
      BY <2>2 DEF Min
    <3>3. SelectInSeq(s, LAMBDA v : v = x) = k
      BY <3>1, <3>2 DEF SelectInSeq
    <3> QED BY <2>2, <3>3 DEF RemoveFirst, RemoveAt
  <2>4. /\ l \in Seq(S) /\ Len(l) = k - 1
        /\ \A i \in 1..(k - 1) : l[i] = s[i]
    <3>1. \A i \in 1..(k - 1) : s[i] \in S
      BY <2>1, <2>2
    <3>2. /\ l \in Seq(S) /\ Len(l) = IF 1 <= k - 1 THEN (k - 1) - 1 + 1 ELSE 0
          /\ \A i \in 1..((k - 1) - 1 + 1) : l[i] = s[1 + i - 1]
      BY <2>2, <3>1, SubSeqProperties
    <3> QED BY <2>1, <2>2, <3>2
  <2>5. /\ r \in Seq(S) /\ Len(r) = Len(s) - k
        /\ \A i \in 1..(Len(s) - k) : r[i] = s[k + i]
    <3>1. k + 1 \in Int /\ Len(s) \in Int /\ \A i \in (k + 1)..Len(s) : s[i] \in S
      BY <2>1, <2>2
    <3>2. /\ r \in Seq(S) /\ Len(r) = IF k + 1 <= Len(s) THEN Len(s) - (k + 1) + 1 ELSE 0
          /\ \A i \in 1..(Len(s) - (k + 1) + 1) : r[i] = s[(k + 1) + i - 1]
      BY <3>1, SubSeqProperties
    <3>3. Len(s) - (k + 1) + 1 = Len(s) - k /\ \A i \in 1..(Len(s) - k) : (k + 1) + i - 1 = k + i
      BY <2>1, <2>2
    <3>4. Len(r) = Len(s) - k
      <4> HIDE DEF r
      <4>1. CASE k + 1 <= Len(s)
        BY <2>1, <2>2, <3>2, <4>1
      <4>2. CASE k = Len(s)
        BY <2>1, <2>2, <3>2, <4>2
      <4>3. \A n \in Nat : \A i \in 1..n : i + 1 <= n \/ i = n
        OBVIOUS
      <4> QED BY <2>1, <2>2, <4>1, <4>2, <4>3
    <3>5. \A i \in 1..(Len(s) - k) : r[i] = s[k + i]
      BY <3>2, <3>3
    <3> QED BY <3>2, <3>4, <3>5
  <2> HIDE DEF l, r
  <2>6. /\ c \in Seq(S) /\ Len(c) = Len(l) + Len(r)
        /\ \A i \in 1..(Len(l) + Len(r)) : c[i] = IF i <= Len(l) THEN l[i] ELSE r[i - Len(l)]
    BY <2>4, <2>5, ConcatProperties
  <2> HIDE DEF c
  <2>7. /\ c \in Seq(S) /\ DOMAIN c = 1..(Len(s) - 1)
        /\ \A i \in 1..(k - 1) : c[i] = s[i]
        /\ \A i \in k..(Len(s) - 1) : c[i] = s[i + 1]
    <3>1. DOMAIN c = 1..(Len(s) - 1)
      BY <2>1, <2>2, <2>4, <2>5, <2>6, LenProperties
    <3>2. ASSUME NEW i \in 1..(k - 1) PROVE c[i] = s[i]
      <4>1. i \in 1..(Len(l) + Len(r)) /\ i <= Len(l)
        BY <2>1, <2>2, <2>4, <2>5
      <4> QED BY <2>4, <2>6, <4>1
    <3>3. ASSUME NEW i \in k..(Len(s) - 1) PROVE c[i] = s[i + 1]
      <4>1. /\ i \in 1..(Len(l) + Len(r)) /\ ~(i <= Len(l))
            /\ i - Len(l) \in 1..(Len(s) - k) /\ k + (i - Len(l)) = i + 1
        BY <2>1, <2>2, <2>4, <2>5
      <4> QED BY <2>5, <2>6, <4>1
    <3> QED BY <2>6, <3>1, <3>2, <3>3
  <2>8. ASSUME NEW i \in DOMAIN c
        PROVE  \E j \in 1..Len(s) : j # k /\ c[i] = s[j] /\ (j < k => j = i) /\ (j > k => j = i + 1)
    <3>1. CASE i < k
      BY <2>1, <2>2, <2>7, <3>1
    <3>2. CASE i >= k
      <4>1. i \in k..(Len(s) - 1) /\ i + 1 \in 1..Len(s) /\ i + 1 > k
        BY <2>1, <2>2, <2>7, <3>2
      <4> QED BY <2>2, <2>7, <4>1
    <3> QED BY <2>2, <2>7, <3>1, <3>2
  <2>9. ASSUME NEW y \in ToSet(c) PROVE y \in ToSet(s) \ {x}
    <3>1. PICK i \in DOMAIN c : c[i] = y
      BY <2>9 DEF ToSet
    <3> QED BY <2>0, <2>1, <2>2, <2>8, <3>1 DEF ToSet
  <2>10. ASSUME NEW y \in ToSet(s) \ {x} PROVE y \in ToSet(c)
    <3>1. PICK j \in 1..Len(s) : s[j] = y /\ j # k
      BY <2>1, <2>2, <2>10 DEF ToSet
    <3>2. CASE j < k
      <4>1. j \in DOMAIN c /\ c[j] = y
        BY <2>1, <2>2, <2>7, <3>1, <3>2
      <4> QED BY <4>1 DEF ToSet
    <3>3. CASE j > k
      <4>1. j - 1 \in k..(Len(s) - 1) /\ j - 1 \in DOMAIN c /\ (j - 1) + 1 = j
        BY <2>1, <2>2, <2>7, <3>3
      <4>2. c[j - 1] = y
        BY <2>7, <3>1, <4>1
      <4> QED BY <4>1, <4>2 DEF ToSet
    <3> QED BY <2>2, <3>1, <3>2, <3>3
  <2>11. IsInjective(c)
    <3> SUFFICES ASSUME NEW i \in DOMAIN c, NEW j \in DOMAIN c, c[i] = c[j] PROVE i = j
      BY DEF IsInjective
    <3>1. PICK a \in 1..Len(s) : a # k /\ c[i] = s[a] /\ (a < k => a = i) /\ (a > k => a = i + 1)
      BY <2>8
    <3>2. PICK b \in 1..Len(s) : b # k /\ c[j] = s[b] /\ (b < k => b = j) /\ (b > k => b = j + 1)
      BY <2>8
    <3>3. a = b
      BY <2>0, <2>1, <3>1, <3>2
    <3> QED BY <2>2, <2>7, <3>1, <3>2, <3>3
  <2> QED BY <2>3, <2>7, <2>9, <2>10, <2>11
<1> QED BY <1>1, <1>2

-----------------------------------------------------------------------------
(* The futures of a list that are not done.                                *)

\* In a finite set of numbers there is one with n of the set up to it.
LEMMA Ranks ==
  ASSUME NEW I \in SUBSET Nat, IsFiniteSet(I)
  PROVE  /\ Cardinality(I) \in Nat
         /\ \A i \in I : Cardinality({j \in I : j <= i}) \in 1..Cardinality(I)
         /\ \A i, k \in I : Cardinality({j \in I : j <= i}) = Cardinality({j \in I : j <= k}) => i = k
         /\ \A n \in 1..Cardinality(I) : \E i \in I : Cardinality({j \in I : j <= i}) = n
<1> DEFINE upto(i) == {j \in I : j <= i}
           c == Cardinality(I)
           r == [i \in I |-> Cardinality(upto(i))]
<1>1. c \in Nat
  BY FS_CardinalityType
<1>2. ASSUME NEW i \in I PROVE r[i] \in 1..c
  <2>1. upto(i) \in SUBSET I /\ upto(i) # {}
    OBVIOUS
  <2>2. IsFiniteSet(upto(i)) /\ Cardinality(upto(i)) <= c
    BY <2>1, FS_Subset
  <2>3. Cardinality(upto(i)) \in Nat /\ Cardinality(upto(i)) # 0
    BY <2>1, <2>2, FS_EmptySet, FS_CardinalityType
  <2> QED BY <1>1, <2>2, <2>3
<1>3. ASSUME NEW i \in I, NEW k \in I, i < k PROVE r[i] # r[k]
  <2>0. i \in Nat /\ k \in Nat /\ \A j \in I : j \in Nat
    OBVIOUS
  <2>1. upto(i) \in SUBSET upto(k) /\ k \in upto(k) /\ k \notin upto(i) /\ upto(k) \in SUBSET I
    <3>1. \A j \in I : j <= i => j <= k
      BY <1>3, <2>0
    <3>2. k <= k /\ ~(k <= i)
      BY <1>3, <2>0
    <3> QED BY <3>1, <3>2
  <2>2. IsFiniteSet(upto(k))
    BY <2>1, FS_Subset
  <2>3. Cardinality(upto(k)) = Cardinality(upto(i)) => upto(k) = upto(i)
    BY <2>1, <2>2, FS_Subset
  <2> QED BY <2>1, <2>3
<1>4. \A i, k \in I : r[i] = r[k] => i = k
  <2> HIDE DEF r
  <2> QED BY <1>3
<1>5. r \in Injection(I, 1..c)
  BY <1>2, <1>4 DEF Injection, IsInjective
<1>6. IsFiniteSet(1..c) /\ Cardinality(1..c) = c
  BY <1>1, FS_Interval
<1>7. r \in Surjection(I, 1..c)
  <2> HIDE DEF r
  <2> QED BY <1>5, <1>6, FS_Injection
<1>8. \A n \in 1..c : \E i \in I : r[i] = n
  BY <1>7 DEF Surjection
<1>9. \A i \in I : Cardinality(upto(i)) = r[i]
  OBVIOUS
<1> HIDE DEF r
<1> QED BY <1>1, <1>2, <1>4, <1>8, <1>9

LEMMA LiveList ==
  ASSUME NEW S, NEW s \in Seq(S)
  PROVE  /\ Live(s) \in Seq(Tasks) /\ Live(s) \in Seq(S)
         /\ ToSet(Live(s)) = {f \in ToSet(s) : Pending(f)}
         /\ Live(s) = <<>> <=> \A f \in ToSet(s) : ~Pending(f)
         /\ IsInjective(s) => IsInjective(Live(s))
<1>1. Len(s) \in Nat /\ DOMAIN s = 1..Len(s) /\ \A i \in 1..Len(s) : s[i] \in S
  BY ListMembers
<1> DEFINE live == {i \in DOMAIN s : Pending(s[i])}
           rank(i) == Cardinality({j \in live : j <= i})
           place(n) == CHOOSE i \in live : rank(i) = n
           c == Cardinality(live)
<1>2. live \in SUBSET Nat /\ IsFiniteSet(live)
  <2>1. live \in SUBSET (1..Len(s)) /\ IsFiniteSet(1..Len(s))
    BY <1>1, FS_Interval
  <2> QED BY <2>1, FS_Subset
<1>3. Live(s) = [n \in 1..c |-> s[place(n)]]
  BY DEF Live
<1> HIDE DEF live
<1>4. /\ c \in Nat
      /\ \A i \in live : rank(i) \in 1..c
      /\ \A i, k \in live : rank(i) = rank(k) => i = k
      /\ \A n \in 1..c : \E i \in live : rank(i) = n
  BY <1>2, Ranks
<1> HIDE DEF rank, c
<1>5. \A n \in 1..c : place(n) \in live /\ rank(place(n)) = n
  BY <1>4
<1>6. \A i \in live : place(rank(i)) = i
  BY <1>4, <1>5
<1> HIDE DEF place
<1>7. \A i \in live : i \in 1..Len(s) /\ s[i] \in S /\ s[i] \in Tasks /\ Pending(s[i])
  BY <1>1 DEF live, Pending
<1> DEFINE r == [n \in 1..c |-> s[place(n)]]
<1>8. r \in Seq(Tasks) /\ r \in Seq(S) /\ DOMAIN r = 1..c /\ \A n \in 1..c : r[n] = s[place(n)]
  BY <1>4, <1>5, <1>7
<1> HIDE DEF r
<1>9. ToSet(r) = {f \in ToSet(s) : Pending(f)}
  <2>1. ASSUME NEW f \in ToSet(r) PROVE f \in ToSet(s) /\ Pending(f)
    <3>1. PICK n \in 1..c : f = s[place(n)]
      BY <1>8, <2>1 DEF ToSet
    <3> QED BY <1>1, <1>5, <1>7, <3>1 DEF ToSet
  <2>2. ASSUME NEW f \in ToSet(s), Pending(f) PROVE f \in ToSet(r)
    <3>1. PICK i \in live : f = s[i]
      BY <2>2 DEF ToSet, live
    <3>2. rank(i) \in DOMAIN r /\ r[rank(i)] = f
      BY <1>4, <1>6, <1>8, <3>1
    <3> QED BY <3>2 DEF ToSet
  <2> QED BY <2>1, <2>2
<1>10. r = <<>> <=> ToSet(r) = {}
  <2>1. r = <<>> => ToSet(r) = {}
    BY <1>8, ListMembers
  <2>2. r # <<>> => ToSet(r) # {}
    <3> SUFFICES ASSUME r # <<>> PROVE ToSet(r) # {}
      OBVIOUS
    <3>1. Len(r) \in Nat \ {0} /\ DOMAIN r = 1..Len(r)
      BY <1>8, EmptySeq, LenProperties
    <3>2. r[1] \in ToSet(r)
      BY <3>1 DEF ToSet
    <3> QED BY <3>2
  <2> QED BY <2>1, <2>2
<1>11. IsInjective(s) => IsInjective(r)
  <2> SUFFICES ASSUME IsInjective(s), NEW m \in DOMAIN r, NEW n \in DOMAIN r, r[m] = r[n] PROVE m = n
    BY DEF IsInjective
  <2>1. place(m) = place(n)
    BY <1>1, <1>5, <1>7, <1>8 DEF IsInjective
  <2> QED BY <1>5, <1>8, <2>1
<1> QED BY <1>3, <1>8, <1>9, <1>10, <1>11 DEF r

\* The first of them, if there is one.
LEMMA FirstLive ==
  ASSUME NEW S, NEW s \in Seq(S)
  PROVE  /\ Next1(s) \in Seq(Tasks) /\ IsInjective(Next1(s))
         /\ ToSet(Next1(s)) \subseteq {f \in ToSet(s) : Pending(f)}
         /\ ToSet(Next1(s)) = {} <=> \A f \in ToSet(s) : ~Pending(f)
         /\ Next1(s) # <<>> => \E f \in ToSet(s) : Pending(f) /\ Next1(s) = <<f>>
<1>1. CASE Live(s) = <<>>
  <2>1. Next1(s) = <<>> /\ ToSet(<<>>) = {} /\ IsInjective(<<>>)
    BY <1>1 DEF Next1, ToSet, IsInjective
  <2> QED BY <1>1, <2>1, LiveList
<1>2. CASE Live(s) # <<>>
  <2> DEFINE f == Head(Live(s))
  <2>1. f \in ToSet(Live(s)) /\ f \in Tasks
    <3>1. Len(Live(s)) \in Nat \ {0} /\ DOMAIN Live(s) = 1..Len(Live(s)) /\ f = Live(s)[1]
      BY <1>2, LiveList, EmptySeq, LenProperties
    <3> QED BY <3>1, LiveList, ListMembers
  <2>2. f \in ToSet(s) /\ Pending(f)
    BY <2>1, LiveList
  <2> HIDE DEF f
  <2>3. <<f>> \in Seq(Tasks) /\ ToSet(<<f>>) = {f} /\ IsInjective(<<f>>)
    BY <2>1 DEF ToSet, IsInjective
  <2>4. Next1(s) = <<f>>
    BY <1>2 DEF Next1, f
  <2> QED BY <2>2, <2>3, <2>4
<1> QED BY <1>1, <1>2

-----------------------------------------------------------------------------
(* The ready queue.                                                        *)

Callbacks ==
  {Step(t) : t \in Tasks} \cup {Wakeup(t) : t \in Tasks} \cup {Settle(f) : f \in Tasks \cup {Dead}}

CallsOf(t) == {Step(t), Wakeup(t)}
NotIn(r, t) == \A i \in DOMAIN r : r[i] \notin CallsOf(t)
OnceIn(r, t) == \E i \in DOMAIN r : \A j \in DOMAIN r : r[j] \in CallsOf(t) <=> j = i

LEMMA CallbackNames ==
  /\ \A t, u : Step(t) = Step(u) => t = u
  /\ \A t, u : Wakeup(t) = Wakeup(u) => t = u
  /\ \A t, u : Settle(t) = Settle(u) => t = u
  /\ \A t, u : Step(t) # Wakeup(u) /\ Step(t) # Settle(u) /\ Wakeup(t) # Settle(u)
BY DEF Step, Wakeup, Settle

LEMMA CallsApart ==
  /\ \A t, u, c : c \in CallsOf(t) /\ c \in CallsOf(u) => t = u
  /\ \A f, t : Settle(f) \notin CallsOf(t)
  /\ \A t : Step(t) \in CallsOf(t) /\ Wakeup(t) \in CallsOf(t)
  /\ \A t \in Tasks : CallsOf(t) \subseteq Callbacks
  /\ \A f \in Tasks \cup {Dead} : Settle(f) \in Callbacks
BY CallbackNames DEF CallsOf, Callbacks

LEMMA HowOften ==
  ASSUME NEW S, NEW r \in Seq(S), NEW t
  PROVE  LET scheduled == {i \in DOMAIN r : r[i] \in CallsOf(t)} IN
         /\ Cardinality(scheduled) = 0 <=> NotIn(r, t)
         /\ Cardinality(scheduled) = 1 <=> OnceIn(r, t)
<1> DEFINE scheduled == {i \in DOMAIN r : r[i] \in CallsOf(t)}
<1>1. IsFiniteSet(scheduled)
  <2>0. Len(r) \in Nat /\ DOMAIN r = 1..Len(r)
    BY LenProperties
  <2>1. scheduled \in SUBSET (1..Len(r)) /\ IsFiniteSet(1..Len(r))
    BY <2>0, FS_Interval
  <2> QED BY <2>1, FS_Subset
<1>2. scheduled = {} <=> NotIn(r, t)
  BY DEF NotIn
<1>3. (\E i : scheduled = {i}) <=> OnceIn(r, t)
  <2>1. ASSUME NEW i, scheduled = {i} PROVE OnceIn(r, t)
    <3>1. i \in DOMAIN r /\ \A j \in DOMAIN r : r[j] \in CallsOf(t) <=> j = i
      BY <2>1
    <3> QED BY <3>1 DEF OnceIn
  <2>2. ASSUME OnceIn(r, t) PROVE \E i : scheduled = {i}
    <3>1. PICK i \in DOMAIN r : \A j \in DOMAIN r : r[j] \in CallsOf(t) <=> j = i
      BY <2>2 DEF OnceIn
    <3>2. scheduled = {i}
      BY <3>1
    <3> QED BY <3>2
  <2> QED BY <2>1, <2>2
<1> HIDE DEF scheduled
<1>4. Cardinality(scheduled) = 0 <=> scheduled = {}
  BY <1>1, FS_EmptySet
<1>5. Cardinality(scheduled) = 1 <=> \E i : scheduled = {i}
  BY <1>1, FS_Singleton
<1> QED BY <1>2, <1>3, <1>4, <1>5 DEF scheduled

\* The callback at the head is called; of the others, those that run tasks stay.
LEMMA CallHead ==
  ASSUME NEW S, NEW r \in Seq(S), r # <<>>, NEW s \in Seq(S), Len(s) = Len(r) - 1,
         NEW t,
         \A i \in 1..(Len(r) - 1) : s[i] \in CallsOf(t) <=> r[i + 1] \in CallsOf(t)
  PROVE  /\ NotIn(r, t) => NotIn(s, t) /\ Head(r) \notin CallsOf(t)
         /\ OnceIn(r, t) /\ Head(r) \in CallsOf(t) => NotIn(s, t)
         /\ OnceIn(r, t) /\ Head(r) \notin CallsOf(t) => OnceIn(s, t)
<1>1. /\ Len(r) \in Nat \ {0} /\ DOMAIN r = 1..Len(r) /\ DOMAIN s = 1..(Len(r) - 1)
      /\ Head(r) = r[1]
  BY EmptySeq, LenProperties
<1>2. \A i \in DOMAIN s : i + 1 \in DOMAIN r /\ i + 1 # 1 /\ i \in 1..(Len(r) - 1)
  BY <1>1
<1>3. 1 \in DOMAIN r
  BY <1>1
<1>4. ASSUME NotIn(r, t) PROVE NotIn(s, t) /\ Head(r) \notin CallsOf(t)
  BY <1>1, <1>2, <1>3, <1>4 DEF NotIn
<1>5. ASSUME OnceIn(r, t), Head(r) \in CallsOf(t) PROVE NotIn(s, t)
  <2>1. PICK i \in DOMAIN r : \A j \in DOMAIN r : r[j] \in CallsOf(t) <=> j = i
    BY <1>5 DEF OnceIn
  <2>2. i = 1
    BY <1>1, <1>3, <1>5, <2>1
  <2> QED BY <1>2, <2>1, <2>2 DEF NotIn
<1>6. ASSUME OnceIn(r, t), Head(r) \notin CallsOf(t) PROVE OnceIn(s, t)
  <2>1. PICK i \in DOMAIN r : \A j \in DOMAIN r : r[j] \in CallsOf(t) <=> j = i
    BY <1>6 DEF OnceIn
  <2>2. i # 1
    BY <1>1, <1>6, <2>1
  <2>3. i - 1 \in DOMAIN s
    BY <1>1, <2>2
  <2>4. \A j \in DOMAIN s : s[j] \in CallsOf(t) <=> j + 1 = i
    BY <1>2, <2>1
  <2>5. \A j \in DOMAIN s : s[j] \in CallsOf(t) <=> j = i - 1
    <3>1. \A j \in DOMAIN s : j + 1 = i <=> j = i - 1
      BY <1>1
    <3> QED BY <2>4, <3>1
  <2> QED BY <2>3, <2>5 DEF OnceIn
<1> QED BY <1>4, <1>5, <1>6

\* Callbacks are put at the end, each task's at most once.
LEMMA AddCalls ==
  ASSUME NEW S, NEW r \in Seq(S), NEW a \in Seq(S), NEW t
  PROVE  /\ r \o a \in Seq(S)
         /\ NotIn(a, t) /\ NotIn(r, t) => NotIn(r \o a, t)
         /\ NotIn(a, t) /\ OnceIn(r, t) => OnceIn(r \o a, t)
         /\ OnceIn(a, t) /\ NotIn(r, t) => OnceIn(r \o a, t)
<1> DEFINE c == r \o a
<1>1. /\ Len(r) \in Nat /\ DOMAIN r = 1..Len(r) /\ Len(a) \in Nat /\ DOMAIN a = 1..Len(a)
      /\ c \in Seq(S) /\ Len(c) = Len(r) + Len(a) /\ DOMAIN c = 1..(Len(r) + Len(a))
      /\ \A i \in 1..(Len(r) + Len(a)) : c[i] = IF i <= Len(r) THEN r[i] ELSE a[i - Len(r)]
  BY ConcatProperties, LenProperties
<1> HIDE DEF c
<1>2. \A i \in DOMAIN r : i \in DOMAIN c /\ c[i] = r[i]
  BY <1>1
<1>3. \A i \in DOMAIN c : i \in DOMAIN r \/ (i - Len(r) \in DOMAIN a /\ c[i] = a[i - Len(r)])
  BY <1>1
<1>4. \A i \in DOMAIN a : i + Len(r) \in DOMAIN c /\ i + Len(r) \notin DOMAIN r /\ (i + Len(r)) - Len(r) = i
  BY <1>1
<1>5. \A i \in DOMAIN a : c[i + Len(r)] = a[i]
  BY <1>3, <1>4
<1>6. ASSUME NotIn(a, t), NotIn(r, t) PROVE NotIn(c, t)
  BY <1>2, <1>3, <1>6 DEF NotIn
<1>7. ASSUME NotIn(a, t), OnceIn(r, t) PROVE OnceIn(c, t)
  <2>1. PICK i \in DOMAIN r : \A j \in DOMAIN r : r[j] \in CallsOf(t) <=> j = i
    BY <1>7 DEF OnceIn
  <2>2. \A j \in DOMAIN c : c[j] \in CallsOf(t) <=> j = i
    BY <1>2, <1>3, <1>7, <2>1 DEF NotIn
  <2> QED BY <1>2, <2>1, <2>2 DEF OnceIn
<1>8. ASSUME OnceIn(a, t), NotIn(r, t) PROVE OnceIn(c, t)
  <2>1. PICK i \in DOMAIN a : \A j \in DOMAIN a : a[j] \in CallsOf(t) <=> j = i
    BY <1>8 DEF OnceIn
  <2>2. ASSUME NEW j \in DOMAIN c PROVE c[j] \in CallsOf(t) <=> j = i + Len(r)
    <3>1. CASE j \in DOMAIN r
      BY <1>2, <1>4, <1>8, <3>1 DEF NotIn
    <3>2. CASE j \notin DOMAIN r
      <4>1. j - Len(r) \in DOMAIN a /\ c[j] = a[j - Len(r)]
        BY <1>3, <3>2
      <4>2. j - Len(r) = i <=> j = i + Len(r)
        BY <1>1, <2>1, <4>1
      <4> QED BY <2>1, <4>1, <4>2
    <3> QED BY <3>1, <3>2
  <2> QED BY <1>4, <2>1, <2>2 DEF OnceIn
<1> QED BY <1>1, <1>6, <1>7, <1>8 DEF c

LEMMA OneCall ==
  ASSUME NEW c \in Callbacks, NEW t
  PROVE  /\ <<c>> \in Seq(Callbacks)
         /\ c \in CallsOf(t) => OnceIn(<<c>>, t)
         /\ c \notin CallsOf(t) => NotIn(<<c>>, t)
BY DEF OnceIn, NotIn

LEMMA NoCalls == \A t : <<>> \in Seq(Callbacks) /\ NotIn(<<>>, t)
BY DEF NotIn

LEMMA WakeupCalls ==
  ASSUME NEW s \in Seq(Tasks), IsInjective(s), NEW t
  PROVE  /\ Wakeups(s) \in Seq(Callbacks)
         /\ t \in ToSet(s) => OnceIn(Wakeups(s), t)
         /\ t \notin ToSet(s) => NotIn(Wakeups(s), t)
<1>1. Len(s) \in Nat /\ DOMAIN s = 1..Len(s) /\ \A i \in 1..Len(s) : s[i] \in Tasks
  BY ListMembers
<1> DEFINE w == Wakeups(s)
<1>2. DOMAIN w = 1..Len(s) /\ \A i \in 1..Len(s) : w[i] = Wakeup(s[i]) /\ w[i] \in Callbacks
  BY <1>1 DEF Wakeups, Callbacks
<1>3. w \in Seq(Callbacks)
  BY <1>1 DEF Wakeups, Callbacks
<1> HIDE DEF w
<1>4. \A i \in 1..Len(s) : w[i] \in CallsOf(t) <=> s[i] = t
  BY <1>2, CallsApart
<1>5. ASSUME t \in ToSet(s) PROVE OnceIn(w, t)
  <2>1. PICK i \in 1..Len(s) : s[i] = t
    BY <1>5, ListMembers
  <2>2. \A j \in 1..Len(s) : s[j] = t <=> j = i
    BY <1>1, <2>1 DEF IsInjective
  <2> QED BY <1>2, <1>4, <2>1, <2>2 DEF OnceIn
<1>6. ASSUME t \notin ToSet(s) PROVE NotIn(w, t)
  BY <1>2, <1>4, <1>6, ListMembers DEF NotIn
<1> QED BY <1>3, <1>5, <1>6 DEF w

-----------------------------------------------------------------------------
(* The tasks.                                                              *)

Places == {"body", "end", "acquire", "reacquire", "wait", "put", "get", "join"}

TypeInv ==
  /\ ready \in Seq(Callbacks)
  /\ current \in Tasks \cup {None}
  /\ fut \in [Tasks -> {"none", "pending", "result", "cancelled"}]
  /\ must_cancel \in [Tasks -> BOOLEAN]
  /\ at \in [Tasks -> Places]
  /\ cancels \in 0..MaxCancels
  /\ late \in BOOLEAN

TaskOK(t) ==
  /\ IF t = current \/ at[t] = "end" \/ fut[t] = "pending" THEN NotIn(ready, t) ELSE OnceIn(ready, t)
  /\ fut[t] = "none" <=> at[t] \in {"body", "end"}
  /\ t = current => at[t] = "body"
  /\ fut[t] = "pending" => ~must_cancel[t]
  /\ fut[t] = "result" /\ must_cancel[t] => late

TasksInv == TypeInv /\ \A t \in Tasks : TaskOK(t)

LEMMA TasksSoundMeans == TasksSound => TasksInv
<1> SUFFICES ASSUME TasksSound PROVE TasksInv
  OBVIOUS
<1>1. TypeInv
  BY DEF TasksSound, TasksTypeOK, TypeInv, Callbacks, Places
<1>2. ASSUME NEW t \in Tasks PROVE TaskOK(t)
  <2>1. LET scheduled == {i \in DOMAIN ready : ready[i] \in CallsOf(t)} IN
        Cardinality(scheduled) = IF t = current \/ at[t] = "end" \/ fut[t] = "pending" THEN 0 ELSE 1
    BY DEF TasksSound, TaskScheduled, CallsOf
  <2>2. IF t = current \/ at[t] = "end" \/ fut[t] = "pending" THEN NotIn(ready, t) ELSE OnceIn(ready, t)
    BY <1>1, <2>1, HowOften DEF TypeInv
  <2> QED BY <2>2 DEF TasksSound, TaskOK
<1> QED BY <1>1, <1>2 DEF TasksInv

LEMMA TasksSoundFrom == TasksInv => TasksSound
<1> SUFFICES ASSUME TasksInv PROVE TasksSound
  OBVIOUS
<1>1. TypeInv /\ \A t \in Tasks : TaskOK(t)
  BY DEF TasksInv
<1>2. TaskScheduled
  <2> SUFFICES ASSUME NEW t \in Tasks
               PROVE  LET scheduled == {i \in DOMAIN ready : ready[i] \in CallsOf(t)} IN
                      Cardinality(scheduled)
                        = IF t = current \/ at[t] = "end" \/ fut[t] = "pending" THEN 0 ELSE 1
    BY DEF TaskScheduled, CallsOf
  <2> DEFINE scheduled == {i \in DOMAIN ready : ready[i] \in CallsOf(t)}
  <2>1. ready \in Seq(Callbacks)
    BY <1>1 DEF TypeInv
  <2>2. /\ Cardinality(scheduled) = 0 <=> NotIn(ready, t)
        /\ Cardinality(scheduled) = 1 <=> OnceIn(ready, t)
    BY <2>1, HowOften
  <2> HIDE DEF scheduled
  <2>3. TaskOK(t)
    BY <1>1
  <2> QED BY <2>2, <2>3 DEF TaskOK, scheduled
<1>3. TasksTypeOK
  <2>1. \A i \in DOMAIN ready : ready[i] \in Callbacks
    BY <1>1, LenProperties DEF TypeInv
  <2> QED BY <1>1, <2>1 DEF TypeInv, TasksTypeOK, Callbacks
<1> QED BY <1>1, <1>2, <1>3 DEF TypeInv, TaskOK, TasksSound, Callbacks, Places

\* A coroutine calls set_result() on futures nobody has settled, and goes on.
LEMMA SetResultsKeeps ==
  ASSUME TasksInv, NEW s \in Seq(Tasks), IsInjective(s), \A f \in ToSet(s) : Pending(f), SetResults(s)
  PROVE  /\ TasksInv'
         /\ \A t \in Tasks : fut'[t] = IF t \in ToSet(s) THEN "result" ELSE fut[t]
         /\ at' = at /\ current' = current /\ late' = late
<1>1. /\ fut' \in [Tasks -> {"none", "pending", "result", "cancelled"}]
      /\ \A t \in Tasks : fut'[t] = IF t \in ToSet(s) THEN "result" ELSE fut[t]
      /\ ready' = ready \o Wakeups(s)
      /\ current' = current /\ must_cancel' = must_cancel /\ at' = at /\ cancels' = cancels /\ late' = late
  BY DEF SetResults, Woken, TasksInv, TypeInv
<1>2. Wakeups(s) \in Seq(Callbacks) /\ ready' \in Seq(Callbacks)
  BY <1>1, WakeupCalls, AddCalls DEF TasksInv, TypeInv
<1>3. ASSUME NEW t \in Tasks PROVE TaskOK(t)'
  <2>1. CASE t \in ToSet(s)
    <3>1. fut[t] = "pending" /\ OnceIn(Wakeups(s), t)
      BY <2>1, WakeupCalls DEF Pending
    <3>2. NotIn(ready, t)
      BY <3>1 DEF TasksInv, TaskOK
    <3>3. OnceIn(ready', t)
      BY <1>1, <1>2, <3>1, <3>2, AddCalls DEF TasksInv, TypeInv
    <3>4. t # current /\ at[t] \notin {"body", "end"} /\ ~must_cancel[t]
      BY <3>1 DEF TasksInv, TaskOK
    <3> QED BY <1>1, <2>1, <3>3, <3>4 DEF TaskOK
  <2>2. CASE t \notin ToSet(s)
    <3>1. NotIn(Wakeups(s), t)
      BY <2>2, WakeupCalls
    <3>2. /\ NotIn(ready, t) => NotIn(ready', t)
          /\ OnceIn(ready, t) => OnceIn(ready', t)
      BY <1>1, <1>2, <3>1, AddCalls DEF TasksInv, TypeInv
    <3> QED BY <1>1, <2>2, <3>2 DEF TasksInv, TaskOK
  <2> QED BY <2>1, <2>2
<1>4. TypeInv'
  BY <1>1, <1>2 DEF TasksInv, TypeInv
<1> QED BY <1>1, <1>3, <1>4 DEF TasksInv

\* It calls set_result() and blocks on a future of its own.
LEMMA BlockKeeps ==
  ASSUME TasksInv, NEW t \in Tasks, current = t, NEW where \in Places \ {"body", "end"},
         NEW s \in Seq(Tasks), IsInjective(s), \A f \in ToSet(s) : Pending(f), Block(t, where, s)
  PROVE  /\ TasksInv'
         /\ fut'[t] \in {"pending", "cancelled"}
         /\ \A u \in Tasks \ {t} : fut'[u] = IF u \in ToSet(s) THEN "result" ELSE fut[u]
         /\ at' = [at EXCEPT ![t] = where] /\ current' = None /\ late' = late
         /\ at'[t] = where /\ \A u \in Tasks \ {t} : at'[u] = at[u]
<1>0. fut[t] = "none" /\ at[t] = "body" /\ t \notin ToSet(s) /\ NotIn(ready, t)
  BY DEF TasksInv, TaskOK, Pending
<1>1. /\ fut' \in [Tasks -> {"none", "pending", "result", "cancelled"}]
      /\ fut'[t] = IF must_cancel[t] THEN "cancelled" ELSE "pending"
      /\ \A u \in Tasks \ {t} : fut'[u] = IF u \in ToSet(s) THEN "result" ELSE fut[u]
      /\ must_cancel' \in [Tasks -> BOOLEAN] /\ ~must_cancel'[t]
      /\ \A u \in Tasks \ {t} : must_cancel'[u] = must_cancel[u]
      /\ at' = [at EXCEPT ![t] = where]
      /\ at' \in [Tasks -> Places] /\ at'[t] = where /\ \A u \in Tasks \ {t} : at'[u] = at[u]
      /\ current' = None /\ cancels' = cancels /\ late' = late
  BY DEF Block, Woken, TasksInv, TypeInv
<1> DEFINE own == IF must_cancel[t] THEN <<Wakeup(t)>> ELSE <<>>
           r == ready \o Wakeups(s)
<1>2. ready' = r \o own
  BY DEF Block
<1>3. /\ Wakeups(s) \in Seq(Callbacks) /\ ready \in Seq(Callbacks) /\ r \in Seq(Callbacks)
  BY WakeupCalls, AddCalls DEF TasksInv, TypeInv
<1>4. /\ own \in Seq(Callbacks)
      /\ \A u \in Tasks \ {t} : NotIn(own, u)
      /\ must_cancel[t] => OnceIn(own, t)
      /\ ~must_cancel[t] => NotIn(own, t)
  <2>1. CASE must_cancel[t]
    <3>1. Wakeup(t) \in Callbacks /\ Wakeup(t) \in CallsOf(t)
          /\ \A u \in Tasks \ {t} : Wakeup(t) \notin CallsOf(u)
      BY CallsApart
    <3> QED BY <2>1, <3>1, OneCall
  <2>2. CASE ~must_cancel[t]
    BY <2>2, NoCalls
  <2> QED BY <2>1, <2>2
<1> HIDE DEF own
<1>5. ready' \in Seq(Callbacks)
  BY <1>2, <1>3, <1>4, AddCalls
<1>6. ASSUME NEW u \in Tasks \ {t} PROVE TaskOK(u)'
  <2>1. CASE u \in ToSet(s)
    <3>1. fut[u] = "pending" /\ OnceIn(Wakeups(s), u)
      BY <2>1, WakeupCalls DEF Pending
    <3>2. NotIn(ready, u)
      BY <3>1 DEF TasksInv, TaskOK
    <3>3. OnceIn(r, u)
      BY <1>3, <3>1, <3>2, AddCalls
    <3>4. OnceIn(ready', u)
      BY <1>2, <1>3, <1>4, <3>3, AddCalls
    <3>5. at[u] \notin {"body", "end"} /\ ~must_cancel[u]
      BY <3>1 DEF TasksInv, TaskOK
    <3> QED BY <1>1, <2>1, <3>4, <3>5, FiniteTasks DEF TaskOK
  <2>2. CASE u \notin ToSet(s)
    <3>1. NotIn(Wakeups(s), u)
      BY <2>2, WakeupCalls
    <3>2. /\ NotIn(ready, u) => NotIn(r, u)
          /\ OnceIn(ready, u) => OnceIn(r, u)
      BY <1>3, <3>1, AddCalls
    <3>3. /\ NotIn(r, u) => NotIn(ready', u)
          /\ OnceIn(r, u) => OnceIn(ready', u)
      BY <1>2, <1>3, <1>4, AddCalls
    <3> HIDE DEF r
    <3> QED BY <1>1, <2>2, <3>2, <3>3, FiniteTasks DEF TasksInv, TaskOK
  <2> QED BY <2>1, <2>2
<1>7. TaskOK(t)'
  <2>1. NotIn(r, t)
    BY <1>0, <1>3, WakeupCalls, AddCalls
  <2>2. IF must_cancel[t] THEN OnceIn(ready', t) ELSE NotIn(ready', t)
    BY <1>2, <1>3, <1>4, <2>1, AddCalls
  <2> QED BY <1>1, <2>2, FiniteTasks DEF TaskOK
<1>8. TypeInv'
  BY <1>1, <1>5 DEF TasksInv, TypeInv
<1>9. \A u \in Tasks : TaskOK(u)'
  BY <1>6, <1>7
<1> QED BY <1>1, <1>8, <1>9 DEF TasksInv

LEMMA NoneInList == <<>> \in Seq(Tasks) /\ IsInjective(<<>>) /\ ToSet(<<>>) = {}
BY DEF IsInjective, ToSet

LEMMA BlockAlone ==
  ASSUME TasksInv, NEW t \in Tasks, current = t, NEW where \in Places \ {"body", "end"},
         Block(t, where, <<>>)
  PROVE  /\ TasksInv' /\ at[t] = "body" /\ fut[t] = "none"
         /\ fut'[t] \in {"pending", "cancelled"} /\ \A u \in Tasks \ {t} : fut'[u] = fut[u]
         /\ at'[t] = where /\ \A u \in Tasks \ {t} : at'[u] = at[u]
         /\ current' = None /\ late' = late
<1> DEFINE s == <<>>
<1>1. s \in Seq(Tasks) /\ IsInjective(s) /\ ToSet(s) = {}
  BY NoneInList
<1>2. Block(t, where, s)
  OBVIOUS
<1> HIDE DEF s
<1>3. \A f \in ToSet(s) : Pending(f)
  BY <1>1
<1>4. /\ TasksInv' /\ fut'[t] \in {"pending", "cancelled"}
      /\ \A u \in Tasks \ {t} : fut'[u] = IF u \in ToSet(s) THEN "result" ELSE fut[u]
      /\ current' = None /\ late' = late
      /\ at'[t] = where /\ \A u \in Tasks \ {t} : at'[u] = at[u]
  BY <1>1, <1>2, <1>3, BlockKeeps
<1>5. at[t] = "body" /\ fut[t] = "none"
  BY DEF TasksInv, TaskOK
<1> QED BY <1>1, <1>4, <1>5

\* The loop calls a task: it was scheduled, so it is neither running nor asleep.
LEMMA RunsMeans ==
  ASSUME TasksInv, NEW t \in Tasks, NEW where \in Places \ {"end"}, Runs(t, where)
  PROVE  /\ current = None /\ ready # <<>> /\ at[t] = where /\ fut[t] # "pending"
         /\ OnceIn(ready, t) /\ Head(ready) \in CallsOf(t)
         /\ ~late /\ ~Thrown(t) => fut[t] \in {"none", "result"}
         /\ ~late /\ fut[t] = "result" => ~Thrown(t)
<1>1. /\ current = None /\ ready # <<>> /\ at[t] = where /\ Head(ready) \in CallsOf(t)
      /\ t # current
  BY FiniteTasks DEF Runs, CallsOf
<1>2. Len(ready) \in Nat \ {0} /\ DOMAIN ready = 1..Len(ready) /\ Head(ready) = ready[1]
  BY <1>1, EmptySeq, LenProperties DEF TasksInv, TypeInv
<1>3. ~NotIn(ready, t)
  <2>1. 1 \in DOMAIN ready
    BY <1>2
  <2> QED BY <1>1, <1>2, <2>1 DEF NotIn
<1> QED BY <1>1, <1>3 DEF TasksInv, TypeInv, TaskOK, Thrown

\* The callbacks that are left when the head has been called: those that run tasks
\* are as they were.
Left(rest) ==
  /\ rest \in Seq(Callbacks) /\ Len(rest) = Len(ready) - 1
  /\ \A i \in 1..(Len(ready) - 1), u \in Tasks : rest[i] \in CallsOf(u) <=> ready[i + 1] \in CallsOf(u)

LEMMA TailIsLeft ==
  ASSUME TasksInv, ready # <<>>
  PROVE  Left(Tail(ready))
<1>1. /\ Tail(ready) \in Seq(Callbacks) /\ Len(Tail(ready)) = Len(ready) - 1
      /\ \A i \in 1..Len(Tail(ready)) : Tail(ready)[i] = ready[i + 1]
  BY HeadTailProperties DEF TasksInv, TypeInv
<1> QED BY <1>1 DEF Left

LEMMA ForgetIsLeft ==
  ASSUME TasksInv, ready # <<>>, NEW t \in Tasks
  PROVE  Left(ForgetCallback(t))
<1>1. /\ Len(ready) \in Nat \ {0} /\ DOMAIN ready = 1..Len(ready)
      /\ \A i \in 1..Len(ready) : ready[i] \in Callbacks
  BY EmptySeq, LenProperties DEF TasksInv, TypeInv
<1> DEFINE c == ForgetCallback(t)
<1>2. Settle(Dead) \in Callbacks
  BY CallsApart
<1>3. /\ DOMAIN c = 1..(Len(ready) - 1) /\ c \in Seq(Callbacks)
      /\ \A i \in 1..(Len(ready) - 1) :
           c[i] = IF ready[i + 1] = Settle(t) THEN Settle(Dead) ELSE ready[i + 1]
  <2>1. Len(ready) - 1 \in Nat /\ \A i \in 1..(Len(ready) - 1) : i + 1 \in 1..Len(ready)
    BY <1>1
  <2> QED BY <1>1, <1>2, <2>1 DEF ForgetCallback
<1> HIDE DEF c
<1>4. Len(c) = Len(ready) - 1
  <2>1. Len(c) \in Nat /\ DOMAIN c = 1..Len(c)
    BY <1>3, LenProperties
  <2>2. \A m, n \in Nat : 1..m = 1..n => m = n
    <3>1. ASSUME NEW m \in Nat, NEW n \in Nat, 1..m = 1..n, m < n PROVE FALSE
      <4>1. n \in 1..n /\ n \notin 1..m
        BY <3>1
      <4> QED BY <3>1, <4>1
    <3>2. \A m, n \in Nat : m < n \/ n < m \/ m = n
      OBVIOUS
    <3> QED BY <3>1, <3>2
  <2>3. Len(ready) - 1 \in Nat
    BY <1>1
  <2>4. 1..Len(c) = 1..(Len(ready) - 1)
    BY <1>3, <2>1
  <2> QED BY <2>1, <2>2, <2>3, <2>4
<1>5. \A i \in 1..(Len(ready) - 1), u \in Tasks : c[i] \in CallsOf(u) <=> ready[i + 1] \in CallsOf(u)
  BY <1>3, CallsApart
<1> QED BY <1>3, <1>4, <1>5 DEF Left, c

LEMMA RestCalls ==
  ASSUME TasksInv, ready # <<>>, NEW rest, Left(rest), NEW u \in Tasks
  PROVE  /\ NotIn(ready, u) => NotIn(rest, u) /\ Head(ready) \notin CallsOf(u)
         /\ OnceIn(ready, u) /\ Head(ready) \in CallsOf(u) => NotIn(rest, u)
         /\ OnceIn(ready, u) /\ Head(ready) \notin CallsOf(u) => OnceIn(rest, u)
BY CallHead DEF TasksInv, TypeInv, Left

\* The task that is called runs on in its body.
LEMMA ResumeKeeps ==
  ASSUME TasksInv, NEW t \in Tasks, NEW where \in Places \ {"end"}, Runs(t, where),
         NEW rest, Left(rest), Resume(t, rest)
  PROVE  /\ TasksInv'
         /\ fut' = [fut EXCEPT ![t] = "none"] /\ at' = [at EXCEPT ![t] = "body"]
         /\ fut'[t] = "none" /\ at'[t] = "body"
         /\ \A u \in Tasks \ {t} : fut'[u] = fut[u] /\ at'[u] = at[u]
         /\ current' = t /\ late' = late /\ ready' = rest
<1>1. /\ fut' = [fut EXCEPT ![t] = "none"] /\ at' = [at EXCEPT ![t] = "body"]
      /\ fut' \in [Tasks -> {"none", "pending", "result", "cancelled"}] /\ fut'[t] = "none"
      /\ at' \in [Tasks -> Places] /\ at'[t] = "body"
      /\ must_cancel' \in [Tasks -> BOOLEAN] /\ ~must_cancel'[t]
      /\ \A u \in Tasks \ {t} : fut'[u] = fut[u] /\ at'[u] = at[u] /\ must_cancel'[u] = must_cancel[u]
      /\ current' = t /\ late' = late /\ cancels' = cancels /\ ready' = rest
  BY DEF Resume, TasksInv, TypeInv, Places
<1>2. current = None /\ ready # <<>> /\ OnceIn(ready, t) /\ Head(ready) \in CallsOf(t)
  BY RunsMeans
<1>3. TaskOK(t)'
  BY <1>1, <1>2, RestCalls DEF TaskOK
<1>4. ASSUME NEW u \in Tasks \ {t} PROVE TaskOK(u)'
  <2>1. Head(ready) \notin CallsOf(u) /\ u # current
    BY <1>2, CallsApart, FiniteTasks
  <2>2. (NotIn(ready, u) => NotIn(rest, u)) /\ (OnceIn(ready, u) => OnceIn(rest, u))
    BY <1>2, <2>1, RestCalls
  <2> QED BY <1>1, <2>1, <2>2 DEF TasksInv, TaskOK
<1>5. TypeInv'
  BY <1>1 DEF TasksInv, TypeInv, Left
<1>6. \A u \in Tasks : TaskOK(u)'
  BY <1>3, <1>4
<1> QED BY <1>1, <1>5, <1>6 DEF TasksInv

\* It runs on and blocks again.
LEMMA ResumeAndBlockKeeps ==
  ASSUME TasksInv, NEW t \in Tasks, NEW where \in Places \ {"end"}, Runs(t, where),
         NEW next \in Places \ {"body", "end"}, ResumeAndBlock(t, next)
  PROVE  /\ TasksInv'
         /\ fut'[t] = "pending" /\ at' = [at EXCEPT ![t] = next] /\ at'[t] = next
         /\ \A u \in Tasks \ {t} : fut'[u] = fut[u] /\ at'[u] = at[u]
         /\ current' = current /\ late' = late
<1>1. /\ at' = [at EXCEPT ![t] = next]
      /\ fut' \in [Tasks -> {"none", "pending", "result", "cancelled"}] /\ fut'[t] = "pending"
      /\ at' \in [Tasks -> Places] /\ at'[t] = next
      /\ must_cancel' \in [Tasks -> BOOLEAN] /\ ~must_cancel'[t]
      /\ \A u \in Tasks \ {t} : fut'[u] = fut[u] /\ at'[u] = at[u] /\ must_cancel'[u] = must_cancel[u]
      /\ current' = current /\ late' = late /\ cancels' = cancels /\ ready' = Tail(ready)
  BY DEF ResumeAndBlock, TasksInv, TypeInv, Places
<1>2. current = None /\ ready # <<>> /\ OnceIn(ready, t) /\ Head(ready) \in CallsOf(t)
  BY RunsMeans
<1>3. Left(Tail(ready))
  BY <1>2, TailIsLeft
<1>4. TaskOK(t)'
  BY <1>1, <1>2, <1>3, RestCalls, FiniteTasks DEF TaskOK
<1>5. ASSUME NEW u \in Tasks \ {t} PROVE TaskOK(u)'
  <2>1. Head(ready) \notin CallsOf(u)
    BY <1>2, CallsApart
  <2>2. (NotIn(ready, u) => NotIn(ready', u)) /\ (OnceIn(ready, u) => OnceIn(ready', u))
    BY <1>1, <1>2, <1>3, <2>1, RestCalls
  <2> QED BY <1>1, <2>2 DEF TasksInv, TaskOK
<1>6. TypeInv'
  BY <1>1, <1>3 DEF TasksInv, TypeInv, Left
<1>7. \A u \in Tasks : TaskOK(u)'
  BY <1>4, <1>5
<1> QED BY <1>1, <1>6, <1>7 DEF TasksInv

LEMMA AppendCall ==
  ASSUME NEW r \in Seq(Callbacks), NEW c \in Callbacks, NEW u
  PROVE  /\ Append(r, c) \in Seq(Callbacks)
         /\ c \in CallsOf(u) /\ NotIn(r, u) => OnceIn(Append(r, c), u)
         /\ c \notin CallsOf(u) /\ NotIn(r, u) => NotIn(Append(r, c), u)
         /\ c \notin CallsOf(u) /\ OnceIn(r, u) => OnceIn(Append(r, c), u)
<1> DEFINE a == <<c>>
<1>1. Append(r, c) = r \o a
  OBVIOUS
<1>2. /\ a \in Seq(Callbacks)
      /\ c \in CallsOf(u) => OnceIn(a, u)
      /\ c \notin CallsOf(u) => NotIn(a, u)
  BY OneCall
<1> HIDE DEF a
<1> QED BY <1>1, <1>2, AddCalls

\* The steps of the tasks alone.
LEMMA YieldKeeps ==
  ASSUME TasksInv, NEW t \in Tasks, Yield(t)
  PROVE  TasksInv'
<1>1. /\ current = t /\ current' = None /\ ready' = Append(ready, Step(t))
      /\ fut' = fut /\ must_cancel' = must_cancel /\ at' = at /\ cancels' = cancels /\ late' = late
  BY DEF Yield
<1>2. Step(t) \in Callbacks /\ Step(t) \in CallsOf(t) /\ \A u \in Tasks \ {t} : Step(t) \notin CallsOf(u)
  BY CallsApart
<1>3. ASSUME NEW u \in Tasks PROVE TaskOK(u)'
  <2>1. CASE u = t
    <3>1. NotIn(ready, t) /\ at[t] = "body" /\ fut[t] = "none"
      BY <1>1 DEF TasksInv, TaskOK
    <3>2. OnceIn(ready', t)
      BY <1>1, <1>2, <3>1, AppendCall DEF TasksInv, TypeInv
    <3> QED BY <1>1, <2>1, <3>1, <3>2, FiniteTasks DEF TaskOK
  <2>2. CASE u # t
    <3>1. (NotIn(ready, u) => NotIn(ready', u)) /\ (OnceIn(ready, u) => OnceIn(ready', u))
      BY <1>1, <1>2, <2>2, AppendCall DEF TasksInv, TypeInv
    <3> QED BY <1>1, <2>2, <3>1, FiniteTasks DEF TasksInv, TaskOK
  <2> QED BY <2>1, <2>2
<1>4. TypeInv'
  BY <1>1, <1>2, AppendCall DEF TasksInv, TypeInv
<1> QED BY <1>3, <1>4 DEF TasksInv

LEMMA ReturnKeeps ==
  ASSUME TasksInv, NEW t \in Tasks, Return(t)
  PROVE  TasksInv'
<1>1. /\ current = t /\ current' = None /\ at' = [at EXCEPT ![t] = "end"]
      /\ at' \in [Tasks -> Places] /\ at'[t] = "end" /\ \A u \in Tasks \ {t} : at'[u] = at[u]
      /\ ready' = ready /\ fut' = fut /\ must_cancel' = must_cancel /\ cancels' = cancels /\ late' = late
  BY DEF Return, TasksInv, TypeInv, Places
<1>2. TaskOK(t)'
  BY <1>1, FiniteTasks DEF TasksInv, TaskOK
<1>3. ASSUME NEW u \in Tasks \ {t} PROVE TaskOK(u)'
  BY <1>1, FiniteTasks DEF TasksInv, TaskOK
<1>4. TypeInv'
  BY <1>1 DEF TasksInv, TypeInv
<1>5. \A u \in Tasks : TaskOK(u)'
  BY <1>2, <1>3
<1> QED BY <1>4, <1>5 DEF TasksInv

\* cancel() schedules a task only if it slept; a result that is already there is
\* thrown away, late.
LEMMA CancelKeeps ==
  ASSUME TasksInv, NEW t \in Tasks, Cancel(t)
  PROVE  /\ TasksInv' /\ at' = at /\ current' = current
         /\ fut'[t] = (IF fut[t] = "pending" THEN "cancelled" ELSE fut[t])
         /\ \A u \in Tasks \ {t} : fut'[u] = fut[u]
         /\ late => late' /\ (fut[t] = "result" => late')
<1>1. /\ at[t] # "end" /\ cancels' \in 0..MaxCancels /\ late' = (late \/ fut[t] = "result")
      /\ current' = current /\ at' = at
  BY FiniteTasks DEF Cancel, TasksInv, TypeInv
<1>2. CASE fut[t] = "pending"
  <2>1. /\ fut' \in [Tasks -> {"none", "pending", "result", "cancelled"}]
        /\ fut'[t] = "cancelled" /\ \A u \in Tasks \ {t} : fut'[u] = fut[u]
        /\ ready' = Append(ready, Wakeup(t)) /\ must_cancel' = must_cancel
    BY <1>2 DEF Cancel, CancelEffect, TasksInv, TypeInv
  <2>2. /\ Wakeup(t) \in Callbacks /\ Wakeup(t) \in CallsOf(t)
        /\ \A u \in Tasks \ {t} : Wakeup(t) \notin CallsOf(u)
    BY CallsApart
  <2>3. TaskOK(t)'
    <3>1. NotIn(ready, t) /\ t # current /\ at[t] \notin {"body", "end"}
      BY <1>2 DEF TasksInv, TaskOK
    <3>2. OnceIn(ready', t)
      BY <2>1, <2>2, <3>1, AppendCall DEF TasksInv, TypeInv
    <3> QED BY <1>1, <2>1, <3>1, <3>2 DEF TaskOK
  <2>4. ASSUME NEW u \in Tasks \ {t} PROVE TaskOK(u)'
    <3>1. (NotIn(ready, u) => NotIn(ready', u)) /\ (OnceIn(ready, u) => OnceIn(ready', u))
      BY <2>1, <2>2, AppendCall DEF TasksInv, TypeInv
    <3> QED BY <1>1, <2>1, <3>1 DEF TasksInv, TaskOK
  <2>5. TypeInv'
    BY <1>1, <2>1, <2>2, AppendCall DEF TasksInv, TypeInv
  <2>6. \A u \in Tasks : TaskOK(u)'
    BY <2>3, <2>4
  <2> QED BY <1>1, <1>2, <2>1, <2>5, <2>6 DEF TasksInv
<1>3. CASE fut[t] # "pending"
  <2>1. /\ must_cancel' \in [Tasks -> BOOLEAN] /\ \A u \in Tasks \ {t} : must_cancel'[u] = must_cancel[u]
        /\ fut' = fut /\ ready' = ready
    BY <1>3 DEF Cancel, CancelEffect, TasksInv, TypeInv
  <2>2. \A u \in Tasks : TaskOK(u)'
    BY <1>1, <1>3, <2>1 DEF TasksInv, TaskOK
  <2>3. TypeInv'
    BY <1>1, <2>1 DEF TasksInv, TypeInv
  <2> QED BY <1>1, <1>3, <2>1, <2>2, <2>3 DEF TasksInv
<1> QED BY <1>2, <1>3

\* The first _step() of a task, or the one after a bare yield.
LEMMA ContinueKeeps ==
  ASSUME TasksInv, NEW t \in Tasks, Continue(t)
  PROVE  TasksInv' /\ fut' = fut /\ at' = at /\ late' = late
<1>1. Runs(t, "body") /\ Resume(t, Tail(ready)) /\ "body" \in Places \ {"end"}
  BY DEF Continue, Places
<1>2. Left(Tail(ready))
  BY <1>1, TailIsLeft DEF Runs
<1>3. fut[t] = "none" /\ at[t] = "body"
  BY <1>1 DEF Runs, TasksInv, TaskOK
<1>4. /\ TasksInv' /\ late' = late
      /\ fut' = [fut EXCEPT ![t] = "none"] /\ at' = [at EXCEPT ![t] = "body"]
  BY <1>1, <1>2, ResumeKeeps
<1> QED BY <1>3, <1>4 DEF TasksInv, TypeInv

LEMMA TasksUntouched ==
  ASSUME TasksInv, UNCHANGED tvars
  PROVE  TasksInv'
BY DEF TasksInv, TypeInv, TaskOK, NotIn, OnceIn, tvars

\* At first every task is in the queue, once, and none has begun.
LEMMA TasksInitHolds == ASSUME TasksInit PROVE TasksInv
<1> DEFINE n == Cardinality(Tasks)
           order == SetToSeq(Tasks)
<1>1. n \in Nat /\ IsFiniteSet(1..n) /\ Cardinality(1..n) = n
  BY FiniteTasks, FS_CardinalityType, FS_Interval
<1>2. order \in [1..n -> Tasks] /\ IsInjective(order)
  <2>1. ExistsBijection(1..n, Tasks)
    BY FiniteTasks, FS_CardinalityType
  <2>2. \E f \in [1..n -> Tasks] : IsInjective(f)
    BY <2>1 DEF ExistsBijection, Bijection, Injection, IsInjective
  <2> QED BY <2>2 DEF SetToSeq
<1>3. \A t \in Tasks : \E i \in 1..n : order[i] = t
  <2>1. order \in Injection(1..n, Tasks)
    BY <1>2 DEF Injection, IsInjective
  <2>2. order \in Surjection(1..n, Tasks)
    BY <1>1, <2>1, FiniteTasks, FS_Injection
  <2> QED BY <2>2 DEF Surjection
<1> HIDE DEF n, order
<1>4. /\ ready \in Seq(Callbacks) /\ DOMAIN ready = 1..n
      /\ \A i \in 1..n : ready[i] = Step(order[i]) /\ order[i] \in Tasks
  <2>1. ready = [i \in 1..n |-> Step(order[i])]
    BY <1>2 DEF TasksInit, order
  <2> QED BY <1>1, <1>2, <2>1 DEF Callbacks
<1>5. ASSUME NEW t \in Tasks PROVE OnceIn(ready, t)
  <2>1. PICK i \in 1..n : order[i] = t
    BY <1>3
  <2>2. \A j \in 1..n : ready[j] \in CallsOf(t) <=> j = i
    BY <1>2, <1>4, <2>1, CallsApart DEF IsInjective
  <2> QED BY <1>4, <2>1, <2>2 DEF OnceIn
<1>6. /\ fut = [t \in Tasks |-> "none"] /\ must_cancel = [t \in Tasks |-> FALSE]
      /\ at = [t \in Tasks |-> "body"] /\ current = None
  BY DEF TasksInit
<1>7. TypeInv
  <2>1. cancels \in 0..MaxCancels /\ current \in Tasks \cup {None} /\ late \in BOOLEAN
    <3>1. cancels = 0 /\ late = FALSE
      BY DEF TasksInit
    <3>2. 0 \in 0..MaxCancels
      BY FiniteTasks
    <3> QED BY <1>6, <3>1, <3>2
  <2>2. /\ fut \in [Tasks -> {"none", "pending", "result", "cancelled"}]
        /\ must_cancel \in [Tasks -> BOOLEAN] /\ at \in [Tasks -> Places]
    BY <1>6 DEF Places
  <2> QED BY <1>4, <2>1, <2>2 DEF TypeInv
<1> QED BY <1>5, <1>6, <1>7, FiniteTasks DEF TasksInv, TaskOK

-----------------------------------------------------------------------------
(* Lock, Condition and Semaphore.                                          *)

\* The lists are those of the tasks in each call.
LocksShape ==
  /\ waiters \in Seq(Tasks) /\ IsInjective(waiters)
  /\ cwaiters \in Seq(Tasks) /\ IsInjective(cwaiters)
  /\ inside \in SUBSET Tasks
  /\ \/ kind = "lock" /\ initial = 1
     \/ kind = "semaphore" /\ ~bare
  /\ initial \in 1..MaxValue /\ value \in 0..initial
  /\ bare \in BOOLEAN /\ missed \in BOOLEAN
  /\ \A t \in Tasks :
       /\ at[t] \in {"body", "end", "acquire", "reacquire", "wait"}
       /\ t \in ToSet(waiters) <=> at[t] \in {"acquire", "reacquire"}
       /\ t \in ToSet(cwaiters) <=> at[t] = "wait"
       /\ at[t] \in {"reacquire", "wait"} => kind = "lock"
       /\ t \in inside => at[t] = "body"

LocksPermits ==
  /\ ~bare => value + Cardinality(inside) = initial
  /\ Cardinality(Offered) <= value
  /\ kind = "lock" /\ value = 0 => inside # {}

LocksWake ==
  ~late /\ ~missed /\ AnyLive(waiters) =>
    /\ Offered # {} \/ inside # {}
    /\ kind = "lock" /\ value = 1 => Offered # {}

LEMMA LocksParts == LocksSound => LocksShape /\ LocksPermits /\ LocksWake
BY MaxValuePositive DEF LocksSound, LocksTypeOK, Exclusive, SomebodyWillRelease, LockIsPassedOn,
   LocksShape, LocksPermits, LocksWake

LEMMA LocksPartsNext == (LocksShape /\ LocksPermits /\ LocksWake)' => LocksSound'
BY MaxValuePositive DEF LocksSound, LocksTypeOK, Exclusive, SomebodyWillRelease, LockIsPassedOn,
   LocksShape, LocksPermits, LocksWake

\* Who is counted, and what it is to be offered a permit.
LocksCount ==
  /\ IsFiniteSet(inside) /\ Cardinality(inside) \in Nat
  /\ Offered \in SUBSET Tasks /\ IsFiniteSet(Offered) /\ Cardinality(Offered) \in Nat
  /\ \A t \in Tasks : t \in Offered <=> at[t] \in {"acquire", "reacquire"} /\ fut[t] = "result"
  /\ AnyLive(waiters) <=> \E f \in Tasks : at[f] \in {"acquire", "reacquire"} /\ fut[f] = "pending"
  /\ value \in Nat
  /\ value # 0 => Taken = value - 1

LEMMA LocksCounted == LocksShape => LocksCount
<1> SUFFICES ASSUME LocksShape PROVE LocksCount
  OBVIOUS
<1>1. \A t \in ToSet(waiters) : t \in Tasks
  BY ListMembers DEF LocksShape
<1>2. \A t \in Tasks : t \in Offered <=> at[t] \in {"acquire", "reacquire"} /\ fut[t] = "result"
  BY DEF LocksShape, Offered
<1>3. Offered \in SUBSET Tasks /\ inside \in SUBSET Tasks
  BY <1>1 DEF LocksShape, Offered
<1>4. IsFiniteSet(Offered) /\ IsFiniteSet(inside)
  BY <1>3, FiniteTasks, FS_Subset
<1>5. Cardinality(Offered) \in Nat /\ Cardinality(inside) \in Nat
  BY <1>4, FS_CardinalityType
<1>6. AnyLive(waiters) <=> \E f \in Tasks : at[f] \in {"acquire", "reacquire"} /\ fut[f] = "pending"
  BY <1>1 DEF LocksShape, AnyLive, Pending
<1>7. value \in Nat /\ (value # 0 => Taken = value - 1)
  BY MaxValuePositive DEF LocksShape, Taken
<1> QED BY <1>2, <1>3, <1>4, <1>5, <1>6, <1>7 DEF LocksCount

LEMMA LocksCountedNext == LocksShape' => LocksCount'
BY LocksCounted, PTL

\* Who finds no free permit, or one that others were before, will be served, unless
\* all that were before have been cancelled.
LEMMA SomebodyServes ==
  ASSUME TasksInv, LocksShape, LocksPermits, LocksWake, ~late, ~missed,
         ~FreeForNewcomer, ~BehindCancelled
  PROVE  /\ Offered # {} \/ inside # {}
         /\ kind = "lock" /\ value = 1 => Offered # {}
<1>0. LocksCount
  BY LocksCounted
<1>1. CASE value = 0
  <2>1. inside # {}
    <3>1. CASE bare
      BY <1>1, <3>1 DEF LocksShape, LocksPermits
    <3>2. CASE ~bare
      <4>1. Cardinality(inside) = initial /\ initial # 0
        BY <1>0, <1>1, <3>2, MaxValuePositive DEF LocksShape, LocksPermits, LocksCount
      <4> QED BY <4>1, FS_EmptySet
    <3> QED BY <3>1, <3>2
  <2> QED BY <1>1, <2>1
<1>2. CASE value # 0
  <2>1. value > 0
    BY <1>0, <1>2 DEF LocksCount
  <2>2. PICK t \in ToSet(waiters) : fut[t] # "cancelled"
    BY <2>1 DEF BehindCancelled
  <2>3. t \in Tasks /\ at[t] \in {"acquire", "reacquire"}
    BY <2>2, ListMembers DEF LocksShape
  <2>4. fut[t] \in {"pending", "result"}
    BY <2>2, <2>3 DEF TasksInv, TypeInv, TaskOK
  <2>5. CASE fut[t] = "pending"
    BY <1>0, <2>3, <2>5 DEF LocksCount, LocksWake
  <2>6. CASE fut[t] = "result"
    BY <1>0, <2>3, <2>6 DEF LocksCount
  <2> QED BY <2>4, <2>5, <2>6
<1> QED BY <1>1, <1>2

LEMMA AcquireNowKeeps ==
  ASSUME TasksInv, LocksSound, NEW t \in Tasks, AcquireNow(t)
  PROVE  TasksInv' /\ LocksSound'
<1>1. LocksShape /\ LocksPermits /\ LocksWake /\ LocksCount
  BY LocksParts, LocksCounted
<1>2. /\ UNCHANGED tvars /\ current = t /\ t \notin inside
      /\ waiters = <<>> /\ value > 0 /\ value' = Taken /\ inside' = inside \cup {t}
      /\ UNCHANGED <<kind, initial, waiters, cwaiters, bare, missed>>
  BY DEF AcquireNow, FreeForNewcomer
<1>3. TasksInv' /\ at' = at /\ fut' = fut /\ late' = late
  BY <1>2, TasksUntouched DEF tvars
<1>4. value' = value - 1 /\ value' \in Nat
  BY <1>1, <1>2 DEF LocksCount
<1>5. LocksShape'
  <2>1. at[t] = "body"
    BY <1>2 DEF TasksInv, TaskOK
  <2> QED BY <1>1, <1>2, <1>3, <1>4, <2>1, MaxValuePositive DEF LocksShape
<1>6. LocksCount'
  BY <1>5, LocksCountedNext
<1>7. ~AnyLive(waiters)' /\ Offered' = {}
  BY <1>2, NoneInList DEF AnyLive, Offered
<1>8. LocksPermits'
  <2>1. Cardinality(inside') = Cardinality(inside) + 1
    BY <1>1, <1>2, FS_AddElement DEF LocksCount
  <2>2. ~bare' => value' + Cardinality(inside') = initial'
    BY <1>1, <1>2, <1>4, <2>1, MaxValuePositive DEF LocksPermits, LocksCount, LocksShape
  <2>3. Cardinality(Offered') <= value'
    BY <1>4, <1>7, FS_EmptySet
  <2> QED BY <1>2, <2>2, <2>3 DEF LocksPermits
<1>9. LocksWake'
  BY <1>7 DEF LocksWake
<1> QED BY <1>3, <1>5, <1>8, <1>9, LocksPartsNext

LEMMA AcquireBlocksKeeps ==
  ASSUME TasksInv, LocksSound, NEW t \in Tasks, AcquireBlocks(t)
  PROVE  TasksInv' /\ LocksSound'
<1>1. LocksShape /\ LocksPermits /\ LocksWake /\ LocksCount
  BY LocksParts, LocksCounted
<1>2. /\ current = t /\ t \notin inside /\ ~FreeForNewcomer
      /\ waiters' = Append(waiters, t) /\ Block(t, "acquire", <<>>)
      /\ missed' = (missed \/ BehindCancelled)
      /\ UNCHANGED <<kind, initial, value, cwaiters, inside, bare>>
  BY DEF AcquireBlocks
<1>3. /\ TasksInv' /\ fut'[t] \in {"pending", "cancelled"} /\ late' = late /\ at'[t] = "acquire"
      /\ \A u \in Tasks \ {t} : fut'[u] = fut[u] /\ at'[u] = at[u]
      /\ at[t] = "body"
  BY <1>2, BlockAlone DEF Places
<1>4. LocksShape'
  <2>1. at[t] = "body"
    BY <1>3
  <2>2. t \notin ToSet(waiters) /\ t \notin ToSet(cwaiters)
    BY <1>1, <2>1 DEF LocksShape
  <2>3. /\ waiters' \in Seq(Tasks) /\ ToSet(waiters') = ToSet(waiters) \cup {t} /\ IsInjective(waiters')
    BY <1>1, <1>2, <2>2, AppendList DEF LocksShape
  <2> QED BY <1>1, <1>2, <1>3, <2>1, <2>3 DEF LocksShape
<1>5. LocksCount'
  BY <1>4, LocksCountedNext
<1>6. Offered' = Offered
  <2>1. at[t] = "body"
    BY <1>2 DEF TasksInv, TaskOK
  <2>2. ASSUME NEW u \in Tasks PROVE u \in Offered' <=> u \in Offered
    BY <1>1, <1>3, <1>5, <2>1 DEF LocksCount
  <2> QED BY <1>1, <1>5, <2>2 DEF LocksCount
<1>7. LocksPermits'
  BY <1>1, <1>2, <1>6 DEF LocksPermits
<1>8. LocksWake'
  BY <1>1, <1>2, <1>3, <1>6, SomebodyServes DEF LocksWake
<1> QED BY <1>3, <1>4, <1>7, <1>8, LocksPartsNext

\* The running coroutine is woken out of a call.
LEMMA ReturnsFrom ==
  ASSUME TasksInv, NEW t \in Tasks, NEW where \in Places \ {"body", "end"}, Runs(t, where),
         Resume(t, Tail(ready))
  PROVE  /\ TasksInv' /\ at[t] = where /\ fut[t] \in {"result", "cancelled"}
         /\ ~Thrown(t) => fut[t] = "result"
         /\ ~late /\ Thrown(t) => fut[t] = "cancelled"
         /\ fut'[t] = "none" /\ at'[t] = "body" /\ late' = late
         /\ \A u \in Tasks \ {t} : fut'[u] = fut[u] /\ at'[u] = at[u]
<1>1. where \in Places \ {"end"} /\ ready # <<>>
  BY DEF Runs
<1>2. Left(Tail(ready))
  BY <1>1, TailIsLeft
<1>3. at[t] = where /\ fut[t] # "pending" /\ (~late /\ fut[t] = "result" => ~Thrown(t))
  BY <1>1, RunsMeans
<1>4. fut[t] \in {"result", "cancelled"}
  BY <1>3 DEF TasksInv, TypeInv, TaskOK
<1>5. ~Thrown(t) => fut[t] = "result"
  BY <1>4 DEF Thrown
<1>6. /\ TasksInv' /\ fut'[t] = "none" /\ at'[t] = "body" /\ late' = late
      /\ \A u \in Tasks \ {t} : fut'[u] = fut[u] /\ at'[u] = at[u]
  BY <1>1, <1>2, ResumeKeeps
<1> QED BY <1>3, <1>4, <1>5, <1>6

LEMMA AcquiredKeeps ==
  ASSUME TasksInv, LocksSound, NEW t \in Tasks, Acquired(t)
  PROVE  TasksInv' /\ LocksSound'
<1>1. LocksShape /\ LocksPermits /\ LocksWake /\ LocksCount
  BY LocksParts, LocksCounted
<1>2. PICK where \in {"acquire", "reacquire"} : Runs(t, where)
  BY DEF Acquired
<1>3. /\ ~Thrown(t) /\ waiters' = RemoveFirst(waiters, t) /\ value' = Taken
      /\ inside' = inside \cup {t} /\ Resume(t, Tail(ready))
      /\ UNCHANGED <<kind, initial, cwaiters, bare, missed>>
  BY DEF Acquired, Without
<1>4. /\ TasksInv' /\ at[t] \in {"acquire", "reacquire"} /\ fut[t] = "result"
      /\ at'[t] = "body" /\ late' = late
      /\ \A u \in Tasks \ {t} : fut'[u] = fut[u] /\ at'[u] = at[u]
  BY <1>2, <1>3, ReturnsFrom DEF Places
<1>5. t \in Offered /\ t \notin inside
  BY <1>1, <1>4 DEF LocksShape, LocksCount
<1>6. /\ Cardinality(Offered \ {t}) = Cardinality(Offered) - 1
      /\ Cardinality(inside \cup {t}) = Cardinality(inside) + 1
  BY <1>1, <1>5, FS_RemoveElement, FS_AddElement DEF LocksCount
<1>7. value > 0 /\ value' = value - 1 /\ value' \in 0..initial
  <2>1. Cardinality(Offered) # 0
    BY <1>1, <1>5, FS_EmptySet DEF LocksCount
  <2>2. value > 0
    BY <1>1, <2>1 DEF LocksPermits, LocksCount
  <2> QED BY <1>1, <1>3, <2>2, MaxValuePositive DEF LocksCount, LocksShape
<1>8. LocksShape'
  <2>1. waiters' \in Seq(Tasks) /\ ToSet(waiters') = ToSet(waiters) \ {t} /\ IsInjective(waiters')
    BY <1>1, <1>3, RemoveList DEF LocksShape
  <2> QED BY <1>1, <1>3, <1>4, <1>7, <2>1 DEF LocksShape
<1>9. LocksCount'
  BY <1>8, LocksCountedNext
<1>10. Offered' = Offered \ {t}
  <2>1. ASSUME NEW u \in Tasks PROVE u \in Offered' <=> u \in Offered /\ u # t
    BY <1>1, <1>4, <1>9 DEF LocksCount
  <2> QED BY <1>1, <1>9, <2>1 DEF LocksCount
<1>11. LocksPermits'
  <2>1. ~bare' => value' + Cardinality(inside') = initial'
    BY <1>1, <1>3, <1>6, <1>7, MaxValuePositive DEF LocksPermits, LocksCount, LocksShape
  <2>2. Cardinality(Offered') <= value'
    BY <1>1, <1>6, <1>7, <1>10, MaxValuePositive DEF LocksPermits, LocksCount, LocksShape
  <2> QED BY <1>3, <2>1, <2>2 DEF LocksPermits
<1>12. LocksWake'
  <2>1. inside' # {} /\ ~(kind' = "lock" /\ value' = 1)
    BY <1>1, <1>3, <1>7, MaxValuePositive DEF LocksShape
  <2> QED BY <2>1 DEF LocksWake
<1> QED BY <1>4, <1>8, <1>11, <1>12, LocksPartsNext

\* A task that leaves the list without its permit: only if it was cancelled late
\* was the permit offered to it.
LEMMA LeavesTheList ==
  ASSUME LocksShape, LocksPermits, LocksCount, LocksCount', NEW t \in Tasks,
         ~late => fut[t] = "cancelled", late' = late, value' = value,
         at'[t] = "body", \A u \in Tasks \ {t} : fut'[u] = fut[u] /\ at'[u] = at[u]
  PROVE  /\ Cardinality(Offered') <= value'
         /\ ~late => Offered' = Offered
         /\ AnyLive(waiters)' => AnyLive(waiters)
<1>1. Offered' = Offered \ {t}
  <2>1. ASSUME NEW u \in Tasks PROVE u \in Offered' <=> u \in Offered /\ u # t
    BY DEF LocksCount
  <2> QED BY <2>1 DEF LocksCount
<1>2. Cardinality(Offered') <= value'
  <2>1. Cardinality(Offered \ {t}) = IF t \in Offered THEN Cardinality(Offered) - 1 ELSE Cardinality(Offered)
    BY FS_RemoveElement DEF LocksCount
  <2> QED BY <1>1, <2>1 DEF LocksPermits, LocksCount
<1>3. ~late => Offered' = Offered
  BY <1>1 DEF LocksCount
<1>4. AnyLive(waiters)' => AnyLive(waiters)
  BY DEF LocksCount
<1> QED BY <1>2, <1>3, <1>4

LEMMA AcquireCancelledKeeps ==
  ASSUME TasksInv, LocksSound, NEW t \in Tasks, AcquireCancelled(t)
  PROVE  TasksInv' /\ LocksSound'
<1>1. LocksShape /\ LocksPermits /\ LocksWake /\ LocksCount
  BY LocksParts, LocksCounted
<1>2. /\ Runs(t, "acquire") /\ Thrown(t) /\ waiters' = RemoveFirst(waiters, t)
      /\ Resume(t, Tail(ready)) /\ UNCHANGED <<kind, initial, value, cwaiters, inside, bare, missed>>
  BY DEF AcquireCancelled, Without
<1>3. /\ TasksInv' /\ at[t] = "acquire" /\ (~late => fut[t] = "cancelled")
      /\ at'[t] = "body" /\ late' = late
      /\ \A u \in Tasks \ {t} : fut'[u] = fut[u] /\ at'[u] = at[u]
  BY <1>2, ReturnsFrom DEF Places
<1>4. LocksShape'
  <2>1. waiters' \in Seq(Tasks) /\ ToSet(waiters') = ToSet(waiters) \ {t} /\ IsInjective(waiters')
    BY <1>1, <1>2, RemoveList DEF LocksShape
  <2> QED BY <1>1, <1>2, <1>3, <2>1 DEF LocksShape
<1>5. LocksCount'
  BY <1>4, LocksCountedNext
<1>6. /\ Cardinality(Offered') <= value' /\ (~late => Offered' = Offered)
      /\ AnyLive(waiters)' => AnyLive(waiters)
  BY <1>1, <1>2, <1>3, <1>5, LeavesTheList
<1>7. LocksPermits'
  BY <1>1, <1>2, <1>6 DEF LocksPermits
<1>8. LocksWake'
  BY <1>1, <1>2, <1>3, <1>6 DEF LocksWake
<1> QED BY <1>3, <1>4, <1>7, <1>8, LocksPartsNext

LEMMA ReacquireCancelledKeeps ==
  ASSUME TasksInv, LocksSound, NEW t \in Tasks, ReacquireCancelled(t)
  PROVE  TasksInv' /\ LocksSound'
<1>1. LocksShape /\ LocksPermits /\ LocksWake /\ LocksCount
  BY LocksParts, LocksCounted
<1>2. /\ Runs(t, "reacquire") /\ Thrown(t) /\ waiters' = RemoveFirst(waiters, t)
      /\ Resume(t, Tail(ready)) /\ inside' = inside \cup {t} /\ bare' = TRUE
      /\ UNCHANGED <<kind, initial, value, cwaiters, missed>>
  BY DEF ReacquireCancelled, Without
<1>3. /\ TasksInv' /\ at[t] = "reacquire" /\ (~late => fut[t] = "cancelled")
      /\ at'[t] = "body" /\ late' = late
      /\ \A u \in Tasks \ {t} : fut'[u] = fut[u] /\ at'[u] = at[u]
  BY <1>2, ReturnsFrom DEF Places
<1>4. LocksShape'
  <2>1. waiters' \in Seq(Tasks) /\ ToSet(waiters') = ToSet(waiters) \ {t} /\ IsInjective(waiters')
    BY <1>1, <1>2, RemoveList DEF LocksShape
  <2>2. kind = "lock" /\ initial = 1
    BY <1>1, <1>3 DEF LocksShape
  <2> QED BY <1>1, <1>2, <1>3, <2>1, <2>2 DEF LocksShape
<1>5. LocksCount'
  BY <1>4, LocksCountedNext
<1>6. /\ Cardinality(Offered') <= value' /\ (~late => Offered' = Offered)
      /\ AnyLive(waiters)' => AnyLive(waiters)
  BY <1>1, <1>2, <1>3, <1>5, LeavesTheList
<1>7. LocksPermits'
  BY <1>1, <1>2, <1>6 DEF LocksPermits
<1>8. LocksWake'
  BY <1>1, <1>2, <1>3, <1>6 DEF LocksWake
<1> QED BY <1>3, <1>4, <1>7, <1>8, LocksPartsNext

\* The waiter that a release wakes.
LEMMA WakesOne ==
  ASSUME LocksShape
  PROVE  /\ ToWake \in Seq(Tasks) /\ IsInjective(ToWake) /\ \A f \in ToSet(ToWake) : Pending(f)
         /\ \A f \in ToSet(ToWake) : f \in Tasks /\ at[f] \in {"acquire", "reacquire"}
         /\ AnyLive(waiters) => ToSet(ToWake) # {}
         /\ ToSet(ToWake) # {} => \E f \in Tasks : ToSet(ToWake) = {f}
<1>1. /\ ToWake \in Seq(Tasks) /\ IsInjective(ToWake)
      /\ ToSet(ToWake) \subseteq {f \in ToSet(waiters) : Pending(f)}
      /\ ToSet(ToWake) = {} <=> \A f \in ToSet(waiters) : ~Pending(f)
      /\ ToWake # <<>> => \E f \in ToSet(waiters) : Pending(f) /\ ToWake = <<f>>
  BY FirstLive DEF LocksShape, ToWake
<1>2. \A f \in ToSet(waiters) : f \in Tasks /\ at[f] \in {"acquire", "reacquire"}
  BY ListMembers DEF LocksShape
<1>3. ASSUME ToSet(ToWake) # {} PROVE \E f \in Tasks : ToSet(ToWake) = {f}
  <2>1. ToWake # <<>>
    BY <1>3, NoneInList
  <2>2. PICK f \in ToSet(waiters) : ToWake = <<f>>
    BY <1>1, <2>1
  <2>3. ToSet(<<f>>) = {f}
    BY DEF ToSet
  <2> QED BY <1>2, <2>2, <2>3
<1> QED BY <1>1, <1>2, <1>3 DEF AnyLive

\* One more permit, and the first sleeper is offered it.
LEMMA PermitPassedOn ==
  ASSUME LocksShape, LocksPermits, LocksCount, LocksCount', NEW t \in Tasks, value' = value + 1,
         at[t] = "body", at'[t] \in {"body", "wait"}, \A u \in Tasks \ {t} : at'[u] = at[u],
         \A u \in Tasks \ {t} : fut'[u] = IF u \in ToSet(ToWake) THEN "result" ELSE fut[u]
  PROVE  /\ Cardinality(Offered') <= value'
         /\ AnyLive(waiters)' => Offered' # {}
<1>1. Offered' = Offered \cup ToSet(ToWake)
  <2>1. \A f \in ToSet(ToWake) : f \in Tasks /\ at[f] \in {"acquire", "reacquire"}
    BY WakesOne
  <2>2. ASSUME NEW u \in Tasks PROVE u \in Offered' <=> u \in Offered \cup ToSet(ToWake)
    BY <2>1 DEF LocksCount
  <2> QED BY <2>1, <2>2 DEF LocksCount
<1>2. Cardinality(Offered') <= value'
  <2>1. CASE ToSet(ToWake) = {}
    BY <1>1, <2>1 DEF LocksCount, LocksPermits
  <2>2. CASE ToSet(ToWake) # {}
    <3>1. PICK f \in Tasks : ToSet(ToWake) = {f}
      BY <2>2, WakesOne
    <3>2. Cardinality(Offered \cup {f}) = IF f \in Offered THEN Cardinality(Offered) ELSE Cardinality(Offered) + 1
      BY FS_AddElement DEF LocksCount
    <3> QED BY <1>1, <3>1, <3>2 DEF LocksCount, LocksPermits
  <2> QED BY <2>1, <2>2
<1>3. ASSUME AnyLive(waiters)' PROVE Offered' # {}
  <2>1. PICK f \in Tasks : at'[f] \in {"acquire", "reacquire"} /\ fut'[f] = "pending"
    BY <1>3 DEF LocksCount
  <2>2. f # t /\ at[f] \in {"acquire", "reacquire"} /\ fut[f] = "pending"
    BY <2>1
  <2>3. AnyLive(waiters)
    BY <2>2 DEF LocksCount
  <2> QED BY <1>1, <2>3, WakesOne
<1> QED BY <1>2, <1>3

LEMMA ReleaseKeeps ==
  ASSUME TasksInv, LocksSound, NEW t \in Tasks, Release(t)
  PROVE  TasksInv' /\ LocksSound'
<1>1. LocksShape /\ LocksPermits /\ LocksWake /\ LocksCount
  BY LocksParts, LocksCounted
<1>2. /\ current = t /\ t \in inside /\ (kind = "lock" => value = 0)
      /\ value' = value + 1 /\ SetResults(ToWake) /\ inside' = inside \ {t}
      /\ UNCHANGED <<kind, initial, waiters, cwaiters, bare, missed>>
  BY DEF Release
<1>3. /\ TasksInv' /\ at' = at /\ late' = late
      /\ \A u \in Tasks : fut'[u] = IF u \in ToSet(ToWake) THEN "result" ELSE fut[u]
  BY <1>1, <1>2, WakesOne, SetResultsKeeps
<1>4. at[t] = "body"
  BY <1>1, <1>2 DEF LocksShape
<1>5. Cardinality(inside \ {t}) = Cardinality(inside) - 1 /\ Cardinality(inside) # 0
  BY <1>1, <1>2, FS_RemoveElement, FS_EmptySet DEF LocksCount
<1>6. value' \in 0..initial
  <2>1. CASE kind = "lock"
    BY <1>1, <1>2, <2>1 DEF LocksShape
  <2>2. CASE kind # "lock"
    <3>1. value + Cardinality(inside) = initial /\ initial \in Nat
      BY <1>1, <2>2, MaxValuePositive DEF LocksShape, LocksPermits
    <3> QED BY <1>1, <1>2, <1>5, <3>1 DEF LocksCount
  <2> QED BY <2>1, <2>2
<1>7. LocksShape'
  BY <1>1, <1>2, <1>3, <1>6 DEF LocksShape
<1>8. LocksCount'
  BY <1>7, LocksCountedNext
<1>9. Cardinality(Offered') <= value' /\ (AnyLive(waiters)' => Offered' # {})
  BY <1>1, <1>2, <1>3, <1>4, <1>8, PermitPassedOn
<1>10. LocksPermits'
  <2>1. ~bare' => value' + Cardinality(inside') = initial'
    BY <1>1, <1>2, <1>5, MaxValuePositive DEF LocksPermits, LocksCount, LocksShape
  <2>2. value' # 0
    BY <1>1, <1>2 DEF LocksCount
  <2> QED BY <1>9, <2>1, <2>2 DEF LocksPermits
<1>11. LocksWake'
  BY <1>9 DEF LocksWake
<1> QED BY <1>3, <1>7, <1>10, <1>11, LocksPartsNext

\* A lock is found unlocked only by a task that came out of wait() without it.
LEMMA ReleaseRaisesKeeps ==
  ASSUME TasksInv, LocksSound, NEW t \in Tasks, ReleaseRaises(t)
  PROVE  TasksInv' /\ LocksSound'
<1>1. LocksShape /\ LocksPermits /\ LocksWake /\ LocksCount
  BY LocksParts, LocksCounted
<1>2. /\ UNCHANGED tvars /\ t \in inside /\ kind = "lock" /\ value = 1 /\ inside' = inside \ {t}
      /\ UNCHANGED <<kind, initial, value, waiters, cwaiters, bare, missed>>
  BY DEF ReleaseRaises
<1>3. TasksInv' /\ at' = at /\ fut' = fut /\ late' = late
  BY <1>2, TasksUntouched DEF tvars
<1>4. bare
  <2>1. Cardinality(inside) # 0
    BY <1>1, <1>2, FS_EmptySet DEF LocksCount
  <2> QED BY <1>1, <1>2, <2>1 DEF LocksShape, LocksPermits, LocksCount
<1>5. LocksShape'
  BY <1>1, <1>2, <1>3 DEF LocksShape
<1>6. Offered' = Offered /\ (AnyLive(waiters)' <=> AnyLive(waiters))
  BY <1>2, <1>3 DEF Offered, AnyLive, Pending
<1>7. LocksPermits'
  BY <1>1, <1>2, <1>4, <1>6 DEF LocksPermits
<1>8. LocksWake'
  BY <1>1, <1>2, <1>3, <1>6 DEF LocksWake
<1> QED BY <1>3, <1>5, <1>7, <1>8, LocksPartsNext

LEMMA CondWaitKeeps ==
  ASSUME TasksInv, LocksSound, NEW t \in Tasks, CondWait(t)
  PROVE  TasksInv' /\ LocksSound'
<1>1. LocksShape /\ LocksPermits /\ LocksWake /\ LocksCount
  BY LocksParts, LocksCounted
<1>2. /\ kind = "lock" /\ current = t /\ t \in inside /\ value = 0 /\ value' = 1
      /\ cwaiters' = Append(cwaiters, t) /\ Block(t, "wait", ToWake) /\ inside' = inside \ {t}
      /\ UNCHANGED <<kind, initial, waiters, bare, missed>>
  BY DEF CondWait
<1>3. /\ TasksInv' /\ at'[t] = "wait" /\ late' = late
      /\ \A u \in Tasks \ {t} : at'[u] = at[u] /\ fut'[u] = IF u \in ToSet(ToWake) THEN "result" ELSE fut[u]
  <2>1. "wait" \in Places \ {"body", "end"}
    BY DEF Places
  <2> QED BY <1>1, <1>2, <2>1, WakesOne, BlockKeeps
<1>4. at[t] = "body"
  BY <1>1, <1>2 DEF LocksShape
<1>5. Cardinality(inside \ {t}) = Cardinality(inside) - 1
  BY <1>1, <1>2, FS_RemoveElement DEF LocksCount
<1>6. LocksShape'
  <2>1. t \notin ToSet(cwaiters) /\ t \notin ToSet(waiters)
    BY <1>1, <1>4 DEF LocksShape
  <2>2. /\ cwaiters' \in Seq(Tasks) /\ ToSet(cwaiters') = ToSet(cwaiters) \cup {t}
        /\ IsInjective(cwaiters')
    BY <1>1, <1>2, <2>1, AppendList DEF LocksShape
  <2>3. kind' = "lock" /\ initial' = 1 /\ value' \in 0..initial'
    BY <1>1, <1>2 DEF LocksShape
  <2> QED BY <1>1, <1>2, <1>3, <1>4, <2>1, <2>2, <2>3 DEF LocksShape
<1>7. LocksCount'
  BY <1>6, LocksCountedNext
<1>8. Cardinality(Offered') <= value' /\ (AnyLive(waiters)' => Offered' # {})
  BY <1>1, <1>2, <1>3, <1>4, <1>7, PermitPassedOn
<1>9. LocksPermits'
  <2>1. ~bare' => value' + Cardinality(inside') = initial'
    BY <1>1, <1>2, <1>5, MaxValuePositive DEF LocksPermits, LocksCount, LocksShape
  <2> QED BY <1>2, <1>8, <2>1 DEF LocksPermits
<1>10. LocksWake'
  BY <1>8 DEF LocksWake
<1> QED BY <1>3, <1>6, <1>9, <1>10, LocksPartsNext

LEMMA CondTakesKeeps ==
  ASSUME TasksInv, LocksSound, NEW t \in Tasks, CondTakes(t)
  PROVE  TasksInv' /\ LocksSound'
<1>1. LocksShape /\ LocksPermits /\ LocksWake /\ LocksCount
  BY LocksParts, LocksCounted
<1>2. /\ Runs(t, "wait") /\ waiters = <<>> /\ value > 0 /\ value' = Taken
      /\ cwaiters' = RemoveFirst(cwaiters, t) /\ inside' = inside \cup {t}
      /\ Resume(t, Tail(ready)) /\ UNCHANGED <<kind, initial, waiters, bare, missed>>
  BY DEF CondTakes, FreeForNewcomer, Without
<1>3. /\ TasksInv' /\ at[t] = "wait" /\ at'[t] = "body" /\ late' = late
      /\ \A u \in Tasks \ {t} : fut'[u] = fut[u] /\ at'[u] = at[u]
  BY <1>2, ReturnsFrom DEF Places
<1>4. value' = value - 1 /\ value' \in 0..initial /\ kind = "lock" /\ t \notin inside
  <2>1. kind = "lock" /\ t \notin inside
    BY <1>1, <1>3 DEF LocksShape
  <2>2. value' = value - 1
    BY <1>1, <1>2 DEF LocksCount
  <2> QED BY <1>1, <1>2, <2>1, <2>2 DEF LocksShape
<1>5. LocksShape'
  <2>1. /\ cwaiters' \in Seq(Tasks) /\ ToSet(cwaiters') = ToSet(cwaiters) \ {t}
        /\ IsInjective(cwaiters')
    BY <1>1, <1>2, RemoveList DEF LocksShape
  <2> QED BY <1>1, <1>2, <1>3, <1>4, <2>1 DEF LocksShape
<1>6. ~AnyLive(waiters)' /\ Offered' = {}
  BY <1>2, NoneInList DEF AnyLive, Offered
<1>7. LocksPermits'
  <2>1. Cardinality(inside \cup {t}) = Cardinality(inside) + 1
    BY <1>1, <1>4, FS_AddElement DEF LocksCount
  <2>2. ~bare' => value' + Cardinality(inside') = initial'
    BY <1>1, <1>2, <1>4, <2>1, MaxValuePositive DEF LocksPermits, LocksCount, LocksShape
  <2>3. Cardinality(Offered') <= value'
    BY <1>1, <1>2, <1>4, <1>6, FS_EmptySet DEF LocksCount
  <2> QED BY <1>2, <2>2, <2>3 DEF LocksPermits
<1>8. LocksWake'
  BY <1>6 DEF LocksWake
<1> QED BY <1>3, <1>5, <1>7, <1>8, LocksPartsNext

LEMMA CondBlocksKeeps ==
  ASSUME TasksInv, LocksSound, NEW t \in Tasks, CondBlocks(t)
  PROVE  TasksInv' /\ LocksSound'
<1>1. LocksShape /\ LocksPermits /\ LocksWake /\ LocksCount
  BY LocksParts, LocksCounted
<1>2. /\ Runs(t, "wait") /\ ~FreeForNewcomer
      /\ cwaiters' = RemoveFirst(cwaiters, t) /\ waiters' = Append(waiters, t)
      /\ ResumeAndBlock(t, "reacquire") /\ missed' = (missed \/ BehindCancelled)
      /\ UNCHANGED <<kind, initial, value, inside, bare>>
  BY DEF CondBlocks, Without
<1>3. /\ TasksInv' /\ at[t] = "wait" /\ fut'[t] = "pending" /\ at'[t] = "reacquire" /\ late' = late
      /\ \A u \in Tasks \ {t} : fut'[u] = fut[u] /\ at'[u] = at[u]
  <2>1. "wait" \in Places \ {"end"} /\ "reacquire" \in Places \ {"body", "end"}
    BY DEF Places
  <2>2. at[t] = "wait"
    BY <1>2 DEF Runs
  <2> QED BY <1>2, <2>1, <2>2, ResumeAndBlockKeeps
<1>4. LocksShape'
  <2>1. kind = "lock" /\ t \notin ToSet(waiters) /\ t \notin inside
    BY <1>1, <1>3 DEF LocksShape
  <2>2. /\ cwaiters' \in Seq(Tasks) /\ ToSet(cwaiters') = ToSet(cwaiters) \ {t}
        /\ IsInjective(cwaiters')
    BY <1>1, <1>2, RemoveList DEF LocksShape
  <2>3. /\ waiters' \in Seq(Tasks) /\ ToSet(waiters') = ToSet(waiters) \cup {t}
        /\ IsInjective(waiters')
    BY <1>1, <1>2, <2>1, AppendList DEF LocksShape
  <2> QED BY <1>1, <1>2, <1>3, <2>1, <2>2, <2>3 DEF LocksShape
<1>5. LocksCount'
  BY <1>4, LocksCountedNext
<1>6. Offered' = Offered
  <2>1. ASSUME NEW u \in Tasks PROVE u \in Offered' <=> u \in Offered
    BY <1>1, <1>3, <1>5 DEF LocksCount
  <2> QED BY <1>1, <1>5, <2>1 DEF LocksCount
<1>7. LocksPermits'
  BY <1>1, <1>2, <1>6 DEF LocksPermits
<1>8. LocksWake'
  BY <1>1, <1>2, <1>3, <1>6, SomebodyServes DEF LocksWake
<1> QED BY <1>3, <1>4, <1>7, <1>8, LocksPartsNext

\* Tasks of Condition.wait() are woken: nobody who waits for a permit.
LEMMA NotifyKeeps ==
  ASSUME TasksInv, LocksSound, NEW t \in Tasks, NEW all \in BOOLEAN, Notify(t, all)
  PROVE  TasksInv' /\ LocksSound'
<1>1. LocksShape /\ LocksPermits /\ LocksWake /\ LocksCount
  BY LocksParts, LocksCounted
<1> DEFINE woken == IF all THEN Live(cwaiters) ELSE Next1(cwaiters)
<1>2. SetResults(woken) /\ UNCHANGED kvars
  BY DEF Notify
<1>3. /\ woken \in Seq(Tasks) /\ IsInjective(woken)
      /\ \A f \in ToSet(woken) : Pending(f) /\ f \in ToSet(cwaiters)
  <2>1. CASE all
    BY <1>1, <2>1, LiveList DEF LocksShape
  <2>2. CASE ~all
    BY <1>1, <2>2, FirstLive DEF LocksShape
  <2> QED BY <2>1, <2>2
<1> HIDE DEF woken
<1>4. /\ TasksInv' /\ at' = at /\ late' = late
      /\ \A u \in Tasks : fut'[u] = IF u \in ToSet(woken) THEN "result" ELSE fut[u]
  BY <1>2, <1>3, SetResultsKeeps
<1>5. LocksShape'
  BY <1>1, <1>2, <1>4 DEF LocksShape, kvars
<1>6. LocksCount'
  BY <1>5, LocksCountedNext
<1>7. \A u \in Tasks : at[u] \in {"acquire", "reacquire"} => fut'[u] = fut[u]
  BY <1>1, <1>3, <1>4 DEF LocksShape
<1>8. Offered' = Offered /\ (AnyLive(waiters)' <=> AnyLive(waiters))
  <2>1. ASSUME NEW u \in Tasks PROVE u \in Offered' <=> u \in Offered
    BY <1>1, <1>4, <1>6, <1>7 DEF LocksCount
  <2>2. AnyLive(waiters)' <=> AnyLive(waiters)
    BY <1>1, <1>4, <1>6, <1>7 DEF LocksCount
  <2> QED BY <1>1, <1>6, <2>1, <2>2 DEF LocksCount
<1>9. LocksPermits'
  BY <1>1, <1>2, <1>8 DEF LocksPermits, kvars
<1>10. LocksWake'
  BY <1>1, <1>2, <1>4, <1>8 DEF LocksWake, kvars
<1> QED BY <1>4, <1>5, <1>9, <1>10, LocksPartsNext

\* The steps of the tasks alone: nobody enters or leaves a call, or is woken in one.
LEMMA LocksKeptByTasks ==
  ASSUME LocksSound, UNCHANGED kvars, late => late',
         \A u \in Tasks :
           /\ at'[u] = at[u] \/ (at[u] = "body" /\ at'[u] = "end" /\ u \notin inside)
           /\ fut'[u] = fut[u] \/ (fut[u] = "pending" /\ fut'[u] = "cancelled")
  PROVE  LocksSound'
<1>1. LocksShape /\ LocksPermits /\ LocksWake /\ LocksCount
  BY LocksParts, LocksCounted
<1>2. LocksShape'
  BY <1>1 DEF LocksShape, kvars
<1>3. LocksCount'
  BY <1>2, LocksCountedNext
<1>4. Offered' = Offered
  <2>1. ASSUME NEW u \in Tasks PROVE u \in Offered' <=> u \in Offered
    BY <1>1, <1>3 DEF LocksCount
  <2> QED BY <1>1, <1>3, <2>1 DEF LocksCount
<1>5. AnyLive(waiters)' => AnyLive(waiters)
  BY <1>1, <1>3 DEF LocksCount
<1>6. LocksPermits'
  BY <1>1, <1>4 DEF LocksPermits, kvars
<1>7. LocksWake'
  BY <1>1, <1>4, <1>5 DEF LocksWake, kvars
<1> QED BY <1>2, <1>6, <1>7, LocksPartsNext

TaskStep == \E t \in Tasks : Continue(t) \/ Yield(t) \/ Cancel(t) \/ (Return(t) /\ t \notin inside)

\* What such a step does to the calls that tasks are in.
LEMMA TaskStepKeeps ==
  ASSUME TasksInv, TaskStep
  PROVE  /\ TasksInv' /\ (late => late')
         /\ \A u \in Tasks :
              /\ at'[u] = at[u] \/ (at[u] = "body" /\ at'[u] = "end" /\ u \notin inside)
              /\ fut'[u] = fut[u] \/ (fut[u] = "pending" /\ fut'[u] = "cancelled")
              /\ fut[u] = "result" => fut'[u] = "result"
<1>1. PICK t \in Tasks : Continue(t) \/ Yield(t) \/ Cancel(t) \/ (Return(t) /\ t \notin inside)
  BY DEF TaskStep
<1>2. CASE Continue(t)
  BY <1>2, ContinueKeeps
<1>3. CASE Yield(t)
  BY <1>3, YieldKeeps DEF Yield
<1>4. CASE Cancel(t)
  BY <1>4, CancelKeeps
<1>5. CASE Return(t) /\ t \notin inside
  <2>1. current = t /\ at' = [at EXCEPT ![t] = "end"] /\ fut' = fut /\ late' = late
    BY <1>5 DEF Return
  <2>2. at[t] = "body"
    BY <2>1 DEF TasksInv, TaskOK
  <2>3. at'[t] = "end" /\ \A u \in Tasks \ {t} : at'[u] = at[u]
    BY <2>1 DEF TasksInv, TypeInv
  <2> QED BY <1>5, <2>1, <2>2, <2>3, ReturnKeeps
<1> QED BY <1>1, <1>2, <1>3, <1>4, <1>5

LEMMA LocksNextKeeps ==
  ASSUME TasksInv, LocksSound, LocksNext
  PROVE  TasksInv' /\ LocksSound'
<1>1. PICK t \in Tasks :
        \/ AcquireNow(t) \/ AcquireBlocks(t) \/ Acquired(t) \/ AcquireCancelled(t)
        \/ Release(t) \/ ReleaseRaises(t)
        \/ CondWait(t) \/ CondTakes(t) \/ CondBlocks(t) \/ ReacquireCancelled(t)
        \/ \E all \in BOOLEAN : Notify(t, all)
  BY DEF LocksNext
<1> QED BY <1>1, AcquireNowKeeps, AcquireBlocksKeeps, AcquiredKeeps, AcquireCancelledKeeps,
           ReleaseKeeps, ReleaseRaisesKeeps, CondWaitKeeps, CondTakesKeeps, CondBlocksKeeps,
           ReacquireCancelledKeeps, NotifyKeeps

LEMMA LocksInitHolds == ASSUME TasksInit, LocksInit PROVE LocksSound
<1>1. /\ at = [t \in Tasks |-> "body"] /\ late = FALSE
  BY DEF TasksInit
<1>2. /\ (kind = "lock" /\ initial = 1) \/ (kind = "semaphore" /\ initial \in 1..MaxValue)
      /\ value = initial /\ waiters = <<>> /\ cwaiters = <<>> /\ inside = {}
      /\ bare = FALSE /\ missed = FALSE
  BY DEF LocksInit
<1>3. initial \in 1..MaxValue /\ initial \in Nat /\ initial # 0
  BY <1>2, MaxValuePositive
<1>4. Offered = {} /\ ~AnyLive(waiters)
  BY <1>2, NoneInList DEF Offered, AnyLive
<1>5. Cardinality(inside) = 0 /\ Cardinality(Offered) = 0
  BY <1>2, <1>4, FS_EmptySet
<1>6. LocksTypeOK /\ IsInjective(waiters) /\ IsInjective(cwaiters)
  BY <1>2, <1>3, MaxValuePositive, NoneInList DEF LocksTypeOK
<1>7. value \in 0..initial /\ Exclusive
  BY <1>2, <1>3, <1>5 DEF Exclusive
<1>8. \A t \in Tasks :
        /\ at[t] \in {"body", "end", "acquire", "reacquire", "wait"}
        /\ t \in ToSet(waiters) <=> at[t] \in {"acquire", "reacquire"}
        /\ t \in ToSet(cwaiters) <=> at[t] = "wait"
        /\ at[t] \in {"reacquire", "wait"} => kind = "lock"
        /\ t \in inside => at[t] = "body"
  BY <1>1, <1>2, NoneInList
<1>9. SomebodyWillRelease /\ LockIsPassedOn
  BY <1>4 DEF SomebodyWillRelease, LockIsPassedOn
<1>10. /\ initial > 0 /\ bare \in BOOLEAN /\ missed \in BOOLEAN
       /\ Cardinality(Offered) <= value /\ value # 0
       /\ (kind = "lock" /\ initial = 1) \/ (kind = "semaphore" /\ ~bare)
  <2>1. bare = FALSE /\ missed = FALSE /\ value = initial
    BY <1>2
  <2>2. initial > 0 /\ Cardinality(Offered) <= value /\ value # 0
    BY <1>3, <1>5, <2>1
  <2>3. (kind = "lock" /\ initial = 1) \/ kind = "semaphore"
    BY <1>2
  <2> QED BY <2>1, <2>2, <2>3
<1>11. SomebodyWillRelease /\ Exclusive /\ ~(kind = "lock" /\ value = 0)
  BY <1>7, <1>9, <1>10
<1> QED BY <1>6, <1>7, <1>8, <1>9, <1>10, <1>11 DEF LocksSound

-----------------------------------------------------------------------------
(* The items of a queue, in the order of their put() calls.                *)

Increasing(s) == \A i, j \in DOMAIN s : i < j => s[i] < s[j]

\* What has left, and behind it what is in the queue.
InOrder(o, q) == Increasing(o) /\ Increasing(q) /\ \A x \in ToSet(o), y \in ToSet(q) : x < y

LEMMA IncreasingList ==
  ASSUME NEW n \in Nat, NEW s \in Seq(1..n), Increasing(s)
  PROVE  IsInjective(s)
<1>1. DOMAIN s = 1..Len(s) /\ Len(s) \in Nat /\ \A i \in DOMAIN s : s[i] \in 1..n
  BY LenProperties
<1>2. ASSUME NEW i \in DOMAIN s, NEW j \in DOMAIN s, s[i] = s[j] PROVE i = j
  <2>1. ~(i < j) /\ ~(j < i)
    <3>1. s[i] \in Int /\ s[j] \in Int
      BY <1>1
    <3>2. ~(s[i] < s[j]) /\ ~(s[j] < s[i])
      BY <1>2, <3>1
    <3> QED BY <3>2 DEF Increasing
  <2> QED BY <1>1, <2>1
<1> QED BY <1>2 DEF IsInjective

LEMMA AppendGreater ==
  ASSUME NEW n \in Nat, NEW s \in Seq(1..n), Increasing(s),
         NEW x \in 1..n, \A y \in ToSet(s) : y < x
  PROVE  /\ Append(s, x) \in Seq(1..n) /\ Increasing(Append(s, x))
         /\ ToSet(Append(s, x)) = ToSet(s) \cup {x}
         /\ Append(s, x) # <<>> /\ Len(Append(s, x)) = Len(s) + 1 /\ Len(s) \in Nat
<1> DEFINE a == Append(s, x)
<1>1. /\ a \in Seq(1..n) /\ a # <<>> /\ Len(a) = Len(s) + 1 /\ Len(s) \in Nat
      /\ DOMAIN a = 1..(Len(s) + 1) /\ DOMAIN s = 1..Len(s)
      /\ \A i \in 1..Len(s) : a[i] = s[i]
      /\ a[Len(s) + 1] = x
  BY AppendProperties, LenProperties
<1> HIDE DEF a
<1>2. x \notin ToSet(s) /\ IsInjective(s)
  <2>1. ~(x < x)
    OBVIOUS
  <2> QED BY <2>1, IncreasingList
<1>3. ToSet(a) = ToSet(s) \cup {x}
  BY <1>2, AppendList DEF a
<1>4. Increasing(a)
  <2> SUFFICES ASSUME NEW i \in DOMAIN a, NEW j \in DOMAIN a, i < j PROVE a[i] < a[j]
    BY DEF Increasing
  <2>1. i \in 1..Len(s) /\ a[i] = s[i] /\ s[i] \in ToSet(s)
    <3>1. i \in 1..Len(s)
      BY <1>1
    <3> QED BY <1>1, <3>1, ListMembers
  <2>2. CASE j = Len(s) + 1
    BY <1>1, <2>1, <2>2
  <2>3. CASE j # Len(s) + 1
    <3>1. j \in 1..Len(s)
      BY <1>1, <2>3
    <3> QED BY <1>1, <2>1, <3>1 DEF Increasing
  <2> QED BY <2>2, <2>3
<1> QED BY <1>1, <1>3, <1>4 DEF a

LEMMA HeadIsLeast ==
  ASSUME NEW n \in Nat, NEW s \in Seq(1..n), s # <<>>, Increasing(s)
  PROVE  /\ Head(s) \in ToSet(s) /\ Head(s) \in 1..n
         /\ Tail(s) \in Seq(1..n) /\ Increasing(Tail(s))
         /\ ToSet(Tail(s)) = ToSet(s) \ {Head(s)}
         /\ Len(Tail(s)) = Len(s) - 1
         /\ \A y \in ToSet(Tail(s)) : Head(s) < y
<1> DEFINE r == Tail(s)
           h == Head(s)
<1>1. /\ h \in 1..n /\ r \in Seq(1..n) /\ ToSet(s) = ToSet(r) \cup {h} /\ h \notin ToSet(r)
  BY IncreasingList, TailList
<1>2. /\ Len(r) = Len(s) - 1 /\ DOMAIN r = 1..Len(r) /\ DOMAIN s = 1..Len(s) /\ Len(s) \in Nat \ {0}
      /\ \A i \in 1..Len(r) : r[i] = s[i + 1]
      /\ h = s[1]
  BY HeadTailProperties, EmptySeq, LenProperties
<1> HIDE DEF r, h
<1>3. \A i \in DOMAIN r : i \in Nat /\ i + 1 \in DOMAIN s /\ 1 \in DOMAIN s /\ 1 < i + 1 /\ r[i] = s[i + 1]
  BY <1>2
<1>4. Increasing(r)
  <2> SUFFICES ASSUME NEW i \in DOMAIN r, NEW j \in DOMAIN r, i < j PROVE r[i] < r[j]
    BY DEF Increasing
  <2>1. i + 1 < j + 1
    BY <1>3
  <2> QED BY <1>3, <2>1 DEF Increasing
<1>5. ASSUME NEW y \in ToSet(r) PROVE h < y
  <2>1. PICK i \in DOMAIN r : r[i] = y
    BY <1>5 DEF ToSet
  <2> QED BY <1>2, <1>3, <2>1 DEF Increasing
<1> QED BY <1>1, <1>2, <1>4, <1>5 DEF r, h

LEMMA EnterInOrder ==
  ASSUME NEW n \in Nat, NEW o \in Seq(1..n), NEW q \in Seq(1..n), InOrder(o, q),
         NEW x \in 1..n, \A y \in ToSet(o) \cup ToSet(q) : y < x
  PROVE  /\ Append(q, x) \in Seq(1..n) /\ Append(q, x) # <<>>
         /\ ToSet(Append(q, x)) = ToSet(q) \cup {x}
         /\ Len(Append(q, x)) = Len(q) + 1 /\ Len(q) \in Nat
         /\ InOrder(o, Append(q, x))
BY AppendGreater DEF InOrder

LEMMA LeaveInOrder ==
  ASSUME NEW n \in Nat, NEW o \in Seq(1..n), NEW q \in Seq(1..n), InOrder(o, q), q # <<>>
  PROVE  /\ Append(o, Head(q)) \in Seq(1..n) /\ Tail(q) \in Seq(1..n)
         /\ Head(q) \in ToSet(q) /\ Head(q) \notin ToSet(o)
         /\ ToSet(Append(o, Head(q))) = ToSet(o) \cup {Head(q)}
         /\ ToSet(Tail(q)) = ToSet(q) \ {Head(q)}
         /\ Len(Tail(q)) = Len(q) - 1
         /\ InOrder(Append(o, Head(q)), Tail(q))
<1>1. /\ Head(q) \in ToSet(q) /\ Head(q) \in 1..n
      /\ Tail(q) \in Seq(1..n) /\ Increasing(Tail(q))
      /\ ToSet(Tail(q)) = ToSet(q) \ {Head(q)} /\ Len(Tail(q)) = Len(q) - 1
      /\ \A y \in ToSet(Tail(q)) : Head(q) < y
  BY HeadIsLeast DEF InOrder
<1>2. \A y \in ToSet(o) : y < Head(q)
  BY <1>1 DEF InOrder
<1>3. Head(q) \notin ToSet(o)
  <2>1. ~(Head(q) < Head(q))
    BY <1>1
  <2> QED BY <1>2, <2>1
<1>4. /\ Append(o, Head(q)) \in Seq(1..n) /\ Increasing(Append(o, Head(q)))
      /\ ToSet(Append(o, Head(q))) = ToSet(o) \cup {Head(q)}
  BY <1>1, <1>2, AppendGreater DEF InOrder
<1>5. \A x \in ToSet(Append(o, Head(q))), y \in ToSet(Tail(q)) : x < y
  BY <1>1, <1>4 DEF InOrder
<1> QED BY <1>1, <1>3, <1>4, <1>5 DEF InOrder

-----------------------------------------------------------------------------
(* The futures that are done go off the head of a list.                    *)

\* The first of a list that is not done, if there is one.
LEMMA FirstOfLive ==
  ASSUME NEW S, NEW s \in Seq(S), NEW live, live = {i \in DOMAIN s : Pending(s[i])}, live # {}
  PROVE  /\ Min(live) \in live /\ \A i \in live : Min(live) <= i
         /\ Min(live) \in 1..Len(s)
<1>1. Len(s) \in Nat /\ DOMAIN s = 1..Len(s)
  BY LenProperties
<1>2. live \in SUBSET Nat /\ IsFiniteSet(live)
  <2>1. live \in SUBSET (1..Len(s)) /\ IsFiniteSet(1..Len(s))
    BY <1>1, FS_Interval
  <2> QED BY <2>1, FS_Subset
<1>3. Cardinality(live) \in Nat /\ Cardinality(live) # 0
  BY <1>2, FS_EmptySet, FS_CardinalityType
<1>4. PICK i \in live : Cardinality({j \in live : j <= i}) = 1
  <2>1. 1 \in 1..Cardinality(live)
    BY <1>3
  <2>2. \A n \in 1..Cardinality(live) : \E i \in live : Cardinality({j \in live : j <= i}) = n
    BY <1>2, Ranks
  <2> QED BY <2>1, <2>2
<1>5. \A j \in live : i <= j
  <2>1. {j \in live : j <= i} \in SUBSET live /\ IsFiniteSet({j \in live : j <= i})
    BY <1>2, FS_Subset
  <2>2. PICK k : {j \in live : j <= i} = {k}
    BY <1>4, <2>1, FS_Singleton
  <2>3. i \in {j \in live : j <= i}
    BY <1>2
  <2>4. \A j \in live : j <= i => j = i
    BY <2>2, <2>3
  <2> QED BY <1>2, <2>4
<1>6. \E k \in live : \A j \in live : k <= j
  BY <1>5
<1>7. Min(live) \in live /\ \A j \in live : Min(live) <= j
  BY <1>6 DEF Min
<1> QED BY <1>1, <1>7

\* What is behind the first k - 1.
LEMMA Suffix ==
  ASSUME NEW S, NEW s \in Seq(S), NEW k \in 1..(Len(s) + 1)
  PROVE  /\ SubSeq(s, k, Len(s)) \in Seq(S) /\ Len(SubSeq(s, k, Len(s))) = Len(s) - k + 1
         /\ \A i \in 1..(Len(s) - k + 1) : SubSeq(s, k, Len(s))[i] = s[k + i - 1]
<1>1. Len(s) \in Nat /\ \A i \in 1..Len(s) : s[i] \in S
  BY LenProperties
<1>2. k \in Int /\ Len(s) \in Int /\ \A i \in k..Len(s) : s[i] \in S
  BY <1>1
<1>3. /\ SubSeq(s, k, Len(s)) \in Seq(S)
      /\ Len(SubSeq(s, k, Len(s))) = IF k <= Len(s) THEN Len(s) - k + 1 ELSE 0
      /\ \A i \in 1..(Len(s) - k + 1) : SubSeq(s, k, Len(s))[i] = s[k + i - 1]
  BY <1>2, SubSeqProperties
<1>4. k <= Len(s) \/ Len(s) - k + 1 = 0
  BY <1>1
<1> QED BY <1>3, <1>4

LEMMA ConsumedList ==
  ASSUME NEW S, NEW s \in Seq(S)
  PROVE  \E k \in 1..(Len(s) + 1) :
           /\ Consumed(s) = SubSeq(s, k, Len(s))
           /\ \A i \in 1..Len(s) : Pending(s[i]) => k <= i
           /\ k <= Len(s) => Pending(s[k])
<1> DEFINE live == {i \in DOMAIN s : Pending(s[i])}
<1>1. Len(s) \in Nat /\ DOMAIN s = 1..Len(s)
  BY LenProperties
<1>2. CASE live = {}
  <2>1. Consumed(s) = <<>>
    BY <1>2 DEF Consumed
  <2>2. SubSeq(s, Len(s) + 1, Len(s)) = <<>>
    BY <1>1, SubSeqEmpty
  <2>3. Len(s) + 1 \in 1..(Len(s) + 1) /\ ~(Len(s) + 1 <= Len(s))
    BY <1>1
  <2> QED BY <1>1, <1>2, <2>1, <2>2, <2>3
<1>3. CASE live # {}
  <2>1. Consumed(s) = SubSeq(s, Min(live), Len(s))
    BY <1>3 DEF Consumed
  <2>2. /\ Min(live) \in live /\ \A i \in live : Min(live) <= i
        /\ Min(live) \in 1..Len(s)
    BY <1>3, FirstOfLive
  <2>3. Min(live) \in 1..(Len(s) + 1)
    BY <1>1, <2>2
  <2> QED BY <1>1, <2>1, <2>2, <2>3
<1> QED BY <1>2, <1>3

LEMMA HeadOfSuffix ==
  ASSUME NEW S, NEW s \in Seq(S), NEW k \in 1..(Len(s) + 1), NEW c, c = SubSeq(s, k, Len(s))
  PROVE  /\ c \in Seq(S) /\ (c = <<>> <=> k = Len(s) + 1)
         /\ c # <<>> =>
              /\ k \in 1..Len(s) /\ Head(c) = s[k] /\ Tail(c) \in Seq(S)
              /\ DOMAIN Tail(c) = 1..(Len(s) - k)
              /\ \A i \in 1..(Len(s) - k) : Tail(c)[i] = s[k + i]
<1>1. /\ c \in Seq(S) /\ Len(c) = Len(s) - k + 1 /\ Len(s) \in Nat
      /\ \A i \in 1..(Len(s) - k + 1) : c[i] = s[k + i - 1]
  BY Suffix, LenProperties
<1>2. c = <<>> => k = Len(s) + 1
  <2>1. c = <<>> => Len(c) = 0
    BY EmptySeq
  <2> QED BY <1>1, <2>1
<1>3. ASSUME c # <<>>
      PROVE  /\ k \in 1..Len(s) /\ Head(c) = s[k] /\ Tail(c) \in Seq(S)
             /\ DOMAIN Tail(c) = 1..(Len(s) - k)
             /\ \A i \in 1..(Len(s) - k) : Tail(c)[i] = s[k + i]
  <2>1. /\ Len(c) \in Nat \ {0} /\ Head(c) = c[1] /\ Tail(c) \in Seq(S)
        /\ Len(Tail(c)) = Len(c) - 1 /\ \A i \in 1..Len(Tail(c)) : Tail(c)[i] = c[i + 1]
        /\ DOMAIN Tail(c) = 1..Len(Tail(c))
    BY <1>1, <1>3, EmptySeq, HeadTailProperties, LenProperties
  <2>2. k \in 1..Len(s) /\ Len(Tail(c)) = Len(s) - k
    BY <1>1, <2>1
  <2>3. Head(c) = s[k]
    <3>1. 1 \in 1..(Len(s) - k + 1) /\ k + 1 - 1 = k
      BY <1>1, <2>2
    <3> QED BY <1>1, <2>1, <3>1
  <2>4. ASSUME NEW i \in 1..(Len(s) - k) PROVE Tail(c)[i] = s[k + i]
    <3>1. i + 1 \in 1..(Len(s) - k + 1) /\ k + (i + 1) - 1 = k + i
      BY <1>1, <2>2
    <3> QED BY <1>1, <2>1, <2>2, <3>1
  <2> QED BY <2>1, <2>2, <2>3, <2>4
<1>4. k = Len(s) + 1 => c = <<>>
  BY <1>1, <1>3
<1> QED BY <1>1, <1>2, <1>3, <1>4

LEMMA GettersConsumed ==
  ASSUME getters \in Seq(Tasks \cup {Dead})
  PROVE  /\ ConsumedGetters = <<>> => ~AnyLive(getters)
         /\ ConsumedGetters # <<>> =>
              /\ Pending(Head(ConsumedGetters)) /\ Head(ConsumedGetters) \in ToSet(getters)
              /\ AnyLive(getters)
              /\ Tail(ConsumedGetters) \in Seq(Tasks \cup {Dead})
              /\ ToSet(Tail(ConsumedGetters)) \subseteq ToSet(getters)
<1> DEFINE s == getters
           c == ConsumedGetters
<1>1. PICK k \in 1..(Len(s) + 1) :
        /\ c = SubSeq(s, k, Len(s))
        /\ \A i \in 1..Len(s) : Pending(s[i]) => k <= i
        /\ k <= Len(s) => Pending(s[k])
  BY ConsumedList DEF ConsumedGetters
<1> HIDE DEF c
<1>2. Len(s) \in Nat /\ DOMAIN s = 1..Len(s)
  BY LenProperties
<1>3. ASSUME c = <<>> PROVE ~AnyLive(s)
  <2>1. k = Len(s) + 1
    <3>1. c \in Seq(Tasks \cup {Dead}) /\ (c = <<>> <=> k = Len(s) + 1)
      BY <1>1, HeadOfSuffix
    <3> QED BY <1>3, <3>1
  <2>2. \A i \in 1..Len(s) : ~Pending(s[i])
    BY <1>1, <1>2, <2>1
  <2> QED BY <1>2, <2>2 DEF AnyLive, ToSet
<1>4. ASSUME c # <<>>
      PROVE  /\ Pending(Head(c)) /\ Head(c) \in ToSet(s) /\ AnyLive(s)
             /\ Tail(c) \in Seq(Tasks \cup {Dead}) /\ ToSet(Tail(c)) \subseteq ToSet(s)
  <2>1. /\ k \in 1..Len(s) /\ Head(c) = s[k] /\ Tail(c) \in Seq(Tasks \cup {Dead})
        /\ DOMAIN Tail(c) = 1..(Len(s) - k)
        /\ \A i \in 1..(Len(s) - k) : Tail(c)[i] = s[k + i]
    BY <1>1, <1>4, HeadOfSuffix
  <2>2. Pending(Head(c)) /\ Head(c) \in ToSet(s)
    BY <1>1, <1>2, <2>1 DEF ToSet
  <2>3. \A i \in 1..(Len(s) - k) : k + i \in 1..Len(s)
    BY <1>2, <2>1
  <2>4. ToSet(Tail(c)) \subseteq ToSet(s)
    BY <1>2, <2>1, <2>3 DEF ToSet
  <2> QED BY <2>1, <2>2, <2>4 DEF AnyLive
<1> QED BY <1>3, <1>4 DEF c

\* The pairs of the putters' list are in the order of their items.
PuttersInOrder(ps) == \A i, j \in DOMAIN ps : i < j => ps[i][1] < ps[j][1]
Pairs == (1..puts) \X (Tasks \cup {Dead})

LEMMA PuttersConsumed ==
  ASSUME puts \in Nat, putters \in Seq(Pairs), PuttersInOrder(putters)
  PROVE  /\ ConsumedPutters = <<>> => \A p \in ToSet(putters) : ~Pending(p[2])
         /\ ConsumedPutters # <<>> =>
              /\ Pending(Head(ConsumedPutters)[2]) /\ Head(ConsumedPutters) \in ToSet(putters)
              /\ Tail(ConsumedPutters) \in Seq(Pairs) /\ PuttersInOrder(Tail(ConsumedPutters))
              /\ \A p \in ToSet(Tail(ConsumedPutters)) :
                   p \in ToSet(putters) /\ Head(ConsumedPutters)[1] < p[1]
              /\ \A p \in ToSet(putters) : Pending(p[2]) =>
                   p = Head(ConsumedPutters) \/ p \in ToSet(Tail(ConsumedPutters))
<1> DEFINE n == Len(putters)
           s == [i \in DOMAIN putters |-> putters[i][2]]
           c == ConsumedPutters
<1>1. n \in Nat /\ DOMAIN putters = 1..n /\ \A i \in 1..n : putters[i] \in Pairs
  BY LenProperties
<1>2. s \in Seq(Tasks \cup {Dead}) /\ Len(s) = n /\ \A i \in 1..n : s[i] = putters[i][2]
  <2>1. \A i \in 1..n : putters[i][2] \in Tasks \cup {Dead}
    BY <1>1 DEF Pairs
  <2> QED BY <1>1, <2>1
<1>3. PICK k \in 1..(n + 1) :
        /\ Consumed(s) = SubSeq(s, k, n)
        /\ \A i \in 1..n : Pending(s[i]) => k <= i
        /\ k <= n => Pending(s[k])
  BY <1>2, ConsumedList
<1>4. c = SubSeq(putters, n - Len(Consumed(s)) + 1, n)
  BY DEF ConsumedPutters
<1> HIDE DEF c, s
<1>5. c = SubSeq(putters, k, n)
  <2>1. Len(Consumed(s)) = n - k + 1
    BY <1>2, <1>3, Suffix
  <2>2. n - (n - k + 1) + 1 = k
    BY <1>1, <1>3
  <2> QED BY <1>4, <2>1, <2>2
<1>6. ASSUME c = <<>> PROVE \A p \in ToSet(putters) : ~Pending(p[2])
  <2>1. k = n + 1
    <3>1. k = n + 1 \/ k \in 1..n
      BY <1>1, <1>3
    <3>2. k \in 1..n => c # <<>>
      <4>1. Len(c) = n - k + 1
        BY <1>3, <1>5, Suffix
      <4>2. k \in 1..n => Len(c) # 0
        BY <1>1, <4>1
      <4> QED BY <4>2, EmptySeq
    <3> QED BY <1>6, <3>1, <3>2
  <2>2. \A i \in 1..n : ~Pending(putters[i][2])
    BY <1>1, <1>2, <1>3, <2>1
  <2> QED BY <1>1, <2>2 DEF ToSet
<1>7. ASSUME c # <<>>
      PROVE  /\ Pending(Head(c)[2]) /\ Head(c) \in ToSet(putters)
             /\ Tail(c) \in Seq(Pairs) /\ PuttersInOrder(Tail(c))
             /\ \A p \in ToSet(Tail(c)) : p \in ToSet(putters) /\ Head(c)[1] < p[1]
             /\ \A p \in ToSet(putters) : Pending(p[2]) => p = Head(c) \/ p \in ToSet(Tail(c))
  <2>1. /\ k \in 1..n /\ Head(c) = putters[k] /\ Tail(c) \in Seq(Pairs)
        /\ DOMAIN Tail(c) = 1..(n - k)
        /\ \A i \in 1..(n - k) : Tail(c)[i] = putters[k + i]
    BY <1>3, <1>5, <1>7, HeadOfSuffix
  <2>2. Pending(Head(c)[2]) /\ Head(c) \in ToSet(putters)
    <3>1. k <= n /\ Head(c)[2] = s[k]
      BY <1>1, <1>2, <2>1
    <3>2. Pending(s[k])
      BY <1>3, <3>1
    <3>3. Head(c) \in ToSet(putters)
      BY <1>1, <2>1 DEF ToSet
    <3> QED BY <3>1, <3>2, <3>3
  <2>3. \A i \in 1..(n - k) : k + i \in 1..n /\ k < k + i
    BY <1>1, <2>1
  <2>4. PuttersInOrder(Tail(c))
    <3>1. \A i, j \in 1..(n - k) : i < j => k + i < k + j
      BY <1>1, <2>1
    <3>2. ASSUME NEW i \in 1..(n - k), NEW j \in 1..(n - k), i < j
          PROVE  Tail(c)[i][1] < Tail(c)[j][1]
      <4>1. k + i \in 1..n /\ k + j \in 1..n /\ k + i < k + j
        BY <2>3, <3>1, <3>2
      <4>2. putters[k + i][1] < putters[k + j][1]
        BY <1>1, <4>1 DEF PuttersInOrder
      <4> QED BY <2>1, <4>2
    <3> QED BY <2>1, <3>2 DEF PuttersInOrder
  <2>5. ASSUME NEW p \in ToSet(Tail(c)) PROVE p \in ToSet(putters) /\ Head(c)[1] < p[1]
    <3>1. PICK i \in 1..(n - k) : p = putters[k + i]
      BY <2>1, <2>5 DEF ToSet
    <3> QED BY <1>1, <2>1, <2>3, <3>1 DEF ToSet, PuttersInOrder
  <2>6. ASSUME NEW p \in ToSet(putters), Pending(p[2]) PROVE p = Head(c) \/ p \in ToSet(Tail(c))
    <3>1. PICK i \in 1..n : p = putters[i]
      BY <1>1, <2>6 DEF ToSet
    <3>2. k <= i
      BY <1>2, <1>3, <2>6, <3>1
    <3>3. CASE i = k
      BY <2>1, <3>1, <3>3
    <3>4. CASE i # k
      <4>1. i - k \in 1..(n - k) /\ k + (i - k) = i
        BY <1>1, <2>1, <3>1, <3>2, <3>4
      <4> QED BY <2>1, <3>1, <4>1 DEF ToSet
    <3> QED BY <3>3, <3>4
  <2> QED BY <2>1, <2>2, <2>4, <2>5, <2>6
<1> QED BY <1>6, <1>7 DEF c

-----------------------------------------------------------------------------
(* The futures that the loop is going to settle.                           *)

SettledBy(r) == {f \in Tasks : Settle(f) \in ToSet(r)}

LEMMA SettlesOfParts ==
  ASSUME NEW r \in Seq(Callbacks), NEW a \in Seq(Callbacks)
  PROVE  SettledBy(r \o a) = SettledBy(r) \cup SettledBy(a)
<1> DEFINE c == r \o a
<1>1. /\ Len(r) \in Nat /\ DOMAIN r = 1..Len(r) /\ Len(a) \in Nat /\ DOMAIN a = 1..Len(a)
      /\ DOMAIN c = 1..(Len(r) + Len(a))
      /\ \A i \in 1..(Len(r) + Len(a)) : c[i] = IF i <= Len(r) THEN r[i] ELSE a[i - Len(r)]
  BY ConcatProperties, LenProperties
<1> HIDE DEF c
<1>2. \A i \in DOMAIN r : i \in DOMAIN c /\ c[i] = r[i]
  BY <1>1
<1>3. \A i \in DOMAIN c : i \in DOMAIN r \/ (i - Len(r) \in DOMAIN a /\ c[i] = a[i - Len(r)])
  BY <1>1
<1>4. \A i \in DOMAIN a : i + Len(r) \in DOMAIN c /\ i + Len(r) \notin DOMAIN r /\ (i + Len(r)) - Len(r) = i
  BY <1>1
<1>5. \A i \in DOMAIN a : i + Len(r) \in DOMAIN c /\ c[i + Len(r)] = a[i]
  BY <1>3, <1>4
<1>6. ASSUME NEW x PROVE x \in ToSet(c) <=> x \in ToSet(r) \/ x \in ToSet(a)
  <2>1. x \in ToSet(r) => x \in ToSet(c)
    BY <1>2 DEF ToSet
  <2>2. x \in ToSet(a) => x \in ToSet(c)
    BY <1>5 DEF ToSet
  <2>3. x \in ToSet(c) => x \in ToSet(r) \/ x \in ToSet(a)
    BY <1>2, <1>3 DEF ToSet
  <2> QED BY <2>1, <2>2, <2>3
<1> QED BY <1>6 DEF SettledBy, c

LEMMA SettlesOfCalls ==
  /\ \A s \in Seq(Tasks) : SettledBy(Wakeups(s)) = {}
  /\ SettledBy(<<>>) = {}
  /\ \A t \in Tasks : SettledBy(<<Step(t)>>) = {} /\ SettledBy(<<Wakeup(t)>>) = {}
  /\ \A f \in Tasks : SettledBy(<<Settle(f)>>) = {f}
<1>1. ASSUME NEW s \in Seq(Tasks) PROVE SettledBy(Wakeups(s)) = {}
  BY CallbackNames DEF SettledBy, Wakeups, ToSet
<1>2. \A x : ToSet(<<x>>) = {x}
  BY DEF ToSet
<1>3. SettledBy(<<>>) = {}
  BY NoneInList DEF SettledBy
<1>4. ASSUME NEW t \in Tasks PROVE SettledBy(<<Step(t)>>) = {} /\ SettledBy(<<Wakeup(t)>>) = {}
  <2>1. ToSet(<<Step(t)>>) = {Step(t)} /\ ToSet(<<Wakeup(t)>>) = {Wakeup(t)}
    BY <1>2
  <2> QED BY <2>1, CallbackNames DEF SettledBy
<1>5. ASSUME NEW f \in Tasks PROVE SettledBy(<<Settle(f)>>) = {f}
  <2>1. ToSet(<<Settle(f)>>) = {Settle(f)}
    BY <1>2
  <2> QED BY <2>1, CallbackNames DEF SettledBy
<1> QED BY <1>1, <1>3, <1>4, <1>5

\* The callback that is called is off the queue.
LEMMA SettlesLeft ==
  ASSUME NEW r \in Seq(Callbacks), r # <<>>
  PROVE  /\ SettledBy(Tail(r)) \subseteq SettledBy(r)
         /\ \A f \in SettledBy(r) : f \in SettledBy(Tail(r)) \/ Head(r) = Settle(f)
<1>1. /\ Len(r) \in Nat \ {0} /\ DOMAIN r = 1..Len(r) /\ Head(r) = r[1]
      /\ DOMAIN Tail(r) = 1..(Len(r) - 1)
      /\ \A i \in 1..(Len(r) - 1) : Tail(r)[i] = r[i + 1]
  BY EmptySeq, LenProperties, HeadTailProperties
<1>2. \A i \in 1..(Len(r) - 1) : i + 1 \in 1..Len(r)
  BY <1>1
<1>3. ToSet(Tail(r)) \subseteq ToSet(r)
  BY <1>1, <1>2 DEF ToSet
<1>4. ASSUME NEW x \in ToSet(r), x # Head(r) PROVE x \in ToSet(Tail(r))
  <2>1. PICK i \in 1..Len(r) : r[i] = x
    BY <1>1, <1>4 DEF ToSet
  <2>2. i - 1 \in 1..(Len(r) - 1) /\ (i - 1) + 1 = i
    BY <1>1, <1>4, <2>1
  <2> QED BY <1>1, <2>1, <2>2 DEF ToSet
<1> QED BY <1>3, <1>4 DEF SettledBy

LEMMA SettlesForgotten ==
  ASSUME ready \in Seq(Callbacks), ready # <<>>, NEW t \in Tasks, NEW u \in Tasks, Head(ready) \in CallsOf(u)
  PROVE  SettledBy(ForgetCallback(t)) = SettledBy(ready) \ {t}
<1> DEFINE c == ForgetCallback(t)
           n == Len(ready)
<1>1. n \in Nat \ {0} /\ DOMAIN ready = 1..n /\ Head(ready) = ready[1]
  BY EmptySeq, LenProperties
<1>2. /\ DOMAIN c = 1..(n - 1)
      /\ \A i \in 1..(n - 1) : c[i] = IF ready[i + 1] = Settle(t) THEN Settle(Dead) ELSE ready[i + 1]
  BY DEF ForgetCallback
<1> HIDE DEF c
<1>3. \A i \in 1..(n - 1) : i + 1 \in 1..n
  BY <1>1
<1>4. Dead \notin Tasks /\ \A f : Head(ready) # Settle(f)
  BY FiniteTasks, CallsApart
<1>5. ASSUME NEW f \in SettledBy(c) PROVE f \in SettledBy(ready) /\ f # t
  <2>1. PICK i \in 1..(n - 1) : c[i] = Settle(f)
    BY <1>2, <1>5 DEF SettledBy, ToSet
  <2>2. f \in Tasks /\ f # Dead
    BY <1>4, <1>5 DEF SettledBy
  <2>3. Settle(f) # Settle(Dead)
    BY <2>2, CallbackNames
  <2>4. ready[i + 1] = Settle(f) /\ ready[i + 1] # Settle(t)
    BY <1>2, <2>1, <2>3
  <2> QED BY <1>1, <1>3, <2>2, <2>4 DEF SettledBy, ToSet
<1>6. ASSUME NEW f \in SettledBy(ready), f # t PROVE f \in SettledBy(c)
  <2>1. PICK i \in 1..n : ready[i] = Settle(f)
    BY <1>1, <1>6 DEF SettledBy, ToSet
  <2>2. i # 1
    BY <1>1, <1>4, <2>1
  <2>3. i - 1 \in 1..(n - 1) /\ (i - 1) + 1 = i
    BY <1>1, <2>1, <2>2
  <2>4. Settle(f) # Settle(t)
    BY <1>6, CallbackNames
  <2>5. c[i - 1] = Settle(f)
    BY <1>2, <2>1, <2>3, <2>4
  <2> QED BY <1>2, <1>6, <2>3, <2>5 DEF SettledBy, ToSet
<1> QED BY <1>5, <1>6 DEF c

LEMMA SetResultsSettles ==
  ASSUME TasksInv, NEW s \in Seq(Tasks), IsInjective(s), SetResults(s)
  PROVE  SettledBy(ready') = SettledBy(ready)
<1>1. ready \in Seq(Callbacks) /\ ready' = ready \o Wakeups(s)
  BY DEF TasksInv, TypeInv, SetResults
<1>2. Wakeups(s) \in Seq(Callbacks)
  BY WakeupCalls
<1>3. SettledBy(ready') = SettledBy(ready) \cup SettledBy(Wakeups(s))
  BY <1>1, <1>2, SettlesOfParts
<1> QED BY <1>3, SettlesOfCalls

LEMMA BlockSettles ==
  ASSUME TasksInv, NEW t \in Tasks, NEW where, Block(t, where, <<>>)
  PROVE  SettledBy(ready') = SettledBy(ready)
<1> DEFINE own == IF must_cancel[t] THEN <<Wakeup(t)>> ELSE <<>>
           s == <<>>
<1>0. s \in Seq(Tasks) /\ IsInjective(s)
  BY NoneInList
<1>1. ready \in Seq(Callbacks) /\ ready' = ready \o Wakeups(s) \o own
  BY DEF TasksInv, TypeInv, Block
<1>2. own \in Seq(Callbacks) /\ SettledBy(own) = {}
  <2>1. Wakeup(t) \in Callbacks
    BY CallsApart
  <2>2. <<Wakeup(t)>> \in Seq(Callbacks) /\ <<>> \in Seq(Callbacks)
    BY <2>1, NoCalls
  <2>3. CASE must_cancel[t]
    BY <2>2, <2>3, SettlesOfCalls
  <2>4. CASE ~must_cancel[t]
    BY <2>2, <2>4, SettlesOfCalls
  <2> QED BY <2>3, <2>4
<1> HIDE DEF own, s
<1>3. Wakeups(s) \in Seq(Callbacks) /\ SettledBy(Wakeups(s)) = {}
  BY <1>0, WakeupCalls, SettlesOfCalls
<1>4. ready \o Wakeups(s) \in Seq(Callbacks)
  BY <1>1, <1>3, AddCalls
<1>5. /\ SettledBy(ready') = SettledBy(ready \o Wakeups(s)) \cup SettledBy(own)
      /\ SettledBy(ready \o Wakeups(s)) = SettledBy(ready) \cup SettledBy(Wakeups(s))
  BY <1>1, <1>2, <1>3, <1>4, SettlesOfParts
<1> QED BY <1>2, <1>3, <1>5

LEMMA RunSettles ==
  ASSUME TasksInv, NEW t \in Tasks, NEW where, Runs(t, where), ready' = Tail(ready)
  PROVE  SettledBy(ready') = SettledBy(ready)
<1>1. ready \in Seq(Callbacks) /\ ready # <<>> /\ Head(ready) \in CallsOf(t)
  BY DEF TasksInv, TypeInv, Runs, CallsOf
<1>2. \A f : Head(ready) # Settle(f)
  BY <1>1, CallsApart
<1> QED BY <1>1, <1>2, SettlesLeft

LEMMA AppendSettles ==
  ASSUME NEW r \in Seq(Callbacks), NEW c \in Callbacks
  PROVE  SettledBy(Append(r, c)) = SettledBy(r) \cup SettledBy(<<c>>)
<1> DEFINE a == <<c>>
<1>1. Append(r, c) = r \o a /\ a \in Seq(Callbacks)
  OBVIOUS
<1> HIDE DEF a
<1>2. SettledBy(r \o a) = SettledBy(r) \cup SettledBy(a)
  BY <1>1, SettlesOfParts
<1> QED BY <1>1, <1>2 DEF a

LEMMA TaskStepSettles ==
  ASSUME TasksInv, TaskStep
  PROVE  SettledBy(ready') = SettledBy(ready)
<1>0. ready \in Seq(Callbacks)
  BY DEF TasksInv, TypeInv
<1>1. PICK t \in Tasks : Continue(t) \/ Yield(t) \/ Cancel(t) \/ (Return(t) /\ t \notin inside)
  BY DEF TaskStep
<1>2. Step(t) \in Callbacks /\ Wakeup(t) \in Callbacks
  BY CallsApart
<1>3. CASE Continue(t)
  <2>1. Runs(t, "body") /\ ready' = Tail(ready)
    BY <1>3 DEF Continue, Resume
  <2> QED BY <2>1, RunSettles
<1>4. CASE ready' = Append(ready, Step(t)) \/ ready' = Append(ready, Wakeup(t))
  <2>1. /\ SettledBy(Append(ready, Step(t))) = SettledBy(ready) \cup SettledBy(<<Step(t)>>)
        /\ SettledBy(Append(ready, Wakeup(t))) = SettledBy(ready) \cup SettledBy(<<Wakeup(t)>>)
    BY <1>0, <1>2, AppendSettles
  <2>2. SettledBy(<<Step(t)>>) = {} /\ SettledBy(<<Wakeup(t)>>) = {}
    BY SettlesOfCalls
  <2> QED BY <1>4, <2>1, <2>2
<1>5. CASE ready' = ready
  BY <1>5
<1>6. Yield(t) \/ Return(t) \/ Cancel(t) =>
        ready' = ready \/ ready' = Append(ready, Step(t)) \/ ready' = Append(ready, Wakeup(t))
  BY DEF Yield, Return, Cancel, CancelEffect
<1> QED BY <1>1, <1>3, <1>4, <1>5, <1>6

\* One future is settled by the running coroutine.
LEMMA OneWoken ==
  ASSUME TasksInv, NEW f, Pending(f), SetResults(<<f>>)
  PROVE  /\ TasksInv' /\ fut'[f] = "result" /\ f \in Tasks
         /\ \A u \in Tasks \ {f} : fut'[u] = fut[u]
         /\ at' = at /\ late' = late /\ SettledBy(ready') = SettledBy(ready)
<1> DEFINE s == <<f>>
<1>1. f \in Tasks /\ s \in Seq(Tasks) /\ IsInjective(s) /\ ToSet(s) = {f}
  BY DEF Pending, IsInjective, ToSet
<1>2. SetResults(s)
  OBVIOUS
<1> HIDE DEF s
<1>3. \A g \in ToSet(s) : Pending(g)
  BY <1>1
<1>4. /\ TasksInv' /\ at' = at /\ late' = late
      /\ \A u \in Tasks : fut'[u] = IF u \in ToSet(s) THEN "result" ELSE fut[u]
  BY <1>1, <1>2, <1>3, SetResultsKeeps
<1>5. SettledBy(ready') = SettledBy(ready)
  BY <1>1, <1>2, SetResultsSettles
<1> QED BY <1>1, <1>4, <1>5

\* A putter's future is left to the loop.
LEMMA LeftToTheLoop ==
  ASSUME TasksInv, NEW f \in Tasks, ready' = Append(ready, Settle(f)),
         UNCHANGED <<current, fut, must_cancel, at, cancels, late>>
  PROVE  TasksInv' /\ SettledBy(ready') = SettledBy(ready) \cup {f}
<1>1. ready \in Seq(Callbacks) /\ Settle(f) \in Callbacks /\ \A u : Settle(f) \notin CallsOf(u)
  BY CallsApart DEF TasksInv, TypeInv
<1>2. /\ ready' \in Seq(Callbacks)
      /\ \A u \in Tasks : (NotIn(ready, u) => NotIn(ready', u)) /\ (OnceIn(ready, u) => OnceIn(ready', u))
  BY <1>1, AppendCall
<1>3. TypeInv'
  BY <1>2 DEF TasksInv, TypeInv
<1>4. ASSUME NEW u \in Tasks PROVE TaskOK(u)'
  BY <1>2 DEF TasksInv, TaskOK
<1>5. SettledBy(ready') = SettledBy(ready) \cup {f}
  BY <1>1, AppendSettles, SettlesOfCalls
<1> QED BY <1>3, <1>4, <1>5 DEF TasksInv

\* The loop settles it.
LEMMA SettlePutterKeeps ==
  ASSUME TasksInv, NEW f \in Tasks \cup {Dead}, SettlePutter(f)
  PROVE  /\ TasksInv' /\ at' = at /\ late' = late
         /\ Pending(f) => f \in Tasks /\ fut'[f] = "result"
         /\ ~Pending(f) => fut' = fut
         /\ \A u \in Tasks \ {f} : fut'[u] = fut[u]
         /\ SettledBy(ready') \subseteq SettledBy(ready)
         /\ \A u \in SettledBy(ready) : u \in SettledBy(ready') \/ u = f
         /\ f \in Tasks => f \in SettledBy(ready)
<1> DEFINE s == Live(<<f>>)
<1>1. /\ current = None /\ ready # <<>> /\ Head(ready) = Settle(f)
      /\ fut' = Woken(s) /\ ready' = Tail(ready) \o Wakeups(s)
      /\ UNCHANGED <<current, must_cancel, at, cancels, late>>
  BY DEF SettlePutter
<1>2. /\ s \in Seq(Tasks) /\ IsInjective(s) /\ \A u : u \in ToSet(s) <=> u = f /\ Pending(f)
  <2> DEFINE one == <<f>>
  <2>1. one \in Seq(Tasks \cup {Dead}) /\ ToSet(one) = {f} /\ IsInjective(one)
    BY DEF ToSet, IsInjective
  <2> HIDE DEF one
  <2>2. /\ Live(one) \in Seq(Tasks) /\ IsInjective(Live(one))
        /\ ToSet(Live(one)) = {g \in ToSet(one) : Pending(g)}
    BY <2>1, LiveList
  <2>3. s = Live(one)
    BY DEF one
  <2> HIDE DEF s
  <2> QED BY <2>1, <2>2, <2>3
<1> HIDE DEF s
<1>3. /\ ready \in Seq(Callbacks) /\ Tail(ready) \in Seq(Callbacks) /\ Wakeups(s) \in Seq(Callbacks)
      /\ ready' \in Seq(Callbacks) /\ \A u : Head(ready) \notin CallsOf(u)
  <2>1. ready \in Seq(Callbacks) /\ Wakeups(s) \in Seq(Callbacks)
    BY <1>2, WakeupCalls DEF TasksInv, TypeInv
  <2>2. Tail(ready) \in Seq(Callbacks)
    BY <1>1, <2>1, HeadTailProperties
  <2>3. ready' \in Seq(Callbacks)
    BY <1>1, <2>1, <2>2, AddCalls
  <2> QED BY <1>1, <2>1, <2>2, <2>3, CallsApart
<1>4. /\ fut' \in [Tasks -> {"none", "pending", "result", "cancelled"}]
      /\ \A u \in Tasks : fut'[u] = IF u \in ToSet(s) THEN "result" ELSE fut[u]
      /\ ~Pending(f) => fut' = fut
  BY <1>1, <1>2 DEF Woken, TasksInv, TypeInv
<1>5. TypeInv'
  BY <1>1, <1>3, <1>4 DEF TasksInv, TypeInv
<1>6. ASSUME NEW u \in Tasks PROVE TaskOK(u)'
  <2>1. Left(Tail(ready))
    BY <1>1, TailIsLeft
  <2>2. /\ NotIn(ready, u) => NotIn(Tail(ready), u)
        /\ OnceIn(ready, u) => OnceIn(Tail(ready), u)
    BY <1>1, <1>3, <2>1, RestCalls
  <2>3. CASE u \in ToSet(s)
    <3>1. u = f /\ fut[u] = "pending" /\ OnceIn(Wakeups(s), u)
      BY <1>2, <2>3, WakeupCalls DEF Pending
    <3>2. NotIn(ready, u) /\ u # current /\ at[u] \notin {"body", "end"} /\ ~must_cancel[u]
      BY <3>1 DEF TasksInv, TaskOK
    <3>3. OnceIn(ready', u)
      BY <1>1, <1>3, <2>2, <3>1, <3>2, AddCalls
    <3> QED BY <1>1, <1>4, <2>3, <3>2, <3>3 DEF TaskOK
  <2>4. CASE u \notin ToSet(s)
    <3>1. NotIn(Wakeups(s), u)
      BY <1>2, <2>4, WakeupCalls
    <3>2. (NotIn(ready, u) => NotIn(ready', u)) /\ (OnceIn(ready, u) => OnceIn(ready', u))
      BY <1>1, <1>3, <2>2, <3>1, AddCalls
    <3> QED BY <1>1, <1>4, <2>4, <3>2 DEF TasksInv, TaskOK
  <2> QED BY <2>3, <2>4
<1>7. TasksInv'
  BY <1>5, <1>6 DEF TasksInv
<1>8. SettledBy(ready') = SettledBy(Tail(ready))
  <2>1. SettledBy(Wakeups(s)) = {}
    BY <1>2, SettlesOfCalls
  <2>2. SettledBy(Tail(ready) \o Wakeups(s)) = SettledBy(Tail(ready)) \cup SettledBy(Wakeups(s))
    BY <1>3, SettlesOfParts
  <2> QED BY <1>1, <2>1, <2>2
<1>9. /\ SettledBy(ready') \subseteq SettledBy(ready)
      /\ \A u \in SettledBy(ready) : u \in SettledBy(ready') \/ u = f
  BY <1>1, <1>3, <1>8, SettlesLeft, CallbackNames
<1>10. f \in Tasks => f \in SettledBy(ready)
  <2>1. Head(ready) \in ToSet(ready)
    <3>1. Len(ready) \in Nat \ {0} /\ DOMAIN ready = 1..Len(ready) /\ Head(ready) = ready[1]
      BY <1>1, <1>3, EmptySeq, LenProperties
    <3> QED BY <3>1 DEF ToSet
  <2> QED BY <1>1, <2>1 DEF SettledBy
<1>11. (Pending(f) => f \in Tasks /\ fut'[f] = "result") /\ \A u \in Tasks \ {f} : fut'[u] = fut[u]
  BY <1>2, <1>4 DEF Pending
<1> QED BY <1>1, <1>4, <1>7, <1>9, <1>10, <1>11

-----------------------------------------------------------------------------
(* Queue.                                                                  *)

QueueTypes ==
  /\ puts \in Nat /\ queue \in Seq(1..puts) /\ out \in Seq(1..puts)
  /\ getters \in Seq(Tasks \cup {Dead}) /\ putters \in Seq(Pairs)
  /\ parcel \in [Tasks -> 0..puts] /\ todo \in [Tasks -> Nat]
  /\ unfinished_tasks \in Nat /\ finished \in BOOLEAN
  /\ refused \in SUBSET (1..puts)

QueueJoins ==
  /\ joiners \in Seq(Tasks) /\ IsInjective(joiners)
  /\ \A t \in Tasks : t \in ToSet(joiners) <=> at[t] = "join"
  /\ \A t \in Tasks : at[t] = "join" /\ fut[t] = "pending" => unfinished_tasks > 0

\* What a call of a task says of the lists, and of the item of that call.
CallOK(t) ==
  /\ at[t] \in {"body", "end", "put", "get", "join"}
  /\ at[t] \in {"put", "get"} \/ parcel[t] = 0
  /\ t \in ToSet(getters) => at[t] = "get"
  /\ t \in SettledBy(ready) => at[t] = "put"
  /\ at[t] = "put" => parcel[t] \notin refused \cup {0}
  /\ at[t] = "get" => (parcel[t] # 0 <=> fut[t] = "result")
  /\ \A u \in Tasks \ {t} : at[u] = at[t] /\ parcel[u] = parcel[t] => parcel[t] = 0

QueueCalls ==
  /\ \A t \in Tasks : CallOK(t)
  /\ \A p \in ToSet(putters) : p[2] \in Tasks => at[p[2]] = "put" /\ parcel[p[2]] = p[1]

QueueOrder ==
  /\ InOrder(out, queue) /\ PuttersInOrder(putters)
  /\ \A p \in ToSet(putters) : Pending(p[2]) =>
       \A x \in ToSet(out) \cup ToSet(queue) : x < p[1]

QueueBeside ==
  /\ AnyLive(getters) => queue = <<>>
  /\ \A p \in ToSet(putters) : Pending(p[2]) => Full
  /\ \A t \in Tasks : at[t] = "put" /\ fut[t] = "pending" =>
       (\E p \in ToSet(putters) : p[2] = t) \/ t \in SettledBy(ready)

\* Where an item is.
QueueItems ==
  /\ got \in SUBSET ToSet(out)
  /\ \A t \in Tasks : at[t] = "get" /\ parcel[t] # 0 => parcel[t] \in ToSet(out) \ got
  /\ ~late => \A x \in ToSet(out) \ got : \E t \in Tasks : at[t] = "get" /\ parcel[t] = x
  /\ \A x \in 1..puts : x \in ToSet(out) \cup ToSet(queue) \cup refused
                        \/ \E t \in Tasks : at[t] = "put" /\ parcel[t] = x
  /\ (ToSet(out) \cup ToSet(queue)) \cap refused = {}

\* The items that tasks have got and not reported.
Units == UNION {{t} \X (1..todo[t]) : t \in Tasks}

QueueCount ==
  /\ unfinished_tasks = Cardinality(ToSet(out) \cup ToSet(queue)) - (Cardinality(got) - Cardinality(Units))
  /\ finished <=> unfinished_tasks = 0

QueueParts ==
  /\ QueueTypes /\ QueueCalls /\ QueueJoins /\ QueueOrder /\ QueueBeside
  /\ QueueItems /\ QueueCount

LEMMA QueueMembers ==
  ASSUME QueueTypes
  PROVE  /\ ToSet(out) \in SUBSET (1..puts) /\ ToSet(queue) \in SUBSET (1..puts)
         /\ \A p \in ToSet(putters) : p \in Pairs /\ p[1] \in 1..puts /\ p[2] \in Tasks \cup {Dead}
         /\ \A t \in ToSet(getters) : t \in Tasks \cup {Dead}
BY ListMembers DEF QueueTypes, Pairs

LEMMA QueueSoundParts == QueueSound => QueueParts
<1> SUFFICES ASSUME QueueSound PROVE QueueParts
  OBVIOUS
<1>1. QueueTypes
  BY DEF QueueSound, QueueTypes, Pairs
<1>2. QueueCalls
  BY DEF QueueSound, QueueCalls, CallOK, SettledBy
<1>7. QueueJoins
  <2>1. \A t \in Tasks : at[t] = "join" /\ fut[t] = "pending" => AnyLive(joiners)
    BY DEF QueueSound, AnyLive, Pending
  <2>2. NobodyBesideIt
    BY DEF QueueSound
  <2> QED BY <2>1, <2>2 DEF QueueSound, NobodyBesideIt, QueueJoins
<1>3. QueueOrder
  BY DEF QueueSound, ItemsKept, QueueOrder, InOrder, Increasing, PuttersInOrder, Entered
<1>4. QueueBeside
  <2>2. NobodyBesideIt
    BY DEF QueueSound
  <2>3. \A t \in Tasks : at[t] = "put" /\ fut[t] = "pending" =>
          (\E p \in ToSet(putters) : p[2] = t) \/ t \in SettledBy(ready)
    BY <2>2 DEF NobodyBesideIt, Putters, SettledBy
  <2>4. \A p \in ToSet(putters) : Pending(p[2]) => Full
    BY <2>2 DEF NobodyBesideIt, Putters
  <2> QED BY <2>2, <2>3, <2>4 DEF NobodyBesideIt, QueueBeside
<1>5. QueueItems
  <2> DEFINE inTransit == {parcel[t] : t \in {u \in Tasks : at[u] = "get"}} \ {0}
             offered == {parcel[t] : t \in {u \in Tasks : at[u] = "put"}}
  <2>1. /\ got \cup inTransit \subseteq ToSet(out) /\ got \cap inTransit = {}
        /\ ~late => ToSet(out) = got \cup inTransit
        /\ 1..puts = Entered \cup offered \cup refused
        /\ Entered \cap refused = {}
    BY DEF QueueSound, ItemsKept
  <2>2. \A x : x \in inTransit <=> x # 0 /\ \E t \in Tasks : at[t] = "get" /\ parcel[t] = x
    OBVIOUS
  <2>3. \A x : x \in offered <=> \E t \in Tasks : at[t] = "put" /\ parcel[t] = x
    OBVIOUS
  <2> HIDE DEF inTransit, offered
  <2>4. /\ got \in SUBSET ToSet(out)
        /\ \A t \in Tasks : at[t] = "get" /\ parcel[t] # 0 => parcel[t] \in ToSet(out) \ got
    BY <2>1, <2>2
  <2>5. ~late => \A x \in ToSet(out) \ got : \E t \in Tasks : at[t] = "get" /\ parcel[t] = x
    BY <2>1, <2>2
  <2>6. \A x \in 1..puts : x \in ToSet(out) \cup ToSet(queue) \cup refused
                           \/ \E t \in Tasks : at[t] = "put" /\ parcel[t] = x
    BY <2>1, <2>3 DEF Entered
  <2> QED BY <2>1, <2>4, <2>5, <2>6 DEF QueueItems, Entered
<1>6. QueueCount
  BY DEF QueueSound, ItemsKept, QueueCount, Entered, Units
<1> QED BY <1>1, <1>2, <1>3, <1>4, <1>5, <1>6, <1>7 DEF QueueParts

LEMMA QueuePartsSound == QueueParts => QueueSound
<1> SUFFICES ASSUME QueueParts PROVE QueueSound
  OBVIOUS
<1> USE DEF QueueParts
<1>1. /\ \A p \in ToSet(putters) : p[1] \in 1..puts /\ p[2] \in Tasks \cup {Dead}
      /\ ToSet(out) \in SUBSET (1..puts) /\ ToSet(queue) \in SUBSET (1..puts) /\ puts \in Nat
  BY QueueMembers DEF QueueTypes
<1>2. NobodyBesideIt
  <2>1. AnyLive(joiners) => unfinished_tasks > 0
    BY DEF QueueJoins, AnyLive, Pending
  <2>2. (\E f \in Putters : Pending(f)) => Full
    BY DEF QueueBeside, Putters
  <2>3. \A t \in Tasks : at[t] = "put" /\ fut[t] = "pending" =>
          t \in Putters \/ Settle(t) \in ToSet(ready)
    BY DEF QueueBeside, Putters, SettledBy
  <2> QED BY <2>1, <2>2, <2>3 DEF QueueBeside, NobodyBesideIt
<1>3. /\ \A i, j \in DOMAIN out : i < j => out[i] < out[j]
      /\ \A i, j \in DOMAIN queue : i < j => queue[i] < queue[j]
      /\ \A x \in ToSet(out), y \in ToSet(queue) : x < y
      /\ \A i, j \in DOMAIN putters : i < j => putters[i][1] < putters[j][1]
      /\ \A p \in ToSet(putters) : Pending(p[2]) => \A x \in Entered : x < p[1]
  BY DEF QueueOrder, InOrder, Increasing, PuttersInOrder, Entered
<1>4. ItemsKept
  <2> DEFINE inTransit == {parcel[t] : t \in {u \in Tasks : at[u] = "get"}} \ {0}
             offered == {parcel[t] : t \in {u \in Tasks : at[u] = "put"}}
             waiting == {p[1] : p \in {q \in ToSet(putters) : Pending(q[2])}}
             held == Cardinality(UNION {{t} \X (1..todo[t]) : t \in Tasks})
  <2>1. ToSet(out) \cap ToSet(queue) = {}
    <3>1. \A x \in 1..puts : ~(x < x)
      BY <1>1
    <3> QED BY <1>1, <1>3, <3>1
  <2>2. got \cup inTransit \subseteq ToSet(out) /\ got \cap inTransit = {}
    BY DEF QueueItems
  <2>3. ~late => ToSet(out) = got \cup inTransit
    <3> SUFFICES ASSUME ~late PROVE ToSet(out) \subseteq got \cup inTransit
      BY <2>2
    <3>1. ASSUME NEW x \in ToSet(out) \ got PROVE x \in inTransit
      <4>1. PICK t \in Tasks : at[t] = "get" /\ parcel[t] = x
        BY <3>1 DEF QueueItems
      <4>2. x # 0
        BY <1>1, <3>1
      <4> QED BY <4>1, <4>2
    <3> QED BY <3>1
  <2>4. 1..puts = Entered \cup offered \cup refused
    <3>1. ASSUME NEW x \in 1..puts PROVE x \in Entered \cup offered \cup refused
      BY <3>1 DEF QueueItems, Entered
    <3>2. offered \subseteq 1..puts
      <4>1. \A t \in Tasks : at[t] = "put" => parcel[t] \in 0..puts /\ parcel[t] # 0
        BY DEF QueueCalls, CallOK, QueueTypes
      <4>2. \A t \in Tasks : at[t] = "put" => parcel[t] \in 1..puts
        BY <1>1, <4>1
      <4> QED BY <4>2
    <3>3. Entered \subseteq 1..puts /\ refused \subseteq 1..puts
      BY <1>1 DEF Entered, QueueTypes
    <3> HIDE DEF offered
    <3> QED BY <3>1, <3>2, <3>3
  <2>5. Entered \cap (refused \cup waiting) = {}
    <3>1. ASSUME NEW x \in Entered, x \in waiting PROVE FALSE
      <4>1. PICK p \in ToSet(putters) : Pending(p[2]) /\ x = p[1]
        BY <3>1
      <4>2. x < x /\ x \in Int
        BY <1>1, <1>3, <3>1, <4>1 DEF Entered
      <4> QED BY <4>2
    <3> HIDE DEF waiting
    <3> QED BY <3>1 DEF QueueItems, Entered
  <2>6. /\ unfinished_tasks = Cardinality(Entered) - (Cardinality(got) - held)
        /\ finished <=> unfinished_tasks = 0
    BY DEF QueueCount, Units, Entered
  <2> QED BY <1>3, <2>1, <2>2, <2>3, <2>4, <2>5, <2>6 DEF ItemsKept
<1>5. \A t \in Tasks :
       /\ at[t] \in {"body", "end", "put", "get", "join"}
       /\ at[t] \in {"put", "get"} \/ parcel[t] = 0
       /\ t \in ToSet(getters) => at[t] = "get"
       /\ t \in ToSet(joiners) <=> at[t] = "join"
       /\ Settle(t) \in ToSet(ready) => at[t] = "put"
       /\ at[t] = "put" => parcel[t] \notin refused \cup {0}
       /\ at[t] = "get" => (parcel[t] # 0 <=> fut[t] = "result")
       /\ \A u \in Tasks \ {t} : at[u] = at[t] /\ parcel[u] = parcel[t] => parcel[t] = 0
  BY DEF QueueCalls, QueueJoins, CallOK, SettledBy
<1>6. \A p \in ToSet(putters) : p[2] \in Tasks => at[p[2]] = "put" /\ parcel[p[2]] = p[1]
  BY DEF QueueCalls
<1>7. /\ queue \in Seq(1..puts) /\ out \in Seq(1..puts) /\ puts \in Nat
      /\ getters \in Seq(Tasks \cup {Dead})
      /\ putters \in Seq((1..puts) \X (Tasks \cup {Dead}))
      /\ joiners \in Seq(Tasks) /\ IsInjective(joiners)
      /\ parcel \in [Tasks -> 0..puts] /\ todo \in [Tasks -> Nat]
      /\ unfinished_tasks \in Nat /\ finished \in BOOLEAN
      /\ refused \subseteq 1..puts
  BY DEF QueueTypes, QueueJoins, Pairs
<1> QED BY <1>2, <1>3, <1>4, <1>5, <1>6, <1>7 DEF QueueSound

LEMMA QueuePartsSoundNext == QueueParts' => QueueSound'
BY QueuePartsSound, PTL

UnitsOf(f) == UNION {{t} \X (1..f[t]) : t \in Tasks}

LEMMA UnitsFinite ==
  ASSUME NEW f \in [Tasks -> Nat]
  PROVE  /\ IsFiniteSet(UnitsOf(f)) /\ Cardinality(UnitsOf(f)) \in Nat
         /\ \A t \in Tasks : f[t] > 0 => Cardinality(UnitsOf(f)) > 0
<1> DEFINE T == {{t} \X (1..f[t]) : t \in Tasks}
           g == [t \in Tasks |-> {t} \X (1..f[t])]
<1>1. g \in Surjection(Tasks, T)
  BY DEF Surjection
<1>2. IsFiniteSet(T)
  BY <1>1, FiniteTasks, FS_Surjection
<1>3. \A t \in Tasks : IsFiniteSet({t} \X (1..f[t]))
  <2> SUFFICES ASSUME NEW t \in Tasks PROVE IsFiniteSet({t} \X (1..f[t]))
    OBVIOUS
  <2>1. IsFiniteSet({t}) /\ f[t] \in Int
    BY FS_Singleton
  <2>2. IsFiniteSet(1..f[t])
    BY <2>1, FS_Interval
  <2> QED BY <2>1, <2>2, FS_Product
<1>4. IsFiniteSet(UnitsOf(f))
  <2>1. \A U \in T : IsFiniteSet(U)
    BY <1>3
  <2>2. UnitsOf(f) = UNION T
    BY DEF UnitsOf
  <2> HIDE DEF T
  <2> QED BY <1>2, <2>1, <2>2, FS_UNION
<1>5. Cardinality(UnitsOf(f)) \in Nat
  BY <1>4, FS_CardinalityType
<1>6. ASSUME NEW t \in Tasks, f[t] > 0 PROVE Cardinality(UnitsOf(f)) > 0
  <2>1. <<t, 1>> \in UnitsOf(f)
    BY <1>6 DEF UnitsOf
  <2>2. Cardinality(UnitsOf(f)) # 0
    BY <1>4, <2>1, FS_EmptySet
  <2> QED BY <1>5, <2>2
<1> QED BY <1>4, <1>5, <1>6

LEMMA OneMoreUnit ==
  ASSUME NEW f \in [Tasks -> Nat], NEW t \in Tasks, NEW g, g = [f EXCEPT ![t] = f[t] + 1]
  PROVE  g \in [Tasks -> Nat] /\ Cardinality(UnitsOf(g)) = Cardinality(UnitsOf(f)) + 1
<1>1. /\ g \in [Tasks -> Nat] /\ g[t] = f[t] + 1 /\ \A u \in Tasks \ {t} : g[u] = f[u]
  OBVIOUS
<1>2. \A n : n \in 1..(f[t] + 1) <=> n \in 1..f[t] \/ n = f[t] + 1
  OBVIOUS
<1>3. UnitsOf(g) = UnitsOf(f) \cup {<<t, f[t] + 1>>}
  <2>1. ASSUME NEW x \in UnitsOf(g) PROVE x \in UnitsOf(f) \cup {<<t, f[t] + 1>>}
    <3>1. PICK u \in Tasks : x \in {u} \X (1..g[u])
      BY <2>1 DEF UnitsOf
    <3>2. CASE u = t
      <4>1. PICK n \in 1..(f[t] + 1) : x = <<t, n>>
        BY <1>1, <3>1, <3>2
      <4>2. CASE n = f[t] + 1
        BY <4>1, <4>2
      <4>3. CASE n \in 1..f[t]
        BY <4>1, <4>3 DEF UnitsOf
      <4> QED BY <1>2, <4>1, <4>2, <4>3
    <3>3. CASE u # t
      BY <1>1, <3>1, <3>3 DEF UnitsOf
    <3> QED BY <3>2, <3>3
  <2>2. ASSUME NEW x \in UnitsOf(f) PROVE x \in UnitsOf(g)
    <3>1. PICK u \in Tasks : x \in {u} \X (1..f[u])
      BY <2>2 DEF UnitsOf
    <3>2. PICK n \in 1..f[u] : x = <<u, n>>
      BY <3>1
    <3>3. n \in 1..g[u]
      BY <1>1, <1>2, <3>2
    <3> QED BY <3>2, <3>3 DEF UnitsOf
  <2>3. <<t, f[t] + 1>> \in UnitsOf(g)
    <3>1. f[t] + 1 \in 1..g[t]
      BY <1>1
    <3> QED BY <3>1 DEF UnitsOf
  <2> QED BY <2>1, <2>2, <2>3
<1>4. <<t, f[t] + 1>> \notin UnitsOf(f)
  <2>1. ASSUME <<t, f[t] + 1>> \in UnitsOf(f) PROVE FALSE
    <3>1. PICK u \in Tasks : <<t, f[t] + 1>> \in {u} \X (1..f[u])
      BY <2>1 DEF UnitsOf
    <3>2. u = t /\ f[t] + 1 \in 1..f[t]
      BY <3>1
    <3> QED BY <3>2
  <2> QED BY <2>1
<1>5. IsFiniteSet(UnitsOf(f))
  BY UnitsFinite
<1>6. Cardinality(UnitsOf(g)) = Cardinality(UnitsOf(f)) + 1
  BY <1>3, <1>4, <1>5, FS_AddElement
<1> QED BY <1>1, <1>6

LEMMA OneLessUnit ==
  ASSUME NEW f \in [Tasks -> Nat], NEW t \in Tasks, f[t] > 0, NEW g, g = [f EXCEPT ![t] = f[t] - 1]
  PROVE  g \in [Tasks -> Nat] /\ Cardinality(UnitsOf(g)) = Cardinality(UnitsOf(f)) - 1
<1>1. g \in [Tasks -> Nat] /\ g[t] = f[t] - 1 /\ \A u \in Tasks \ {t} : g[u] = f[u]
  OBVIOUS
<1>2. f = [g EXCEPT ![t] = g[t] + 1]
  <2>1. g[t] + 1 = f[t]
    BY <1>1
  <2> QED BY <1>1, <2>1
<1>3. Cardinality(UnitsOf(f)) = Cardinality(UnitsOf(g)) + 1
  BY <1>1, <1>2, OneMoreUnit
<1>4. Cardinality(UnitsOf(g)) \in Nat
  BY <1>1, UnitsFinite
<1> QED BY <1>1, <1>3, <1>4

\* What is counted is finite, and who has something to report has not reported all.
LEMMA QueueCounted ==
  ASSUME QueueTypes, QueueItems, QueueCount, NEW E, E = ToSet(out) \cup ToSet(queue)
  PROVE  /\ IsFiniteSet(E) /\ Cardinality(E) \in Nat
         /\ IsFiniteSet(got) /\ Cardinality(got) \in Nat
         /\ Cardinality(UnitsOf(todo)) \in Nat
         /\ unfinished_tasks = Cardinality(E) - (Cardinality(got) - Cardinality(UnitsOf(todo)))
         /\ \A t \in Tasks : todo[t] > 0 => unfinished_tasks > 0
<1>1. E \in SUBSET (1..puts) /\ got \in SUBSET E /\ IsFiniteSet(1..puts)
  <2>1. puts \in Nat /\ got \in SUBSET ToSet(out)
    BY DEF QueueTypes, QueueItems
  <2>2. IsFiniteSet(1..puts)
    BY <2>1, FS_Interval
  <2> QED BY <2>1, <2>2, QueueMembers
<1>2. IsFiniteSet(E) /\ IsFiniteSet(got) /\ Cardinality(got) <= Cardinality(E)
  BY <1>1, FS_Subset
<1>3. Cardinality(E) \in Nat /\ Cardinality(got) \in Nat
  BY <1>2, FS_CardinalityType
<1>4. /\ Cardinality(UnitsOf(todo)) \in Nat
      /\ \A t \in Tasks : todo[t] > 0 => Cardinality(UnitsOf(todo)) > 0
  <2>1. todo \in [Tasks -> Nat]
    BY DEF QueueTypes
  <2> QED BY <2>1, UnitsFinite
<1>5. unfinished_tasks = Cardinality(E) - (Cardinality(got) - Cardinality(UnitsOf(todo)))
  BY DEF QueueCount, Units, UnitsOf
<1>6. ASSUME NEW t \in Tasks, todo[t] > 0 PROVE unfinished_tasks > 0
  <2>1. Cardinality(UnitsOf(todo)) > 0
    BY <1>4, <1>6
  <2> HIDE DEF UnitsOf
  <2> QED BY <1>2, <1>3, <1>4, <1>5, <2>1
<1> QED BY <1>2, <1>3, <1>4, <1>5, <1>6

\* A step that moves no item: at most futures of put() calls are settled, or those
\* of cancelled tasks.
LEMMA ItemsStay ==
  ASSUME QueueTypes, QueueCalls, QueueOrder, QueueBeside, QueueItems,
         UNCHANGED <<queue, getters, putters, parcel, puts, out, got, refused>>, late => late',
         \A u \in Tasks :
           \/ at'[u] = at[u]
           \/ at[u] \in {"body", "end", "join"} /\ at'[u] \in {"body", "end", "join"},
         \A u \in Tasks : at[u] \in {"put", "get"} =>
           \/ fut'[u] = fut[u]
           \/ fut[u] = "pending" /\ fut'[u] = "cancelled"
           \/ at[u] = "put" /\ fut[u] = "pending" /\ fut'[u] = "result",
         SettledBy(ready') \subseteq SettledBy(ready),
         \A u \in SettledBy(ready) : u \in SettledBy(ready') \/ fut'[u] # "pending"
  PROVE  (QueueCalls /\ QueueOrder /\ QueueBeside /\ QueueItems)'
<1>1. /\ \A p \in ToSet(putters) : p[2] \in Tasks => at[p[2]] = "put" /\ parcel[p[2]] = p[1]
      /\ \A t \in Tasks : CallOK(t)
  BY DEF QueueCalls
<1>2. \A p \in ToSet(putters) : Pending(p[2])' => Pending(p[2])
  BY <1>1 DEF Pending
<1>3. AnyLive(getters)' => AnyLive(getters)
  <2>1. \A t \in Tasks : t \in ToSet(getters) => at[t] = "get"
    BY <1>1 DEF CallOK
  <2> QED BY <2>1 DEF AnyLive, Pending
<1>4. ASSUME NEW t \in Tasks PROVE CallOK(t)'
  BY <1>1 DEF CallOK
<1>5. QueueCalls'
  BY <1>1, <1>4 DEF QueueCalls
<1>6. QueueOrder'
  BY <1>2 DEF QueueOrder
<1>7. QueueBeside'
  <2>1. \A p \in ToSet(putters') : Pending(p[2])' => Full'
    BY <1>2 DEF QueueBeside, Full
  <2>2. \A t \in Tasks : at'[t] = "put" /\ fut'[t] = "pending" =>
          (\E p \in ToSet(putters') : p[2] = t) \/ t \in SettledBy(ready')
    <3>1. \A t \in Tasks : at'[t] = "put" /\ fut'[t] = "pending" => at[t] = "put" /\ fut[t] = "pending"
      OBVIOUS
    <3> QED BY <3>1 DEF QueueBeside
  <2>3. AnyLive(getters)' => queue' = <<>>
    BY <1>3 DEF QueueBeside
  <2> QED BY <2>1, <2>2, <2>3 DEF QueueBeside
<1>8. QueueItems'
  <2>1. \A t \in Tasks, where \in {"put", "get"} : at'[t] = where <=> at[t] = where
    OBVIOUS
  <2> QED BY <2>1 DEF QueueItems
<1> QED BY <1>5, <1>6, <1>7, <1>8

LEMMA QueueKeptByTasks ==
  ASSUME TasksInv, QueueSound, TaskStep, UNCHANGED qvars
  PROVE  TasksInv' /\ QueueSound'
<1>1. /\ QueueTypes /\ QueueCalls /\ QueueJoins /\ QueueOrder /\ QueueBeside
      /\ QueueItems /\ QueueCount
  BY QueueSoundParts DEF QueueParts
<1>2. /\ TasksInv' /\ (late => late')
      /\ \A u \in Tasks :
           /\ at'[u] = at[u] \/ (at[u] = "body" /\ at'[u] = "end")
           /\ fut'[u] = fut[u] \/ (fut[u] = "pending" /\ fut'[u] = "cancelled")
  BY TaskStepKeeps
<1>3. SettledBy(ready') = SettledBy(ready)
  BY TaskStepSettles
<1>4. /\ UNCHANGED <<queue, getters, putters, parcel, puts, out, got, refused>>
      /\ UNCHANGED <<joiners, unfinished_tasks, finished, todo>>
  BY DEF qvars
<1>5. \A u \in Tasks : u \in SettledBy(ready) => u \in SettledBy(ready')
  BY <1>3
<1>6. (QueueCalls /\ QueueOrder /\ QueueBeside /\ QueueItems)'
  BY <1>1, <1>2, <1>3, <1>4, ItemsStay
<1>7. QueueTypes' /\ QueueJoins' /\ QueueCount'
  BY <1>1, <1>2, <1>4 DEF QueueTypes, QueueJoins, QueueCount, Pairs, Units
<1> QED BY <1>2, <1>6, <1>7, QueuePartsSoundNext DEF QueueParts

LEMMA QueueKeptBySettling ==
  ASSUME TasksInv, QueueSound, NEW f \in Tasks \cup {Dead}, SettlePutter(f)
  PROVE  TasksInv' /\ QueueSound'
<1>1. /\ QueueTypes /\ QueueCalls /\ QueueJoins /\ QueueOrder /\ QueueBeside
      /\ QueueItems /\ QueueCount
  BY QueueSoundParts DEF QueueParts
<1>2. /\ TasksInv' /\ at' = at /\ late' = late
      /\ Pending(f) => f \in Tasks /\ fut'[f] = "result"
      /\ ~Pending(f) => fut' = fut
      /\ \A u \in Tasks \ {f} : fut'[u] = fut[u]
      /\ SettledBy(ready') \subseteq SettledBy(ready)
      /\ \A u \in SettledBy(ready) : u \in SettledBy(ready') \/ u = f
      /\ f \in Tasks => f \in SettledBy(ready)
  BY SettlePutterKeeps
<1>3. /\ UNCHANGED <<queue, getters, putters, parcel, puts, out, got, refused>>
      /\ UNCHANGED <<joiners, unfinished_tasks, finished, todo>>
  BY DEF SettlePutter, qvars
<1>4. f \in Tasks => at[f] = "put"
  BY <1>1, <1>2 DEF QueueCalls, CallOK
<1>5. /\ \A u \in Tasks : at[u] \in {"put", "get"} =>
           \/ fut'[u] = fut[u]
           \/ at[u] = "put" /\ fut[u] = "pending" /\ fut'[u] = "result"
      /\ \A u \in Tasks : at[u] = "join" => fut'[u] = fut[u]
      /\ \A u \in SettledBy(ready) : u \in SettledBy(ready') \/ fut'[u] # "pending"
  <2>1. CASE Pending(f)
    BY <1>2, <1>4, <2>1 DEF Pending
  <2>2. CASE ~Pending(f)
    <3>1. \A u \in SettledBy(ready) : u \in Tasks
      BY DEF SettledBy
    <3> QED BY <1>2, <2>2, <3>1 DEF Pending
  <2> QED BY <2>1, <2>2
<1>6. (QueueCalls /\ QueueOrder /\ QueueBeside /\ QueueItems)'
  BY <1>1, <1>2, <1>3, <1>5, ItemsStay
<1>7. QueueTypes' /\ QueueJoins' /\ QueueCount'
  BY <1>1, <1>2, <1>3, <1>5 DEF QueueTypes, QueueJoins, QueueCount, Pairs, Units
<1> QED BY <1>2, <1>6, <1>7, QueuePartsSoundNext DEF QueueParts

LEMMA TaskDoneKeeps ==
  ASSUME TasksInv, QueueSound, NEW t \in Tasks, TaskDone(t)
  PROVE  TasksInv' /\ QueueSound'
<1>1. /\ QueueTypes /\ QueueCalls /\ QueueJoins /\ QueueOrder /\ QueueBeside
      /\ QueueItems /\ QueueCount
  BY QueueSoundParts DEF QueueParts
<1>2. /\ todo[t] > 0 /\ todo' = [todo EXCEPT ![t] = @ - 1]
      /\ unfinished_tasks' = unfinished_tasks - 1
      /\ UNCHANGED <<queue, getters, putters, parcel, puts, out, got, refused>> /\ joiners' = joiners
      /\ IF unfinished_tasks' = 0 /\ ~finished
           THEN finished' = TRUE /\ SetResults(Live(joiners))
           ELSE UNCHANGED <<tvars, finished>>
  BY DEF TaskDone
<1>3. unfinished_tasks > 0 /\ ~finished
  <2>1. unfinished_tasks > 0
    BY <1>1, <1>2, QueueCounted
  <2> QED BY <1>1, <2>1 DEF QueueCount
<1>4. todo' \in [Tasks -> Nat] /\ unfinished_tasks' \in Nat
      /\ Cardinality(UnitsOf(todo')) = Cardinality(UnitsOf(todo)) - 1
  <2>1. todo \in [Tasks -> Nat] /\ todo' = [todo EXCEPT ![t] = todo[t] - 1]
    BY <1>1, <1>2 DEF QueueTypes
  <2>2. unfinished_tasks' \in Nat
    BY <1>1, <1>2, <1>3 DEF QueueTypes
  <2> QED BY <1>2, <2>1, <2>2, OneLessUnit
<1>5. /\ TasksInv' /\ at' = at /\ late' = late /\ SettledBy(ready') = SettledBy(ready)
      /\ \A u \in Tasks : at[u] # "join" => fut'[u] = fut[u]
      /\ \A u \in Tasks : at[u] = "join" /\ fut'[u] = "pending" => unfinished_tasks' > 0
      /\ finished' \in BOOLEAN /\ (finished' <=> unfinished_tasks' = 0)
  <2>1. CASE unfinished_tasks' = 0
    <3>1. finished' = TRUE /\ SetResults(Live(joiners))
      BY <1>2, <1>3, <2>1
    <3> DEFINE s == Live(joiners)
    <3>2. /\ s \in Seq(Tasks) /\ IsInjective(s) /\ ToSet(s) = {u \in ToSet(joiners) : Pending(u)}
      BY <1>1, LiveList DEF QueueJoins
    <3> HIDE DEF s
    <3>3. /\ TasksInv' /\ at' = at /\ late' = late
          /\ \A u \in Tasks : fut'[u] = IF u \in ToSet(s) THEN "result" ELSE fut[u]
      BY <3>1, <3>2, SetResultsKeeps DEF s
    <3>4. SettledBy(ready') = SettledBy(ready)
      BY <3>1, <3>2, SetResultsSettles DEF s
    <3>5. \A u \in Tasks : u \in ToSet(s) <=> at[u] = "join" /\ fut[u] = "pending"
      BY <1>1, <3>2 DEF QueueJoins, Pending
    <3> QED BY <2>1, <3>1, <3>3, <3>4, <3>5
  <2>2. CASE unfinished_tasks' # 0
    <3>1. UNCHANGED <<tvars, finished>>
      BY <1>2, <2>2
    <3>2. TasksInv' /\ at' = at /\ late' = late /\ fut' = fut /\ ready' = ready
      BY <3>1, TasksUntouched DEF tvars
    <3>3. unfinished_tasks' > 0
      BY <1>4, <2>2
    <3> QED BY <1>1, <1>3, <2>2, <3>1, <3>2, <3>3 DEF QueueTypes
  <2> QED BY <2>1, <2>2
<1>6. (QueueCalls /\ QueueOrder /\ QueueBeside /\ QueueItems)'
  BY <1>1, <1>2, <1>5, ItemsStay
<1>7. QueueTypes' /\ QueueJoins'
  BY <1>1, <1>2, <1>4, <1>5 DEF QueueTypes, QueueJoins, Pairs
<1>8. QueueCount'
  <2> DEFINE E == ToSet(out) \cup ToSet(queue)
  <2>1. /\ Cardinality(E) \in Nat /\ Cardinality(got) \in Nat /\ Cardinality(UnitsOf(todo)) \in Nat
        /\ unfinished_tasks = Cardinality(E) - (Cardinality(got) - Cardinality(UnitsOf(todo)))
    BY <1>1, QueueCounted
  <2>2. unfinished_tasks' = Cardinality(E) - (Cardinality(got) - Cardinality(UnitsOf(todo')))
    BY <1>2, <1>4, <2>1
  <2> QED BY <1>2, <1>5, <2>2 DEF QueueCount, Units, UnitsOf
<1> QED BY <1>5, <1>6, <1>7, <1>8, QueuePartsSoundNext DEF QueueParts

LEMMA JoinBlocksKeeps ==
  ASSUME TasksInv, QueueSound, NEW t \in Tasks, JoinBlocks(t)
  PROVE  TasksInv' /\ QueueSound'
<1>1. /\ QueueTypes /\ QueueCalls /\ QueueJoins /\ QueueOrder /\ QueueBeside
      /\ QueueItems /\ QueueCount
  BY QueueSoundParts DEF QueueParts
<1>2. /\ current = t /\ unfinished_tasks > 0 /\ joiners' = Append(joiners, t) /\ Block(t, "join", <<>>)
      /\ UNCHANGED <<queue, getters, putters, parcel, puts, out, got, refused>>
      /\ UNCHANGED <<unfinished_tasks, finished, todo>>
  BY DEF JoinBlocks
<1>3. /\ TasksInv' /\ at[t] = "body" /\ at'[t] = "join" /\ late' = late
      /\ \A u \in Tasks \ {t} : fut'[u] = fut[u] /\ at'[u] = at[u]
  BY <1>2, BlockAlone DEF Places
<1>4. SettledBy(ready') = SettledBy(ready)
  BY <1>2, BlockSettles
<1>5. (QueueCalls /\ QueueOrder /\ QueueBeside /\ QueueItems)'
  <2>1. \A u \in SettledBy(ready) : u \in SettledBy(ready')
    BY <1>4
  <2> QED BY <1>1, <1>2, <1>3, <1>4, <2>1, ItemsStay
<1>6. QueueJoins'
  <2>1. t \notin ToSet(joiners)
    BY <1>1, <1>3 DEF QueueJoins
  <2>2. joiners' \in Seq(Tasks) /\ ToSet(joiners') = ToSet(joiners) \cup {t} /\ IsInjective(joiners')
    BY <1>1, <1>2, <2>1, AppendList DEF QueueJoins
  <2> QED BY <1>1, <1>2, <1>3, <2>2 DEF QueueJoins
<1>7. QueueTypes' /\ QueueCount'
  BY <1>1, <1>2 DEF QueueTypes, QueueCount, Pairs, Units
<1> QED BY <1>3, <1>5, <1>6, <1>7, QueuePartsSoundNext DEF QueueParts

LEMMA JoinEndsKeeps ==
  ASSUME TasksInv, QueueSound, NEW t \in Tasks, JoinEnds(t)
  PROVE  TasksInv' /\ QueueSound'
<1>1. /\ QueueTypes /\ QueueCalls /\ QueueJoins /\ QueueOrder /\ QueueBeside
      /\ QueueItems /\ QueueCount
  BY QueueSoundParts DEF QueueParts
<1>2. /\ Runs(t, "join") /\ Resume(t, Tail(ready)) /\ joiners' = RemoveFirst(joiners, t)
      /\ UNCHANGED <<queue, getters, putters, parcel, puts, out, got, refused>>
      /\ UNCHANGED <<unfinished_tasks, finished, todo>>
  BY DEF JoinEnds
<1>3. /\ TasksInv' /\ at[t] = "join" /\ at'[t] = "body" /\ late' = late
      /\ \A u \in Tasks \ {t} : fut'[u] = fut[u] /\ at'[u] = at[u]
  BY <1>2, ReturnsFrom DEF Places
<1>4. SettledBy(ready') = SettledBy(ready)
  BY <1>2, RunSettles DEF Resume
<1>5. (QueueCalls /\ QueueOrder /\ QueueBeside /\ QueueItems)'
  <2>1. \A u \in SettledBy(ready) : u \in SettledBy(ready')
    BY <1>4
  <2> QED BY <1>1, <1>2, <1>3, <1>4, <2>1, ItemsStay
<1>6. QueueJoins'
  <2>1. joiners' \in Seq(Tasks) /\ ToSet(joiners') = ToSet(joiners) \ {t} /\ IsInjective(joiners')
    BY <1>1, <1>2, RemoveList DEF QueueJoins
  <2> QED BY <1>1, <1>2, <1>3, <2>1 DEF QueueJoins
<1>7. QueueTypes' /\ QueueCount'
  BY <1>1, <1>2 DEF QueueTypes, QueueCount, Pairs, Units
<1> QED BY <1>3, <1>5, <1>6, <1>7, QueuePartsSoundNext DEF QueueParts

LEMMA AppendMembers ==
  ASSUME NEW S, NEW s \in Seq(S), NEW x \in S
  PROVE  Append(s, x) \in Seq(S) /\ ToSet(Append(s, x)) = ToSet(s) \cup {x}
<1> DEFINE a == Append(s, x)
<1>1. /\ a \in Seq(S) /\ Len(s) \in Nat /\ DOMAIN a = 1..(Len(s) + 1) /\ DOMAIN s = 1..Len(s)
      /\ \A i \in 1..Len(s) : a[i] = s[i]
      /\ a[Len(s) + 1] = x
  BY AppendProperties, LenProperties
<1> HIDE DEF a
<1>2. \A i \in 1..(Len(s) + 1) : i \in 1..Len(s) \/ i = Len(s) + 1
  BY <1>1
<1>3. Len(s) + 1 \in DOMAIN a /\ \A i \in 1..Len(s) : i \in DOMAIN a
  BY <1>1
<1> QED BY <1>1, <1>2, <1>3 DEF ToSet, a

LEMMA WiderSeq ==
  ASSUME NEW S, NEW T, S \subseteq T, NEW s \in Seq(S)
  PROVE  s \in Seq(T)
<1>1. Len(s) \in Nat /\ s \in [1..Len(s) -> S]
  BY LenProperties
<1>2. s \in [1..Len(s) -> T]
  BY <1>1
<1> QED BY <1>1, <1>2

\* Who joins is not disturbed by what the others put and get.
LEMMA JoinsStay ==
  ASSUME QueueJoins, joiners' = joiners, unfinished_tasks > 0 => unfinished_tasks' > 0,
         \A u \in Tasks : at'[u] = "join" <=> at[u] = "join",
         \A u \in Tasks : at[u] = "join" => fut'[u] = fut[u]
  PROVE  QueueJoins'
BY DEF QueueJoins

\* The list of putters has been cleared of those that are done: none is left.
LEMMA NoPutterLeft ==
  ASSUME QueueTypes, QueueOrder, QueueBeside, ConsumedPutters = <<>>
  PROVE  /\ <<>> \in Seq(Pairs') /\ ToSet(<<>>) = {} /\ PuttersInOrder(<<>>)
         /\ \A u \in Tasks : at[u] = "put" /\ fut[u] = "pending" => u \in SettledBy(ready)
<1>1. \A p \in ToSet(putters) : ~Pending(p[2])
  BY PuttersConsumed DEF QueueTypes, QueueOrder
<1>2. \A u \in Tasks : at[u] = "put" /\ fut[u] = "pending" => u \in SettledBy(ready)
  BY <1>1 DEF QueueBeside, Pending
<1>3. <<>> \in Seq(Pairs') /\ PuttersInOrder(<<>>)
  BY EmptySeq DEF PuttersInOrder
<1> QED BY <1>2, <1>3, NoneInList

LEMMA GetBlocksKeeps ==
  ASSUME TasksInv, QueueSound, NEW t \in Tasks, GetBlocks(t)
  PROVE  TasksInv' /\ QueueSound'
<1>1. /\ QueueTypes /\ QueueCalls /\ QueueJoins /\ QueueOrder /\ QueueBeside
      /\ QueueItems /\ QueueCount
  BY QueueSoundParts DEF QueueParts
<1>2. /\ current = t /\ ConsumedPutters = <<>> /\ putters' = <<>> /\ queue = <<>>
      /\ getters' = Append(getters, t) /\ Block(t, "get", <<>>)
      /\ UNCHANGED <<queue, unfinished_tasks, finished, joiners, parcel, todo, puts, out, got, refused>>
  BY DEF GetBlocks
<1>3. /\ TasksInv' /\ at[t] = "body" /\ at'[t] = "get" /\ late' = late
      /\ fut'[t] \in {"pending", "cancelled"}
      /\ \A u \in Tasks \ {t} : fut'[u] = fut[u] /\ at'[u] = at[u]
  BY <1>2, BlockAlone DEF Places
<1>4. SettledBy(ready') = SettledBy(ready)
  BY <1>2, BlockSettles
<1>5. /\ <<>> \in Seq(Pairs') /\ ToSet(<<>>) = {} /\ PuttersInOrder(<<>>)
      /\ \A u \in Tasks : at[u] = "put" /\ fut[u] = "pending" => u \in SettledBy(ready)
  BY <1>1, <1>2, NoPutterLeft
<1>6. getters' \in Seq(Tasks \cup {Dead}) /\ ToSet(getters') = ToSet(getters) \cup {t}
  <2> DEFINE S == Tasks \cup {Dead}
  <2>1. getters \in Seq(S) /\ t \in S
    BY <1>1 DEF QueueTypes
  <2> HIDE DEF S
  <2>2. Append(getters, t) \in Seq(S) /\ ToSet(Append(getters, t)) = ToSet(getters) \cup {t}
    BY <2>1, AppendMembers
  <2> QED BY <1>2, <2>2 DEF S
<1>7. CallOK(t)'
  <2>1. CallOK(t)
    BY <1>1 DEF QueueCalls
  <2>2. parcel[t] = 0
    BY <1>3, <2>1 DEF CallOK
  <2> QED BY <1>2, <1>3, <1>4, <2>1, <2>2 DEF CallOK
<1>8. ASSUME NEW u \in Tasks \ {t} PROVE CallOK(u)'
  <2>1. CallOK(t) /\ CallOK(u)
    BY <1>1 DEF QueueCalls
  <2>2. parcel[t] = 0
    BY <1>3, <2>1 DEF CallOK
  <2> QED BY <1>2, <1>3, <1>4, <1>6, <2>1, <2>2 DEF CallOK
<1>9. QueueCalls'
  <2>1. \A u \in Tasks : CallOK(u)'
    BY <1>7, <1>8
  <2> QED BY <1>2, <1>5, <2>1 DEF QueueCalls
<1>10. QueueOrder'
  BY <1>1, <1>2, <1>5 DEF QueueOrder
<1>11. QueueBeside'
  BY <1>1, <1>2, <1>3, <1>4, <1>5 DEF QueueBeside
<1>12. QueueItems'
  <2>1. parcel[t] = 0
    BY <1>1, <1>3 DEF QueueCalls, CallOK
  <2>2. \A u \in Tasks : u # t => at'[u] = at[u]
    BY <1>3
  <2> QED BY <1>1, <1>2, <1>3, <2>1, <2>2 DEF QueueItems
<1>13. QueueTypes' /\ QueueCount'
  BY <1>1, <1>2, <1>5, <1>6 DEF QueueTypes, QueueCount, Units
<1>14. QueueJoins'
  BY <1>1, <1>2, <1>3, JoinsStay
<1> QED BY <1>3, <1>9, <1>10, <1>11, <1>12, <1>13, <1>14, QueuePartsSoundNext DEF QueueParts

LEMMA GetNowKeeps ==
  ASSUME TasksInv, QueueSound, NEW t \in Tasks, GetNow(t)
  PROVE  TasksInv' /\ QueueSound'
<1>1. /\ QueueTypes /\ QueueCalls /\ QueueJoins /\ QueueOrder /\ QueueBeside
      /\ QueueItems /\ QueueCount
  BY QueueSoundParts DEF QueueParts
<1> DEFINE h == Head(queue)
<1>2. /\ ConsumedPutters = <<>> /\ putters' = <<>> /\ queue # <<>>
      /\ queue' = Tail(queue) /\ out' = Append(out, h)
      /\ got' = got \cup {h} /\ todo' = [todo EXCEPT ![t] = todo[t] + 1]
      /\ UNCHANGED <<tvars, getters, unfinished_tasks, finished, joiners, parcel, puts, refused>>
  BY DEF GetNow, Receive
<1>3. TasksInv' /\ at' = at /\ fut' = fut /\ late' = late /\ ready' = ready
  BY <1>2, TasksUntouched DEF tvars
<1>4. /\ <<>> \in Seq(Pairs') /\ ToSet(<<>>) = {} /\ PuttersInOrder(<<>>)
      /\ \A u \in Tasks : at[u] = "put" /\ fut[u] = "pending" => u \in SettledBy(ready)
  BY <1>1, <1>2, NoPutterLeft
<1>5. /\ out' \in Seq(1..puts) /\ queue' \in Seq(1..puts) /\ h \in ToSet(queue) /\ h \notin ToSet(out)
      /\ ToSet(out') = ToSet(out) \cup {h} /\ ToSet(queue') = ToSet(queue) \ {h}
      /\ InOrder(out', queue')
  BY <1>1, <1>2, LeaveInOrder DEF QueueTypes, QueueOrder
<1> HIDE DEF h
<1>6. ToSet(out') \cup ToSet(queue') = ToSet(out) \cup ToSet(queue)
  BY <1>5
<1>7. QueueCalls'
  <2>1. ASSUME NEW u \in Tasks PROVE CallOK(u)'
    BY <1>1, <1>2, <1>3 DEF QueueCalls, CallOK
  <2> QED BY <1>2, <1>4, <2>1 DEF QueueCalls
<1>8. QueueOrder'
  BY <1>2, <1>4, <1>5 DEF QueueOrder
<1>9. QueueBeside'
  <2>1. ~AnyLive(getters)'
    BY <1>1, <1>2, <1>3 DEF QueueBeside, AnyLive, Pending
  <2> QED BY <1>1, <1>2, <1>3, <1>4, <2>1 DEF QueueBeside
<1>10. QueueItems'
  <2>1. got' \in SUBSET ToSet(out')
    BY <1>1, <1>2, <1>5 DEF QueueItems
  <2>2. \A u \in Tasks : at'[u] = "get" /\ parcel'[u] # 0 => parcel'[u] \in ToSet(out') \ got'
    BY <1>1, <1>2, <1>3, <1>5 DEF QueueItems
  <2>3. ~late' => \A x \in ToSet(out') \ got' : \E u \in Tasks : at'[u] = "get" /\ parcel'[u] = x
    BY <1>1, <1>2, <1>3, <1>5 DEF QueueItems
  <2> QED BY <1>1, <1>2, <1>3, <1>6, <2>1, <2>2, <2>3 DEF QueueItems
<1>11. /\ todo' \in [Tasks -> Nat]
       /\ Cardinality(UnitsOf(todo')) = Cardinality(UnitsOf(todo)) + 1
  <2>1. todo \in [Tasks -> Nat]
    BY <1>1 DEF QueueTypes
  <2> QED BY <1>2, <2>1, OneMoreUnit
<1>12. QueueCount'
  <2> DEFINE E == ToSet(out) \cup ToSet(queue)
  <2>1. /\ Cardinality(E) \in Nat /\ Cardinality(got) \in Nat /\ Cardinality(UnitsOf(todo)) \in Nat
        /\ IsFiniteSet(got)
        /\ unfinished_tasks = Cardinality(E) - (Cardinality(got) - Cardinality(UnitsOf(todo)))
    BY <1>1, QueueCounted
  <2>2. Cardinality(got') = Cardinality(got) + 1
    <3>1. h \notin got
      BY <1>1, <1>5 DEF QueueItems
    <3> QED BY <1>2, <2>1, <3>1, FS_AddElement
  <2>3. unfinished_tasks' = Cardinality(E) - (Cardinality(got') - Cardinality(UnitsOf(todo')))
    BY <1>2, <1>11, <2>1, <2>2
  <2> QED BY <1>1, <1>2, <1>6, <2>3 DEF QueueCount, Units, UnitsOf
<1>13. QueueTypes'
  BY <1>1, <1>2, <1>4, <1>5, <1>11 DEF QueueTypes
<1>14. QueueJoins'
  BY <1>1, <1>2, <1>3, JoinsStay
<1> QED BY <1>3, <1>7, <1>8, <1>9, <1>10, <1>12, <1>13, <1>14, QueuePartsSoundNext DEF QueueParts

\* A task that stops waiting for its future is no longer in the list.
LEMMA ForgetList ==
  ASSUME NEW t \in Tasks, NEW s \in Seq(Tasks \cup {Dead})
  PROVE  /\ Forget(t, s) \in Seq(Tasks \cup {Dead})
         /\ \A u \in ToSet(Forget(t, s)) : u = Dead \/ (u \in ToSet(s) /\ u # t)
<1> DEFINE c == Forget(t, s)
<1>1. Len(s) \in Nat /\ DOMAIN s = 1..Len(s) /\ \A i \in 1..Len(s) : s[i] \in Tasks \cup {Dead}
  BY LenProperties
<1>2. DOMAIN c = 1..Len(s) /\ \A i \in 1..Len(s) : c[i] = IF s[i] = t THEN Dead ELSE s[i]
  BY <1>1 DEF Forget
<1>3. c \in Seq(Tasks \cup {Dead})
  BY <1>1 DEF Forget
<1> HIDE DEF c
<1>4. ASSUME NEW u \in ToSet(c) PROVE u = Dead \/ (u \in ToSet(s) /\ u # t)
  <2>1. PICK i \in 1..Len(s) : c[i] = u
    BY <1>2, <1>4 DEF ToSet
  <2> QED BY <1>1, <1>2, <2>1 DEF ToSet
<1> QED BY <1>3, <1>4 DEF c

LEMMA GetEndsKeeps ==
  ASSUME TasksInv, QueueSound, NEW t \in Tasks, GetEnds(t)
  PROVE  TasksInv' /\ QueueSound'
<1>1. /\ QueueTypes /\ QueueCalls /\ QueueJoins /\ QueueOrder /\ QueueBeside
      /\ QueueItems /\ QueueCount
  BY QueueSoundParts DEF QueueParts
<1> DEFINE x == parcel[t]
<1>2. /\ Runs(t, "get") /\ Resume(t, Tail(ready)) /\ getters' = Forget(t, getters)
      /\ Thrown(t) => got' = got /\ todo' = todo
      /\ ~Thrown(t) => got' = got \cup {x} /\ todo' = [todo EXCEPT ![t] = todo[t] + 1]
      /\ parcel' = [parcel EXCEPT ![t] = 0]
      /\ UNCHANGED <<queue, putters, unfinished_tasks, finished, joiners, puts, out, refused>>
  BY DEF GetEnds, Receive
<1>3. /\ TasksInv' /\ at[t] = "get"
      /\ ~Thrown(t) => fut[t] = "result"
      /\ ~late /\ Thrown(t) => fut[t] = "cancelled"
      /\ fut'[t] = "none" /\ at'[t] = "body" /\ late' = late
      /\ \A u \in Tasks \ {t} : fut'[u] = fut[u] /\ at'[u] = at[u]
  BY <1>2, ReturnsFrom DEF Places
<1>4. SettledBy(ready') = SettledBy(ready)
  BY <1>2, RunSettles DEF Resume
<1>5. /\ getters' \in Seq(Tasks \cup {Dead})
      /\ \A u \in ToSet(getters') : u = Dead \/ (u \in ToSet(getters) /\ u # t)
  BY <1>1, <1>2, ForgetList DEF QueueTypes
<1>6. /\ parcel' \in [Tasks -> 0..puts] /\ parcel'[t] = 0
      /\ \A u \in Tasks \ {t} : parcel'[u] = parcel[u]
  BY <1>1, <1>2 DEF QueueTypes
<1>7. CallOK(t) /\ \A u \in Tasks : CallOK(u)
  BY <1>1 DEF QueueCalls
<1>8. /\ ~Thrown(t) => x # 0
      /\ ~late /\ Thrown(t) => x = 0
      /\ \A u \in Tasks \ {t} : at[u] = "get" /\ parcel[u] = x => x = 0
      /\ x # 0 => x \in ToSet(out) \ got
  BY <1>1, <1>3, <1>7 DEF CallOK, QueueItems
<1> HIDE DEF x
<1>9. ASSUME NEW u \in Tasks PROVE CallOK(u)'
  <2>1. t \notin ToSet(getters')
    BY <1>5, FiniteTasks
  <2>2. t \notin SettledBy(ready)
    BY <1>3, <1>7 DEF CallOK
  <2>3. CASE u = t
    BY <1>3, <1>4, <1>6, <2>1, <2>2, <2>3 DEF CallOK
  <2>4. CASE u # t
    <3>1. u \in ToSet(getters') => u \in ToSet(getters)
      BY <1>5, FiniteTasks
    <3>2. CallOK(u)
      BY <1>7
    <3> QED BY <1>2, <1>3, <1>4, <1>6, <2>4, <3>1, <3>2 DEF CallOK
  <2> QED BY <2>3, <2>4
<1>10. QueueCalls'
  <2>1. \A p \in ToSet(putters) : p[2] \in Tasks => p[2] # t
    BY <1>1, <1>3 DEF QueueCalls
  <2> QED BY <1>1, <1>2, <1>3, <1>6, <1>9, <2>1 DEF QueueCalls
<1>11. \A p \in ToSet(putters) : Pending(p[2])' => Pending(p[2])
  BY <1>3 DEF Pending
<1>12. QueueOrder'
  BY <1>1, <1>2, <1>11 DEF QueueOrder
<1>13. QueueBeside'
  <2>1. AnyLive(getters)' => AnyLive(getters)
    BY <1>3, <1>5, FiniteTasks DEF AnyLive, Pending
  <2>2. \A p \in ToSet(putters') : Pending(p[2])' => Full'
    BY <1>1, <1>2, <1>11 DEF QueueBeside, Full
  <2>3. \A u \in Tasks : at'[u] = "put" /\ fut'[u] = "pending" =>
          (\E p \in ToSet(putters') : p[2] = u) \/ u \in SettledBy(ready')
    BY <1>1, <1>2, <1>3, <1>4 DEF QueueBeside
  <2> QED BY <1>1, <1>2, <2>1, <2>2, <2>3 DEF QueueBeside
<1>14. QueueItems'
  <2>1. got' \in SUBSET ToSet(out')
    BY <1>1, <1>2, <1>8 DEF QueueItems
  <2>2. \A u \in Tasks : at'[u] = "get" /\ parcel'[u] # 0 => parcel'[u] \in ToSet(out') \ got'
    BY <1>1, <1>2, <1>3, <1>6, <1>8 DEF QueueItems
  <2>3. ASSUME ~late', NEW y \in ToSet(out') \ got' PROVE \E u \in Tasks : at'[u] = "get" /\ parcel'[u] = y
    <3>1. y \in ToSet(out) \ got /\ ~late /\ y # 0
      <4>1. ToSet(out) \in SUBSET (1..puts) /\ puts \in Nat
        BY <1>1, QueueMembers DEF QueueTypes
      <4> QED BY <1>2, <1>3, <2>3, <4>1
    <3>2. PICK u \in Tasks : at[u] = "get" /\ parcel[u] = y
      BY <1>1, <3>1 DEF QueueItems
    <3>3. u # t
      BY <1>2, <1>8, <2>3, <3>1, <3>2 DEF x
    <3> QED BY <1>3, <1>6, <3>2, <3>3
  <2>4. \A y \in 1..puts' : y \in ToSet(out') \cup ToSet(queue') \cup refused'
                           \/ \E u \in Tasks : at'[u] = "put" /\ parcel'[u] = y
    BY <1>1, <1>2, <1>3, <1>6 DEF QueueItems
  <2> QED BY <1>1, <1>2, <2>1, <2>2, <2>3, <2>4 DEF QueueItems
<1>15. QueueCount' /\ todo' \in [Tasks -> Nat]
  <2> DEFINE E == ToSet(out) \cup ToSet(queue)
  <2>1. /\ Cardinality(E) \in Nat /\ Cardinality(got) \in Nat /\ Cardinality(UnitsOf(todo)) \in Nat
        /\ IsFiniteSet(got)
        /\ unfinished_tasks = Cardinality(E) - (Cardinality(got) - Cardinality(UnitsOf(todo)))
    BY <1>1, QueueCounted
  <2>2. CASE Thrown(t)
    BY <1>1, <1>2, <2>2 DEF QueueCount, Units, QueueTypes
  <2>3. CASE ~Thrown(t)
    <3>1. todo \in [Tasks -> Nat]
      BY <1>1 DEF QueueTypes
    <3>2. todo' \in [Tasks -> Nat] /\ Cardinality(UnitsOf(todo')) = Cardinality(UnitsOf(todo)) + 1
      BY <1>2, <2>3, <3>1, OneMoreUnit
    <3>3. Cardinality(got') = Cardinality(got) + 1
      BY <1>2, <1>8, <2>1, <2>3, FS_AddElement
    <3>4. unfinished_tasks' = Cardinality(E) - (Cardinality(got') - Cardinality(UnitsOf(todo')))
      BY <1>2, <2>1, <3>2, <3>3
    <3> QED BY <1>1, <1>2, <3>2, <3>4 DEF QueueCount, Units, UnitsOf
  <2> QED BY <2>2, <2>3
<1>16. QueueTypes'
  BY <1>1, <1>2, <1>5, <1>6, <1>15 DEF QueueTypes, Pairs
<1>17. QueueJoins'
  BY <1>1, <1>2, <1>3, JoinsStay
<1> QED BY <1>3, <1>10, <1>12, <1>13, <1>14, <1>15, <1>16, <1>17, QueuePartsSoundNext DEF QueueParts

\* The next put() makes an item behind all the others.
LEMMA MorePuts ==
  ASSUME QueueTypes, NEW n, n = puts + 1
  PROVE  /\ puts \in Nat /\ n \in Nat \ {0} /\ n \in 1..n /\ \A x \in 1..n : x \in 1..puts \/ x = n
         /\ queue \in Seq(1..n) /\ out \in Seq(1..n) /\ refused \in SUBSET (1..n)
         /\ putters \in Seq((1..n) \X (Tasks \cup {Dead})) /\ parcel \in [Tasks -> 0..n]
         /\ \A x \in ToSet(out) \cup ToSet(queue) : x < n /\ x # n
         /\ \A p \in ToSet(putters) : p[1] < n
         /\ n \notin refused /\ \A t \in Tasks : parcel[t] # n
<1>1. /\ puts \in Nat /\ n \in Nat \ {0} /\ n \in 1..n /\ 1..puts \subseteq 1..n /\ 0..puts \subseteq 0..n
      /\ \A x \in 1..puts : x < n /\ x # n
      /\ \A x \in 0..puts : x # n
      /\ \A x \in 1..n : x \in 1..puts \/ x = n
  BY DEF QueueTypes
<1>2. queue \in Seq(1..n) /\ out \in Seq(1..n) /\ refused \in SUBSET (1..n)
  BY <1>1, WiderSeq DEF QueueTypes
<1>3. putters \in Seq((1..n) \X (Tasks \cup {Dead}))
  <2> DEFINE A == (1..puts) \X (Tasks \cup {Dead})
             B == (1..n) \X (Tasks \cup {Dead})
  <2>1. A \subseteq B
    BY <1>1
  <2>2. putters \in Seq(A)
    BY DEF QueueTypes, Pairs
  <2> HIDE DEF A, B
  <2>3. putters \in Seq(B)
    BY <2>1, <2>2, WiderSeq
  <2> QED BY <2>3 DEF B
<1>4. parcel \in [Tasks -> 0..n] /\ \A t \in Tasks : parcel[t] # n
  BY <1>1 DEF QueueTypes
<1>5. /\ ToSet(out) \in SUBSET (1..puts) /\ ToSet(queue) \in SUBSET (1..puts)
      /\ \A p \in ToSet(putters) : p[1] \in 1..puts
  BY QueueMembers
<1>6. n \notin refused
  BY <1>1 DEF QueueTypes
<1> QED BY <1>1, <1>2, <1>3, <1>4, <1>5, <1>6

LEMMA NoGetterLeft ==
  ASSUME QueueTypes, ConsumedGetters = <<>>
  PROVE  /\ ~AnyLive(getters)
         /\ <<>> \in Seq(Tasks \cup {Dead}) /\ ToSet(<<>>) = {}
<1>1. ~AnyLive(getters)
  BY GettersConsumed DEF QueueTypes
<1>2. <<>> \in Seq(Tasks \cup {Dead})
  BY EmptySeq
<1> QED BY <1>1, <1>2, NoneInList

LEMMA PutNowKeeps ==
  ASSUME TasksInv, QueueSound, NEW t \in Tasks, PutNow(t)
  PROVE  TasksInv' /\ QueueSound'
<1>1. /\ QueueTypes /\ QueueCalls /\ QueueJoins /\ QueueOrder /\ QueueBeside
      /\ QueueItems /\ QueueCount
  BY QueueSoundParts DEF QueueParts
<1> DEFINE n == puts + 1
<1>2. /\ puts' = n /\ ConsumedGetters = <<>> /\ getters' = <<>> /\ ~Full
      /\ queue' = Append(queue, n) /\ unfinished_tasks' = unfinished_tasks + 1 /\ finished' = FALSE
      /\ UNCHANGED <<tvars, putters, joiners, parcel, todo, out, got, refused>>
  BY DEF PutNow, CountUp
<1>3. TasksInv' /\ at' = at /\ fut' = fut /\ late' = late /\ ready' = ready
  BY <1>2, TasksUntouched DEF tvars
<1>4. /\ puts \in Nat /\ n \in Nat \ {0} /\ n \in 1..n /\ \A x \in 1..n : x \in 1..puts \/ x = n
      /\ queue \in Seq(1..n) /\ out \in Seq(1..n) /\ refused \in SUBSET (1..n)
      /\ putters \in Seq((1..n) \X (Tasks \cup {Dead})) /\ parcel \in [Tasks -> 0..n]
      /\ \A x \in ToSet(out) \cup ToSet(queue) : x < n /\ x # n
      /\ \A p \in ToSet(putters) : p[1] < n
      /\ n \notin refused
  BY <1>1, MorePuts
<1> HIDE DEF n
<1>5. <<>> \in Seq(Tasks \cup {Dead}) /\ ToSet(<<>>) = {}
  BY <1>1, <1>2, NoGetterLeft
<1>6. /\ queue' \in Seq(1..n) /\ ToSet(queue') = ToSet(queue) \cup {n} /\ InOrder(out, queue')
  <2>1. InOrder(out, queue)
    BY <1>1 DEF QueueOrder
  <2> QED BY <1>2, <1>4, <2>1, EnterInOrder
<1>7. \A p \in ToSet(putters) : ~Pending(p[2])'
  BY <1>1, <1>2, <1>3 DEF QueueBeside, Pending
<1>8. QueueCalls'
  <2>1. ASSUME NEW u \in Tasks PROVE CallOK(u)'
    <3>1. CallOK(u)
      BY <1>1 DEF QueueCalls
    <3>2. u \notin ToSet(getters')
      BY <1>2, <1>5
    <3> QED BY <1>2, <1>3, <3>1, <3>2 DEF CallOK
  <2> QED BY <1>1, <1>2, <1>3, <2>1 DEF QueueCalls
<1>9. QueueOrder'
  BY <1>1, <1>2, <1>6, <1>7 DEF QueueOrder
<1>10. QueueBeside'
  <2>1. ~AnyLive(getters)'
    BY <1>2, <1>5 DEF AnyLive
  <2> QED BY <1>1, <1>2, <1>3, <1>7, <2>1 DEF QueueBeside
<1>11. ToSet(out') \cup ToSet(queue') = (ToSet(out) \cup ToSet(queue)) \cup {n}
  BY <1>2, <1>6
<1>12. QueueItems'
  <2>1. \A x \in 1..puts' : x \in ToSet(out') \cup ToSet(queue') \cup refused'
                            \/ \E u \in Tasks : at'[u] = "put" /\ parcel'[u] = x
    BY <1>1, <1>2, <1>3, <1>4, <1>11 DEF QueueItems
  <2>2. (ToSet(out') \cup ToSet(queue')) \cap refused' = {}
    BY <1>1, <1>2, <1>4, <1>11 DEF QueueItems
  <2> QED BY <1>1, <1>2, <1>3, <2>1, <2>2 DEF QueueItems
<1>13. QueueCount' /\ unfinished_tasks' \in Nat
  <2> DEFINE E == ToSet(out) \cup ToSet(queue)
  <2>1. /\ IsFiniteSet(E) /\ Cardinality(E) \in Nat
        /\ Cardinality(got) \in Nat /\ Cardinality(UnitsOf(todo)) \in Nat
        /\ unfinished_tasks = Cardinality(E) - (Cardinality(got) - Cardinality(UnitsOf(todo)))
    BY <1>1, QueueCounted
  <2>5. n \notin E
    BY <1>4
  <2> HIDE DEF E
  <2>2. Cardinality(E \cup {n}) = Cardinality(E) + 1
    BY <2>1, <2>5, FS_AddElement
  <2>3. unfinished_tasks' = Cardinality(E \cup {n}) - (Cardinality(got) - Cardinality(UnitsOf(todo)))
    BY <1>2, <2>1, <2>2
  <2>4. unfinished_tasks' \in Nat /\ unfinished_tasks' # 0
    BY <1>1, <1>2 DEF QueueTypes
  <2> QED BY <1>2, <1>11, <2>3, <2>4 DEF QueueCount, Units, UnitsOf, E
<1>14. QueueTypes'
  BY <1>1, <1>2, <1>4, <1>5, <1>6, <1>13 DEF QueueTypes, Pairs
<1>15. QueueJoins'
  <2>1. unfinished_tasks > 0 => unfinished_tasks' > 0
    BY <1>1, <1>2 DEF QueueTypes
  <2> QED BY <1>1, <1>2, <1>3, <2>1, JoinsStay
<1> QED BY <1>3, <1>8, <1>9, <1>10, <1>12, <1>13, <1>14, <1>15, QueuePartsSoundNext DEF QueueParts

LEMMA AppendPutter ==
  ASSUME NEW n \in Nat, NEW t \in Tasks, NEW ps \in Seq((1..n) \X (Tasks \cup {Dead})),
         PuttersInOrder(ps), \A p \in ToSet(ps) : p[1] < n, n \in 1..n
  PROVE  /\ Append(ps, <<n, t>>) \in Seq((1..n) \X (Tasks \cup {Dead}))
         /\ ToSet(Append(ps, <<n, t>>)) = ToSet(ps) \cup {<<n, t>>}
         /\ PuttersInOrder(Append(ps, <<n, t>>))
<1> DEFINE S == (1..n) \X (Tasks \cup {Dead})
           x == <<n, t>>
           a == Append(ps, x)
<1>1. x \in S /\ ps \in Seq(S) /\ x[1] = n
  OBVIOUS
<1> HIDE DEF S, x
<1>2. a \in Seq(S) /\ ToSet(a) = ToSet(ps) \cup {x}
  BY <1>1, AppendMembers
<1>3. /\ Len(ps) \in Nat /\ DOMAIN a = 1..(Len(ps) + 1) /\ DOMAIN ps = 1..Len(ps)
      /\ \A i \in 1..Len(ps) : a[i] = ps[i]
      /\ a[Len(ps) + 1] = x
  BY <1>1, AppendProperties, LenProperties
<1> HIDE DEF a
<1>4. PuttersInOrder(a)
  <2> SUFFICES ASSUME NEW i \in 1..(Len(ps) + 1), NEW j \in 1..(Len(ps) + 1), i < j
               PROVE  a[i][1] < a[j][1]
    BY <1>3 DEF PuttersInOrder
  <2>1. i \in 1..Len(ps) /\ a[i] = ps[i] /\ ps[i] \in ToSet(ps)
    <3>1. i \in 1..Len(ps)
      BY <1>3
    <3> QED BY <1>3, <3>1 DEF ToSet
  <2>2. CASE j = Len(ps) + 1
    BY <1>1, <1>3, <2>1, <2>2
  <2>3. CASE j # Len(ps) + 1
    <3>1. j \in 1..Len(ps)
      BY <1>3, <2>3
    <3> QED BY <1>3, <2>1, <3>1 DEF PuttersInOrder
  <2> QED BY <2>2, <2>3
<1> QED BY <1>2, <1>4 DEF S, x, a

LEMMA PutBlocksKeeps ==
  ASSUME TasksInv, QueueSound, NEW t \in Tasks, PutBlocks(t)
  PROVE  TasksInv' /\ QueueSound'
<1>1. /\ QueueTypes /\ QueueCalls /\ QueueJoins /\ QueueOrder /\ QueueBeside
      /\ QueueItems /\ QueueCount
  BY QueueSoundParts DEF QueueParts
<1> DEFINE n == puts + 1
<1>2. /\ puts' = n /\ ConsumedGetters = <<>> /\ getters' = <<>> /\ Full /\ current = t
      /\ putters' = Append(putters, <<n, t>>) /\ parcel' = [parcel EXCEPT ![t] = n]
      /\ Block(t, "put", <<>>)
      /\ UNCHANGED <<queue, unfinished_tasks, finished, joiners, todo, out, got, refused>>
  BY DEF PutBlocks
<1>3. /\ TasksInv' /\ at[t] = "body" /\ at'[t] = "put" /\ late' = late
      /\ \A u \in Tasks \ {t} : fut'[u] = fut[u] /\ at'[u] = at[u]
  BY <1>2, BlockAlone DEF Places
<1>4. SettledBy(ready') = SettledBy(ready)
  BY <1>2, BlockSettles
<1>5. /\ puts \in Nat /\ n \in Nat \ {0} /\ n \in 1..n /\ \A x \in 1..n : x \in 1..puts \/ x = n
      /\ queue \in Seq(1..n) /\ out \in Seq(1..n) /\ refused \in SUBSET (1..n)
      /\ putters \in Seq((1..n) \X (Tasks \cup {Dead})) /\ parcel \in [Tasks -> 0..n]
      /\ \A x \in ToSet(out) \cup ToSet(queue) : x < n
      /\ \A p \in ToSet(putters) : p[1] < n
      /\ n \notin refused /\ \A u \in Tasks : parcel[u] # n
  BY <1>1, MorePuts
<1> HIDE DEF n
<1>6. ~AnyLive(getters) /\ <<>> \in Seq(Tasks \cup {Dead}) /\ ToSet(<<>>) = {}
  BY <1>1, <1>2, NoGetterLeft
<1>7. /\ putters' \in Seq((1..n) \X (Tasks \cup {Dead}))
      /\ ToSet(putters') = ToSet(putters) \cup {<<n, t>>} /\ PuttersInOrder(putters')
  <2>1. PuttersInOrder(putters)
    BY <1>1 DEF QueueOrder
  <2> QED BY <1>2, <1>5, <2>1, AppendPutter
<1>8. /\ parcel' \in [Tasks -> 0..n] /\ parcel'[t] = n
      /\ \A u \in Tasks \ {t} : parcel'[u] = parcel[u]
  <2>1. n \in 0..n
    BY <1>5
  <2> QED BY <1>2, <1>5, <2>1
<1>9. \A u \in Tasks : CallOK(u) /\ u \notin ToSet(getters')
  BY <1>1, <1>2, <1>6 DEF QueueCalls
<1>10. ASSUME NEW u \in Tasks PROVE CallOK(u)'
  <2>1. CASE u = t
    <3>1. n # 0
      BY <1>5
    <3> QED BY <1>2, <1>3, <1>4, <1>5, <1>8, <1>9, <2>1, <3>1 DEF CallOK
  <2>2. CASE u # t
    BY <1>2, <1>3, <1>4, <1>5, <1>8, <1>9, <2>2 DEF CallOK
  <2> QED BY <2>1, <2>2
<1>11. \A p \in ToSet(putters) : p[2] # t
  BY <1>1, <1>3 DEF QueueCalls
<1>12. QueueCalls'
  <2>1. \A p \in ToSet(putters') : p[2] \in Tasks => at'[p[2]] = "put" /\ parcel'[p[2]] = p[1]
    BY <1>1, <1>3, <1>7, <1>8, <1>11 DEF QueueCalls
  <2> QED BY <1>10, <2>1 DEF QueueCalls
<1>13. \A p \in ToSet(putters) : Pending(p[2])' => Pending(p[2])
  BY <1>3, <1>11 DEF Pending
<1>14. QueueOrder'
  <2>1. ASSUME NEW p \in ToSet(putters'), Pending(p[2])', NEW x \in ToSet(out) \cup ToSet(queue)
        PROVE  x < p[1]
    <3>1. CASE p = <<n, t>>
      BY <1>5, <3>1
    <3>2. CASE p # <<n, t>>
      BY <1>1, <1>7, <1>13, <2>1, <3>2 DEF QueueOrder
    <3> QED BY <3>1, <3>2
  <2> QED BY <1>1, <1>2, <1>7, <2>1 DEF QueueOrder
<1>15. QueueBeside'
  <2>1. ~AnyLive(getters)'
    BY <1>2, <1>6 DEF AnyLive
  <2>2. Full'
    BY <1>2 DEF Full
  <2>3. ASSUME NEW u \in Tasks, at'[u] = "put", fut'[u] = "pending"
        PROVE  (\E p \in ToSet(putters') : p[2] = u) \/ u \in SettledBy(ready')
    <3>1. CASE u = t
      <4>1. <<n, t>> \in ToSet(putters') /\ <<n, t>>[2] = t
        BY <1>7
      <4> QED BY <3>1, <4>1
    <3>2. CASE u # t
      BY <1>1, <1>3, <1>4, <1>7, <2>3, <3>2 DEF QueueBeside
    <3> QED BY <3>1, <3>2
  <2> QED BY <2>1, <2>2, <2>3 DEF QueueBeside
<1>16. QueueItems'
  <2>1. ASSUME NEW x \in 1..n
        PROVE  x \in ToSet(out) \cup ToSet(queue) \cup refused
               \/ \E u \in Tasks : at'[u] = "put" /\ parcel'[u] = x
    <3>1. CASE x = n
      BY <1>3, <1>8, <3>1
    <3>2. CASE x # n
      <4>1. x \in 1..puts
        BY <1>5, <3>2
      <4>2. \A u \in Tasks : at[u] = "put" => at'[u] = "put" /\ parcel'[u] = parcel[u]
        BY <1>3, <1>8
      <4> QED BY <1>1, <4>1, <4>2 DEF QueueItems
    <3> QED BY <3>1, <3>2
  <2>2. \A u \in Tasks : at'[u] = "get" <=> at[u] = "get"
    BY <1>3
  <2>3. \A u \in Tasks : at[u] = "get" => parcel'[u] = parcel[u]
    BY <1>3, <1>8
  <2> QED BY <1>1, <1>2, <1>3, <2>1, <2>2, <2>3 DEF QueueItems
<1>17. QueueTypes' /\ QueueCount'
  BY <1>1, <1>2, <1>5, <1>6, <1>7, <1>8 DEF QueueTypes, QueueCount, Pairs, Units
<1>18. QueueJoins'
  BY <1>1, <1>2, <1>3, JoinsStay
<1> QED BY <1>3, <1>12, <1>14, <1>15, <1>16, <1>17, <1>18, QueuePartsSoundNext DEF QueueParts

LEMMA ForgetPutterList ==
  ASSUME NEW t \in Tasks, puts \in Nat, putters \in Seq(Pairs), PuttersInOrder(putters)
  PROVE  /\ ForgetPutter(t) \in Seq(Pairs) /\ PuttersInOrder(ForgetPutter(t))
         /\ \A p \in ToSet(ForgetPutter(t)) : p[2] = Dead \/ (p \in ToSet(putters) /\ p[2] # t)
         /\ \A p \in ToSet(putters) : p[2] # t => p \in ToSet(ForgetPutter(t))
<1> DEFINE c == ForgetPutter(t)
           n == Len(putters)
<1>1. n \in Nat /\ DOMAIN putters = 1..n /\ \A i \in 1..n : putters[i] \in Pairs
  BY LenProperties
<1>2. /\ DOMAIN c = 1..n
      /\ \A i \in 1..n : c[i] = IF putters[i][2] = t THEN <<putters[i][1], Dead>> ELSE putters[i]
  BY <1>1 DEF ForgetPutter
<1>3. c \in Seq(Pairs)
  <2>1. \A i \in 1..n : <<putters[i][1], Dead>> \in Pairs
    BY <1>1 DEF Pairs
  <2> QED BY <1>1, <2>1 DEF ForgetPutter
<1> HIDE DEF c
<1>4. PuttersInOrder(c)
  <2>1. \A i \in 1..n : c[i][1] = putters[i][1]
    BY <1>2
  <2> QED BY <1>1, <1>2, <2>1 DEF PuttersInOrder
<1>5. ASSUME NEW p \in ToSet(c) PROVE p[2] = Dead \/ (p \in ToSet(putters) /\ p[2] # t)
  <2>1. PICK i \in 1..n : c[i] = p
    BY <1>2, <1>5 DEF ToSet
  <2> QED BY <1>1, <1>2, <2>1 DEF ToSet
<1>6. ASSUME NEW p \in ToSet(putters), p[2] # t PROVE p \in ToSet(c)
  <2>1. PICK i \in 1..n : putters[i] = p
    BY <1>1, <1>6 DEF ToSet
  <2> QED BY <1>2, <1>6, <2>1 DEF ToSet
<1> QED BY <1>3, <1>4, <1>5, <1>6 DEF c

LEMMA PutEndsKeeps ==
  ASSUME TasksInv, QueueSound, NEW t \in Tasks, PutEnds(t)
  PROVE  TasksInv' /\ QueueSound'
<1>1. /\ QueueTypes /\ QueueCalls /\ QueueJoins /\ QueueOrder /\ QueueBeside
      /\ QueueItems /\ QueueCount
  BY QueueSoundParts DEF QueueParts
<1> DEFINE x == parcel[t]
<1>2. /\ Runs(t, "put") /\ Resume(t, ForgetCallback(t)) /\ putters' = ForgetPutter(t)
      /\ parcel' = [parcel EXCEPT ![t] = 0]
      /\ refused' = refused \cup ({x} \ (ToSet(out) \cup ToSet(queue)))
      /\ UNCHANGED <<queue, getters, unfinished_tasks, finished, joiners, todo, puts, out, got>>
  BY DEF PutEnds, Entered
<1>3. /\ ready # <<>> /\ Head(ready) \in CallsOf(t) /\ at[t] = "put"
      /\ ready \in Seq(Callbacks) /\ "put" \in Places \ {"end"}
  BY <1>2 DEF Runs, CallsOf, TasksInv, TypeInv, Places
<1>4. Left(ForgetCallback(t))
  BY <1>3, ForgetIsLeft
<1>5. /\ TasksInv' /\ fut'[t] = "none" /\ at'[t] = "body" /\ late' = late
      /\ \A u \in Tasks \ {t} : fut'[u] = fut[u] /\ at'[u] = at[u]
      /\ ready' = ForgetCallback(t)
  BY <1>2, <1>3, <1>4, ResumeKeeps
<1>6. SettledBy(ready') = SettledBy(ready) \ {t}
  BY <1>3, <1>5, SettlesForgotten
<1>7. /\ putters' \in Seq(Pairs) /\ PuttersInOrder(putters')
      /\ \A p \in ToSet(putters') : p[2] = Dead \/ (p \in ToSet(putters) /\ p[2] # t)
      /\ \A p \in ToSet(putters) : p[2] # t => p \in ToSet(putters')
  BY <1>1, <1>2, ForgetPutterList DEF QueueTypes, QueueOrder
<1>8. /\ parcel' \in [Tasks -> 0..puts] /\ parcel'[t] = 0 /\ puts \in Nat
      /\ \A u \in Tasks \ {t} : parcel'[u] = parcel[u]
      /\ x \in 0..puts
  BY <1>1, <1>2 DEF QueueTypes
<1>9. CallOK(t) /\ \A u \in Tasks : CallOK(u)
  BY <1>1 DEF QueueCalls
<1>10. /\ x \in 1..puts /\ t \notin ToSet(getters)
       /\ \A u \in Tasks \ {t} : at[u] = "put" => parcel[u] # x
  BY <1>3, <1>8, <1>9 DEF CallOK
<1> HIDE DEF x
<1>11. ASSUME NEW u \in Tasks PROVE CallOK(u)'
  <2>1. CASE u = t
    BY <1>2, <1>5, <1>6, <1>8, <1>10, <2>1 DEF CallOK
  <2>2. CASE u # t
    <3>1. CallOK(u)
      BY <1>9
    <3>2. at[u] = "put" => parcel[u] \notin refused' \cup {0}
      BY <1>2, <1>10, <2>2, <3>1 DEF CallOK
    <3> QED BY <1>2, <1>5, <1>6, <1>8, <2>2, <3>1, <3>2 DEF CallOK
  <2> QED BY <2>1, <2>2
<1>12. QueueCalls'
  <2>1. ASSUME NEW p \in ToSet(putters'), p[2] \in Tasks
        PROVE  at'[p[2]] = "put" /\ parcel'[p[2]] = p[1]
    <3>1. p \in ToSet(putters) /\ p[2] # t
      BY <1>7, <2>1, FiniteTasks
    <3> QED BY <1>1, <1>5, <1>8, <2>1, <3>1 DEF QueueCalls
  <2> QED BY <1>11, <2>1 DEF QueueCalls
<1>13. \A p \in ToSet(putters') : Pending(p[2])' => Pending(p[2]) /\ p \in ToSet(putters)
  BY <1>5, <1>7, FiniteTasks DEF Pending
<1>14. QueueOrder'
  BY <1>1, <1>2, <1>7, <1>13 DEF QueueOrder
<1>15. QueueBeside'
  <2>1. AnyLive(getters)' => AnyLive(getters)
    BY <1>2, <1>5, <1>10 DEF AnyLive, Pending
  <2>2. \A p \in ToSet(putters') : Pending(p[2])' => Full'
    BY <1>1, <1>2, <1>13 DEF QueueBeside, Full
  <2>3. ASSUME NEW u \in Tasks, at'[u] = "put", fut'[u] = "pending"
        PROVE  (\E p \in ToSet(putters') : p[2] = u) \/ u \in SettledBy(ready')
    BY <1>1, <1>5, <1>6, <1>7, <2>3 DEF QueueBeside
  <2> QED BY <1>1, <1>2, <2>1, <2>2, <2>3 DEF QueueBeside
<1>16. QueueItems'
  <2>1. ASSUME NEW y \in 1..puts
        PROVE  y \in ToSet(out) \cup ToSet(queue) \cup refused'
               \/ \E u \in Tasks : at'[u] = "put" /\ parcel'[u] = y
    <3>1. CASE y = x
      BY <1>2, <3>1
    <3>2. CASE y # x
      <4>1. \A u \in Tasks : at[u] = "put" /\ parcel[u] = y => u # t
        BY <3>2 DEF x
      <4> QED BY <1>1, <1>2, <1>5, <1>8, <4>1 DEF QueueItems
    <3> QED BY <3>1, <3>2
  <2>2. (ToSet(out) \cup ToSet(queue)) \cap refused' = {}
    BY <1>1, <1>2 DEF QueueItems
  <2>3. \A u \in Tasks : at'[u] = "get" <=> at[u] = "get"
    BY <1>3, <1>5
  <2>4. \A u \in Tasks : at[u] = "get" => parcel'[u] = parcel[u]
    BY <1>3, <1>8
  <2> QED BY <1>1, <1>2, <1>5, <2>1, <2>2, <2>3, <2>4 DEF QueueItems
<1>17. QueueTypes' /\ QueueCount'
  <2>1. refused' \in SUBSET (1..puts)
    BY <1>1, <1>2, <1>10 DEF QueueTypes
  <2> QED BY <1>1, <1>2, <1>7, <1>8, <2>1 DEF QueueTypes, QueueCount, Pairs, Units
<1>18. QueueJoins'
  BY <1>1, <1>2, <1>3, <1>5, JoinsStay
<1> QED BY <1>5, <1>12, <1>14, <1>15, <1>16, <1>17, <1>18, QueuePartsSoundNext DEF QueueParts

LEMMA PutHandsOverKeeps ==
  ASSUME TasksInv, QueueSound, NEW t \in Tasks, PutHandsOver(t)
  PROVE  TasksInv' /\ QueueSound'
<1>1. /\ QueueTypes /\ QueueCalls /\ QueueJoins /\ QueueOrder /\ QueueBeside
      /\ QueueItems /\ QueueCount
  BY QueueSoundParts DEF QueueParts
<1> DEFINE n == puts + 1
           g == Head(ConsumedGetters)
           all == Append(queue, n)
<1>2. /\ puts' = n /\ ConsumedGetters # <<>> /\ getters' = Tail(ConsumedGetters)
      /\ queue' = Tail(all) /\ out' = Append(out, Head(all))
      /\ parcel' = IF g = Dead THEN parcel ELSE [parcel EXCEPT ![g] = Head(all)]
      /\ SetResults(<<g>>)
      /\ unfinished_tasks' = unfinished_tasks + 1 /\ finished' = FALSE
      /\ UNCHANGED <<putters, joiners, todo, got, refused>>
  BY DEF PutHandsOver, CountUp
<1>3. /\ Pending(g) /\ g \in ToSet(getters) /\ AnyLive(getters)
      /\ getters' \in Seq(Tasks \cup {Dead}) /\ ToSet(getters') \subseteq ToSet(getters)
  BY <1>1, <1>2, GettersConsumed DEF QueueTypes
<1>4. /\ puts \in Nat /\ n \in Nat \ {0} /\ n \in 1..n /\ \A x \in 1..n : x \in 1..puts \/ x = n
      /\ queue \in Seq(1..n) /\ out \in Seq(1..n) /\ refused \in SUBSET (1..n)
      /\ putters \in Seq((1..n) \X (Tasks \cup {Dead})) /\ parcel \in [Tasks -> 0..n]
      /\ \A x \in ToSet(out) \cup ToSet(queue) : x < n /\ x # n
      /\ n \notin refused /\ \A u \in Tasks : parcel[u] # n
  BY <1>1, MorePuts
<1> HIDE DEF n, g
<1>5. queue = <<>> /\ ToSet(queue) = {} /\ Len(queue) = 0
  <2>1. queue = <<>>
    BY <1>1, <1>3 DEF QueueBeside
  <2> QED BY <2>1, NoneInList
<1>6. /\ queue' = <<>> /\ out' \in Seq(1..n) /\ queue' \in Seq(1..n) /\ Head(all) = n
      /\ ToSet(out') = ToSet(out) \cup {n} /\ InOrder(out', queue')
  <2>1. InOrder(out, queue)
    BY <1>1 DEF QueueOrder
  <2>6. /\ all \in Seq(1..n) /\ all # <<>> /\ ToSet(all) = ToSet(queue) \cup {n}
        /\ Len(all) = Len(queue) + 1 /\ InOrder(out, all)
    <3>1. n \in Nat /\ n \in 1..n /\ queue \in Seq(1..n) /\ out \in Seq(1..n)
          /\ \A y \in ToSet(out) \cup ToSet(queue) : y < n
      BY <1>4
    <3> QED BY <2>1, <3>1, EnterInOrder
  <2> HIDE DEF all
  <2>2. /\ all \in Seq(1..n) /\ all # <<>> /\ ToSet(all) = {n} /\ Len(all) = 1 /\ InOrder(out, all)
    BY <1>5, <2>6
  <2>3. /\ Append(out, Head(all)) \in Seq(1..n) /\ Tail(all) \in Seq(1..n)
        /\ Head(all) \in ToSet(all)
        /\ ToSet(Append(out, Head(all))) = ToSet(out) \cup {Head(all)}
        /\ Len(Tail(all)) = Len(all) - 1 /\ InOrder(Append(out, Head(all)), Tail(all))
    BY <1>4, <2>2, LeaveInOrder
  <2>4. Head(all) = n
    BY <2>2, <2>3
  <2>5. Tail(all) = <<>>
    <3>1. Len(Tail(all)) = 0 /\ Tail(all) \in Seq(1..n)
      BY <2>2, <2>3
    <3> QED BY <3>1, EmptySeq
  <2> QED BY <1>2, <2>3, <2>4, <2>5
<1> HIDE DEF all
<1>7. /\ TasksInv' /\ fut'[g] = "result" /\ g \in Tasks /\ fut[g] = "pending"
      /\ \A u \in Tasks \ {g} : fut'[u] = fut[u]
      /\ at' = at /\ late' = late /\ SettledBy(ready') = SettledBy(ready)
  BY <1>2, <1>3, OneWoken DEF Pending
<1>8. /\ parcel' \in [Tasks -> 0..n] /\ parcel'[g] = n
      /\ \A u \in Tasks \ {g} : parcel'[u] = parcel[u]
  <2>1. n \in 0..n /\ g # Dead
    BY <1>4, <1>7, FiniteTasks
  <2>2. parcel' = [parcel EXCEPT ![g] = n]
    BY <1>2, <1>6, <2>1
  <2> QED BY <1>4, <1>7, <2>1, <2>2
<1>9. /\ \A u \in Tasks : CallOK(u)
      /\ at[g] = "get" /\ parcel[g] = 0
  <2>1. CallOK(g) /\ \A u \in Tasks : CallOK(u)
    BY <1>1, <1>7 DEF QueueCalls
  <2> QED BY <1>3, <1>7, <2>1 DEF CallOK
<1>10. \A p \in ToSet(putters) : ~Pending(p[2])'
  <2>1. ~Full
    BY <1>5 DEF Full
  <2>2. \A p \in ToSet(putters) : ~Pending(p[2])
    BY <1>1, <2>1 DEF QueueBeside
  <2> QED BY <1>7, <2>2 DEF Pending
<1>11. ASSUME NEW u \in Tasks PROVE CallOK(u)'
  <2>1. CallOK(u) /\ CallOK(g)
    BY <1>7, <1>9
  <2>2. u \in ToSet(getters') => u \in ToSet(getters)
    BY <1>3
  <2>3. CASE u = g
    <3>1. n # 0
      BY <1>4
    <3> QED BY <1>2, <1>4, <1>7, <1>8, <1>9, <2>1, <2>3, <3>1 DEF CallOK
  <2>4. CASE u # g
    BY <1>2, <1>4, <1>7, <1>8, <1>9, <2>1, <2>2, <2>4 DEF CallOK
  <2> QED BY <2>3, <2>4
<1>12. QueueCalls'
  <2>1. \A p \in ToSet(putters) : p[2] \in Tasks => p[2] # g
    BY <1>1, <1>9 DEF QueueCalls
  <2> QED BY <1>1, <1>2, <1>7, <1>8, <1>11, <2>1 DEF QueueCalls
<1>13. QueueOrder'
  BY <1>1, <1>2, <1>6, <1>10 DEF QueueOrder
<1>14. QueueBeside'
  <2>1. ASSUME NEW u \in Tasks, at'[u] = "put", fut'[u] = "pending"
        PROVE  (\E p \in ToSet(putters') : p[2] = u) \/ u \in SettledBy(ready')
    BY <1>1, <1>2, <1>7, <2>1 DEF QueueBeside
  <2> QED BY <1>2, <1>6, <1>10, <2>1 DEF QueueBeside
<1>15. ToSet(out') \cup ToSet(queue') = (ToSet(out) \cup ToSet(queue)) \cup {n}
  BY <1>5, <1>6
<1>16. QueueItems'
  <2>1. got' \in SUBSET ToSet(out') /\ n \notin got
    BY <1>1, <1>2, <1>4, <1>6 DEF QueueItems
  <2>2. ASSUME NEW u \in Tasks, at'[u] = "get", parcel'[u] # 0
        PROVE  parcel'[u] \in ToSet(out') \ got'
    <3>1. CASE u = g
      BY <1>2, <1>6, <1>8, <2>1, <3>1
    <3>2. CASE u # g
      BY <1>1, <1>2, <1>6, <1>7, <1>8, <2>2, <3>2 DEF QueueItems
    <3> QED BY <3>1, <3>2
  <2>3. ASSUME ~late', NEW x \in ToSet(out') \ got'
        PROVE  \E u \in Tasks : at'[u] = "get" /\ parcel'[u] = x
    <3>1. CASE x = n
      BY <1>7, <1>8, <1>9, <3>1
    <3>2. CASE x # n
      <4>1. x \in ToSet(out) \ got /\ ~late
        BY <1>2, <1>6, <1>7, <2>3, <3>2
      <4>2. PICK u \in Tasks : at[u] = "get" /\ parcel[u] = x
        BY <1>1, <4>1 DEF QueueItems
      <4>3. x # 0
        BY <1>1, <4>1, QueueMembers
      <4> QED BY <1>7, <1>8, <1>9, <4>2, <4>3
    <3> QED BY <3>1, <3>2
  <2>4. \A x \in 1..puts' : x \in ToSet(out') \cup ToSet(queue') \cup refused'
                            \/ \E u \in Tasks : at'[u] = "put" /\ parcel'[u] = x
    <3>1. \A u \in Tasks : at[u] = "put" => parcel'[u] = parcel[u]
      BY <1>8, <1>9
    <3> QED BY <1>1, <1>2, <1>4, <1>7, <1>15, <3>1 DEF QueueItems
  <2>5. (ToSet(out') \cup ToSet(queue')) \cap refused' = {}
    BY <1>1, <1>2, <1>4, <1>15 DEF QueueItems
  <2> QED BY <2>1, <2>2, <2>3, <2>4, <2>5 DEF QueueItems
<1>17. QueueCount' /\ unfinished_tasks' \in Nat
  <2> DEFINE E == ToSet(out) \cup ToSet(queue)
  <2>1. /\ IsFiniteSet(E) /\ Cardinality(E) \in Nat
        /\ Cardinality(got) \in Nat /\ Cardinality(UnitsOf(todo)) \in Nat
        /\ unfinished_tasks = Cardinality(E) - (Cardinality(got) - Cardinality(UnitsOf(todo)))
    BY <1>1, QueueCounted
  <2>5. n \notin E
    BY <1>4
  <2> HIDE DEF E
  <2>2. Cardinality(E \cup {n}) = Cardinality(E) + 1
    BY <2>1, <2>5, FS_AddElement
  <2>3. unfinished_tasks' = Cardinality(E \cup {n}) - (Cardinality(got) - Cardinality(UnitsOf(todo)))
    <3>1. unfinished_tasks' = unfinished_tasks + 1
      BY <1>2
    <3> QED BY <2>1, <2>2, <3>1
  <2>4. unfinished_tasks' \in Nat /\ unfinished_tasks' # 0
    BY <1>1, <1>2 DEF QueueTypes
  <2> QED BY <1>2, <1>15, <2>3, <2>4 DEF QueueCount, Units, UnitsOf, E
<1>18. QueueTypes'
  BY <1>1, <1>2, <1>3, <1>4, <1>6, <1>8, <1>17 DEF QueueTypes, Pairs
<1>19. QueueJoins'
  <2>1. unfinished_tasks > 0 => unfinished_tasks' > 0
    BY <1>1, <1>2 DEF QueueTypes
  <2>2. \A u \in Tasks : at[u] = "join" => fut'[u] = fut[u]
    BY <1>7, <1>9
  <2> QED BY <1>1, <1>2, <1>7, <2>1, <2>2, JoinsStay
<1> QED BY <1>7, <1>12, <1>13, <1>14, <1>16, <1>17, <1>18, <1>19, QueuePartsSoundNext DEF QueueParts

LEMMA GetFromPutterKeeps ==
  ASSUME TasksInv, QueueSound, NEW t \in Tasks, NEW nowait \in BOOLEAN, GetFromPutter(t, nowait)
  PROVE  TasksInv' /\ QueueSound'
<1>1. /\ QueueTypes /\ QueueCalls /\ QueueJoins /\ QueueOrder /\ QueueBeside
      /\ QueueItems /\ QueueCount
  BY QueueSoundParts DEF QueueParts
<1> DEFINE h == Head(ConsumedPutters)
           item == h[1]
           f == h[2]
           all == Append(queue, item)
           y == Head(all)
<1>2. /\ ConsumedPutters # <<>> /\ putters' = Tail(ConsumedPutters)
      /\ queue' = Tail(all) /\ out' = Append(out, y)
      /\ got' = got \cup {y} /\ todo' = [todo EXCEPT ![t] = todo[t] + 1]
      /\ IF nowait THEN SetResults(<<f>>)
         ELSE ready' = Append(ready, Settle(f)) /\ UNCHANGED <<current, fut, must_cancel, at, cancels, late>>
      /\ unfinished_tasks' = unfinished_tasks + 1 /\ finished' = FALSE
      /\ UNCHANGED <<getters, joiners, parcel, puts, refused>>
  BY DEF GetFromPutter, CountUp, Receive
<1>3. /\ Pending(f) /\ h \in ToSet(putters)
      /\ putters' \in Seq(Pairs) /\ PuttersInOrder(putters')
      /\ \A p \in ToSet(putters') : p \in ToSet(putters) /\ item < p[1]
      /\ \A p \in ToSet(putters) : Pending(p[2]) => p = h \/ p \in ToSet(putters')
  BY <1>1, <1>2, PuttersConsumed DEF QueueTypes, QueueOrder
<1>4. /\ Full /\ item \in 1..puts /\ puts \in Nat
      /\ \A x \in ToSet(out) \cup ToSet(queue) : x < item
  BY <1>1, <1>3, QueueMembers DEF QueueBeside, QueueOrder, QueueTypes
<1>5. f \in Tasks /\ at[f] = "put" /\ parcel[f] = item /\ fut[f] = "pending"
  BY <1>1, <1>3 DEF QueueCalls, Pending
<1> HIDE DEF h, item, f
<1>6. /\ queue' \in Seq(1..puts) /\ out' \in Seq(1..puts) /\ InOrder(out', queue')
      /\ y \in ToSet(out') /\ y \notin ToSet(out) /\ ToSet(out') = ToSet(out) \cup {y}
      /\ ToSet(out') \cup ToSet(queue') = (ToSet(out) \cup ToSet(queue)) \cup {item}
      /\ Len(queue') = Len(queue)
  <2>1. InOrder(out, queue) /\ out \in Seq(1..puts) /\ queue \in Seq(1..puts)
    BY <1>1 DEF QueueOrder, QueueTypes
  <2>2. /\ all \in Seq(1..puts) /\ all # <<>> /\ ToSet(all) = ToSet(queue) \cup {item}
        /\ Len(all) = Len(queue) + 1 /\ Len(queue) \in Nat /\ InOrder(out, all)
    BY <1>4, <2>1, EnterInOrder
  <2> HIDE DEF all
  <2>3. /\ Append(out, y) \in Seq(1..puts) /\ Tail(all) \in Seq(1..puts)
        /\ y \in ToSet(all) /\ y \notin ToSet(out)
        /\ ToSet(Append(out, y)) = ToSet(out) \cup {y} /\ ToSet(Tail(all)) = ToSet(all) \ {y}
        /\ Len(Tail(all)) = Len(all) - 1 /\ InOrder(Append(out, y), Tail(all))
    BY <1>4, <2>1, <2>2, LeaveInOrder
  <2> QED BY <1>2, <2>2, <2>3
<1> HIDE DEF all, y
<1>7. /\ TasksInv' /\ at' = at /\ late' = late
      /\ \A u \in Tasks \ {f} : fut'[u] = fut[u]
      /\ fut'[f] = "result" \/ (fut'[f] = "pending" /\ f \in SettledBy(ready'))
      /\ SettledBy(ready) \subseteq SettledBy(ready')
      /\ SettledBy(ready') \subseteq SettledBy(ready) \cup {f}
  <2>1. CASE nowait
    <3>1. SetResults(<<f>>)
      BY <1>2, <2>1
    <3> QED BY <1>3, <3>1, OneWoken
  <2>2. CASE ~nowait
    <3>1. ready' = Append(ready, Settle(f)) /\ UNCHANGED <<current, fut, must_cancel, at, cancels, late>>
      BY <1>2, <2>2
    <3> QED BY <1>5, <3>1, LeftToTheLoop
  <2> QED BY <2>1, <2>2
<1>8. \A u \in Tasks : CallOK(u)
  BY <1>1 DEF QueueCalls
<1>9. QueueCalls'
  <2>1. ASSUME NEW u \in Tasks PROVE CallOK(u)'
    <3>1. CallOK(u)
      BY <1>8
    <3>2. at[u] = "get" => fut'[u] = fut[u]
      BY <1>5, <1>7
    <3>3. u \in SettledBy(ready') => at[u] = "put"
      BY <1>5, <1>7, <3>1 DEF CallOK
    <3> QED BY <1>2, <1>7, <3>1, <3>2, <3>3 DEF CallOK
  <2> QED BY <1>1, <1>2, <1>3, <1>7, <2>1 DEF QueueCalls
<1>10. \A p \in ToSet(putters) : Pending(p[2])' => Pending(p[2])
  BY <1>5, <1>7 DEF Pending
<1>11. QueueOrder'
  <2>1. ASSUME NEW p \in ToSet(putters'), Pending(p[2])', NEW x \in ToSet(out') \cup ToSet(queue')
        PROVE  x < p[1]
    <3>1. CASE x = item
      BY <1>3, <3>1
    <3>2. CASE x # item
      <4>1. x \in ToSet(out) \cup ToSet(queue)
        BY <1>6, <3>2
      <4> QED BY <1>1, <1>3, <1>10, <2>1, <4>1 DEF QueueOrder
    <3> QED BY <3>1, <3>2
  <2> QED BY <1>3, <1>6, <2>1 DEF QueueOrder
<1>12. QueueBeside'
  <2>1. queue # <<>>
    BY <1>4 DEF Full
  <2>2. ~AnyLive(getters)
    BY <1>1, <2>1 DEF QueueBeside
  <2>3. ~AnyLive(getters)'
    <3>1. \A u \in Tasks : fut'[u] = "pending" => fut[u] = "pending"
      BY <1>5, <1>7
    <3> QED BY <1>2, <2>2, <3>1 DEF AnyLive, Pending
  <2>4. Full'
    BY <1>4, <1>6 DEF Full
  <2>5. ASSUME NEW u \in Tasks, at'[u] = "put", fut'[u] = "pending"
        PROVE  (\E p \in ToSet(putters') : p[2] = u) \/ u \in SettledBy(ready')
    <3>1. CASE u = f
      BY <1>7, <2>5, <3>1
    <3>2. CASE u # f
      <4>1. at[u] = "put" /\ fut[u] = "pending"
        BY <1>7, <2>5, <3>2
      <4>2. CASE u \in SettledBy(ready)
        BY <1>7, <4>2
      <4>3. CASE \E p \in ToSet(putters) : p[2] = u
        <5>1. PICK p \in ToSet(putters) : p[2] = u
          BY <4>3
        <5>2. Pending(p[2]) /\ p # h
          BY <3>2, <4>1, <5>1 DEF Pending, f
        <5> QED BY <1>3, <5>1, <5>2
      <4> QED BY <1>1, <4>1, <4>2, <4>3 DEF QueueBeside
    <3> QED BY <3>1, <3>2
  <2> QED BY <2>3, <2>4, <2>5 DEF QueueBeside
<1>13. QueueItems'
  <2>1. got' \in SUBSET ToSet(out')
    BY <1>1, <1>2, <1>6 DEF QueueItems
  <2>2. \A u \in Tasks : at'[u] = "get" /\ parcel'[u] # 0 => parcel'[u] \in ToSet(out') \ got'
    BY <1>1, <1>2, <1>6, <1>7 DEF QueueItems
  <2>3. ~late' => \A x \in ToSet(out') \ got' : \E u \in Tasks : at'[u] = "get" /\ parcel'[u] = x
    BY <1>1, <1>2, <1>6, <1>7 DEF QueueItems
  <2>4. \A x \in 1..puts' : x \in ToSet(out') \cup ToSet(queue') \cup refused'
                            \/ \E u \in Tasks : at'[u] = "put" /\ parcel'[u] = x
    BY <1>1, <1>2, <1>6, <1>7 DEF QueueItems
  <2>5. item \notin refused
    BY <1>5, <1>8 DEF CallOK
  <2>6. (ToSet(out') \cup ToSet(queue')) \cap refused' = {}
    BY <1>1, <1>2, <1>6, <2>5 DEF QueueItems
  <2> QED BY <2>1, <2>2, <2>3, <2>4, <2>6 DEF QueueItems
<1>14. /\ todo' \in [Tasks -> Nat]
       /\ Cardinality(UnitsOf(todo')) = Cardinality(UnitsOf(todo)) + 1
  <2>1. todo \in [Tasks -> Nat]
    BY <1>1 DEF QueueTypes
  <2> QED BY <1>2, <2>1, OneMoreUnit
<1>15. QueueCount' /\ unfinished_tasks' \in Nat
  <2> DEFINE E == ToSet(out) \cup ToSet(queue)
  <2>1. /\ IsFiniteSet(E) /\ Cardinality(E) \in Nat
        /\ IsFiniteSet(got) /\ Cardinality(got) \in Nat /\ Cardinality(UnitsOf(todo)) \in Nat
        /\ unfinished_tasks = Cardinality(E) - (Cardinality(got) - Cardinality(UnitsOf(todo)))
    BY <1>1, QueueCounted
  <2>2. item \notin E
    BY <1>4
  <2> HIDE DEF E
  <2>3. Cardinality(E \cup {item}) = Cardinality(E) + 1
    BY <2>1, <2>2, FS_AddElement
  <2>4. Cardinality(got') = Cardinality(got) + 1
    <3>1. y \notin got
      BY <1>1, <1>6 DEF QueueItems
    <3> QED BY <1>2, <2>1, <3>1, FS_AddElement
  <2>5. unfinished_tasks' = Cardinality(E \cup {item}) - (Cardinality(got') - Cardinality(UnitsOf(todo')))
    BY <1>2, <1>14, <2>1, <2>3, <2>4
  <2>6. unfinished_tasks' \in Nat /\ unfinished_tasks' # 0
    BY <1>1, <1>2 DEF QueueTypes
  <2> QED BY <1>2, <1>6, <2>5, <2>6 DEF QueueCount, Units, UnitsOf, E
<1>16. QueueTypes'
  BY <1>1, <1>2, <1>3, <1>6, <1>14, <1>15 DEF QueueTypes, Pairs
<1>17. QueueJoins'
  <2>1. unfinished_tasks > 0 => unfinished_tasks' > 0
    BY <1>1, <1>2 DEF QueueTypes
  <2>2. \A u \in Tasks : at[u] = "join" => fut'[u] = fut[u]
    BY <1>5, <1>7
  <2> QED BY <1>1, <1>2, <1>7, <2>1, <2>2, JoinsStay
<1> QED BY <1>7, <1>9, <1>11, <1>12, <1>13, <1>15, <1>16, <1>17, QueuePartsSoundNext DEF QueueParts

LEMMA QueueNextKeeps ==
  ASSUME TasksInv, QueueSound, QueueNext
  PROVE  TasksInv' /\ QueueSound'
<1>1. CASE \E f \in Tasks \cup {Dead} : SettlePutter(f)
  BY <1>1, QueueKeptBySettling
<1>2. ASSUME NEW t \in Tasks,
             \/ PutHandsOver(t) \/ PutNow(t) \/ PutBlocks(t) \/ PutEnds(t)
             \/ \E nowait \in BOOLEAN : GetFromPutter(t, nowait)
             \/ GetNow(t) \/ GetBlocks(t) \/ GetEnds(t)
             \/ TaskDone(t) \/ JoinBlocks(t) \/ JoinEnds(t)
      PROVE  TasksInv' /\ QueueSound'
  BY <1>2, PutHandsOverKeeps, PutNowKeeps, PutBlocksKeeps, PutEndsKeeps, GetFromPutterKeeps,
     GetNowKeeps, GetBlocksKeeps, GetEndsKeeps, TaskDoneKeeps, JoinBlocksKeeps, JoinEndsKeeps
<1> QED BY <1>1, <1>2 DEF QueueNext

\* At first nothing is queued, and nobody is in a call.
LEMMA QueueInitHolds == ASSUME TasksInit, QueueInit PROVE QueueSound
<1>1. /\ queue = <<>> /\ getters = <<>> /\ putters = <<>> /\ joiners = <<>> /\ out = <<>>
      /\ unfinished_tasks = 0 /\ finished = TRUE /\ puts = 0 /\ got = {} /\ refused = {}
      /\ parcel = [t \in Tasks |-> 0] /\ todo = [t \in Tasks |-> 0]
      /\ at = [t \in Tasks |-> "body"]
  BY DEF QueueInit, TasksInit
<1>2. /\ ToSet(queue) = {} /\ ToSet(getters) = {} /\ ToSet(putters) = {} /\ ToSet(joiners) = {}
      /\ ToSet(out) = {} /\ DOMAIN queue = {} /\ DOMAIN putters = {} /\ DOMAIN out = {}
  BY <1>1, NoneInList DEF ToSet
<1>3. SettledBy(ready) = {}
  <2>1. ready = [i \in DOMAIN SetToSeq(Tasks) |-> Step(SetToSeq(Tasks)[i])]
    BY DEF TasksInit
  <2> QED BY <2>1, CallbackNames DEF SettledBy, ToSet
<1>4. QueueTypes
  <2>1. \A S : <<>> \in Seq(S)
    BY EmptySeq
  <2>2. 0 \in Nat /\ 0 \in 0..0 /\ TRUE \in BOOLEAN
    OBVIOUS
  <2> QED BY <1>1, <2>1, <2>2 DEF QueueTypes
<1>5. QueueCalls
  BY <1>1, <1>2, <1>3 DEF QueueCalls, CallOK
<1>6. QueueJoins
  BY <1>1, <1>2, NoneInList DEF QueueJoins
<1>7. QueueOrder /\ QueueBeside
  BY <1>1, <1>2 DEF QueueOrder, QueueBeside, InOrder, Increasing, PuttersInOrder, AnyLive
<1>8. QueueItems
  BY <1>1, <1>2 DEF QueueItems
<1>9. QueueCount
  <2>1. Units = {}
    BY <1>1 DEF Units
  <2>2. ToSet(out) \cup ToSet(queue) = {}
    BY <1>2
  <2>3. Cardinality({}) = 0
    BY FS_EmptySet
  <2>4. /\ Cardinality(ToSet(out) \cup ToSet(queue)) = 0
        /\ Cardinality(Units) = 0 /\ Cardinality(got) = 0
    BY <1>1, <2>1, <2>2, <2>3
  <2>5. unfinished_tasks = 0 /\ finished = TRUE
    BY <1>1
  <2> QED BY <2>4, <2>5 DEF QueueCount
<1> QED BY <1>4, <1>5, <1>6, <1>7, <1>8, <1>9, QueuePartsSound DEF QueueParts

-----------------------------------------------------------------------------
(* The theorems.                                                           *)

\* What holds between two steps, in the form the steps have been shown to keep.
Inv ==
  /\ TasksInv
  /\ kind # "none" => LocksSound /\ QueueInit
  /\ kind = "none" => QueueSound /\ NoLock

LEMMA InvMeans == IInv <=> Inv
BY TasksSoundMeans, TasksSoundFrom DEF IInv, Inv

LEMMA InitInv == ASSUME Init PROVE Inv
<1>1. TasksInit /\ QueueInit /\ (LocksInit \/ NoLock)
  BY DEF Init
<1>2. TasksInv
  BY <1>1, TasksInitHolds
<1>3. CASE LocksInit
  <2>1. kind # "none"
    BY <1>3 DEF LocksInit
  <2> QED BY <1>1, <1>2, <1>3, <2>1, LocksInitHolds DEF Inv
<1>4. CASE NoLock
  <2>1. kind = "none"
    BY <1>4 DEF NoLock
  <2> QED BY <1>1, <1>2, <1>4, <2>1, QueueInitHolds DEF Inv
<1> QED BY <1>1, <1>3, <1>4

LEMMA NextInv == ASSUME Inv, [Next]_vars PROVE Inv'
<1>0. TasksInv
  BY DEF Inv
<1>1. UNCHANGED qvars => (QueueInit => QueueInit')
  BY DEF qvars, QueueInit
<1>2. UNCHANGED kvars => kind' = kind /\ (NoLock => NoLock')
  BY DEF kvars, NoLock
<1>3. CASE kind # "none" /\ LocksNext /\ UNCHANGED qvars
  <2>1. TasksInv' /\ LocksSound'
    BY <1>0, <1>3, LocksNextKeeps DEF Inv
  <2>2. kind' # "none"
    BY <2>1 DEF LocksSound
  <2> QED BY <1>1, <1>3, <2>1, <2>2 DEF Inv
<1>4. CASE kind = "none" /\ QueueNext /\ UNCHANGED kvars
  <2>1. TasksInv' /\ QueueSound'
    BY <1>0, <1>4, QueueNextKeeps DEF Inv
  <2> QED BY <1>2, <1>4, <2>1 DEF Inv
<1>5. CASE TaskStep /\ UNCHANGED <<kvars, qvars>>
  <2>1. TasksInv' /\ (late => late')
        /\ \A u \in Tasks :
             /\ at'[u] = at[u] \/ (at[u] = "body" /\ at'[u] = "end" /\ u \notin inside)
             /\ fut'[u] = fut[u] \/ (fut[u] = "pending" /\ fut'[u] = "cancelled")
    BY <1>0, <1>5, TaskStepKeeps
  <2>2. CASE kind = "none"
    <3>1. QueueSound'
      BY <1>0, <1>5, <2>2, QueueKeptByTasks DEF Inv
    <3> QED BY <1>2, <1>5, <2>1, <2>2, <3>1 DEF Inv
  <2>3. CASE kind # "none"
    <3>1. LocksSound'
      BY <1>0, <1>5, <2>1, <2>3, LocksKeptByTasks DEF Inv
    <3> QED BY <1>1, <1>2, <1>5, <2>1, <2>3, <3>1 DEF Inv
  <2> QED BY <2>2, <2>3
<1>6. CASE UNCHANGED vars
  <2>1. UNCHANGED tvars /\ UNCHANGED kvars /\ UNCHANGED qvars
    BY <1>6 DEF vars
  <2>2. TasksInv'
    BY <1>0, <2>1, TasksUntouched
  <2>3. LocksSound => LocksSound'
    BY <2>1 DEF LocksSound, LocksTypeOK, Exclusive, SomebodyWillRelease, LockIsPassedOn,
                Offered, AnyLive, Pending, tvars, kvars
  <2>4. QueueSound => QueueSound'
    <3>1. /\ QueueTypes => QueueTypes'
          /\ QueueCalls => QueueCalls'
          /\ QueueJoins => QueueJoins'
      BY <2>1 DEF QueueTypes, QueueCalls, CallOK, QueueJoins, SettledBy, Pairs, tvars, qvars
    <3>2. /\ QueueOrder => QueueOrder'
          /\ QueueBeside => QueueBeside'
          /\ QueueItems => QueueItems'
      BY <2>1 DEF QueueOrder, QueueBeside, QueueItems, SettledBy, AnyLive, Pending, Full, tvars, qvars
    <3>3. QueueCount => QueueCount'
      BY <2>1 DEF QueueCount, Units, qvars
    <3> QED BY <3>1, <3>2, <3>3, QueueSoundParts, QueuePartsSoundNext DEF QueueParts
  <2> QED BY <1>1, <1>2, <2>1, <2>2, <2>3, <2>4 DEF Inv
<1> QED BY <1>3, <1>4, <1>5, <1>6 DEF Next, TaskStep

\* The tasks, and the lists, counters and futures of the object they share, agree
\* (asyncio/tasks.py, locks.py, queues.py).
THEOREM Invariance == Spec => []IInv
<1>1. Init => Inv
  BY InitInv
<1>2. Inv /\ [Next]_vars => Inv'
  BY NextInv
<1>3. Spec => []Inv
  BY <1>1, <1>2, PTL DEF Spec
<1> QED BY <1>3, InvMeans, PTL

\* A task that is not done waits for a future that is not done, or is scheduled
\* once: Task.cancel(), set_result() and _wakeup() never schedule it twice, and
\* never leave it asleep on a future that is done.
THEOREM TasksAreScheduled == Spec => []TaskScheduled
<1>1. IInv => TaskScheduled
  BY DEF IInv, TasksSound
<1> QED BY <1>1, Invariance, PTL

\* The permits of a Lock or Semaphore are those that are free and those that tasks
\* hold, whatever acquire(), Condition.wait() or a release was cancelled on the way.
THEOREM LocksExclude == Spec => []Exclusive
<1>1. IInv => Exclusive
  BY DEF IInv, LocksSound, Exclusive
<1> QED BY <1>1, Invariance, PTL

\* While the tasks share a lock, nobody is in the lists of a queue.
LEMMA NobodyQueues ==
  ASSUME TasksInv, QueueInit
  PROVE  ~AnyLive(getters) /\ ~AnyLive(joiners) /\ ~(\E f \in Putters : Pending(f))
<1>1. /\ ToSet(getters) = {} /\ ToSet(joiners) = {} /\ ToSet(putters) = {}
  BY NoneInList DEF QueueInit
<1> QED BY <1>1 DEF AnyLive, Putters

\* While no woken task has been cancelled, and none has blocked behind a cancelled
\* one, a sleeper in acquire() has a task before it that was woken or is inside; and
\* nobody ever sleeps in get(), put() or join() beside what it waits for.
THEOREM NoWakeupIsLost == Spec => []NoWakeupLost
<1>1. IInv => TasksTypeOK
  BY DEF IInv, TasksSound
<1>2. ASSUME IInv, kind # "none" PROVE LocksTypeOK /\ SomebodyWillRelease /\ NobodyBesideIt
  <2>1. LocksSound /\ QueueInit /\ TasksInv
    BY <1>2, TasksSoundMeans DEF IInv
  <2>2. \A t \in Tasks : at[t] # "put"
    BY <2>1 DEF LocksSound
  <2>3. NobodyBesideIt
    BY <2>1, <2>2, NobodyQueues DEF NobodyBesideIt
  <2> QED BY <2>1, <2>3 DEF LocksSound
<1>3. ASSUME IInv, kind = "none" PROVE LocksTypeOK /\ SomebodyWillRelease /\ NobodyBesideIt
  <2>1. QueueSound /\ NoLock
    BY <1>3 DEF IInv
  <2>2. LocksTypeOK
    BY <2>1, MaxValuePositive, NoneInList DEF NoLock, LocksTypeOK
  <2>3. SomebodyWillRelease
    BY <2>1, NoneInList DEF NoLock, SomebodyWillRelease, AnyLive
  <2>4. NobodyBesideIt
    BY <2>1 DEF QueueSound
  <2> QED BY <2>2, <2>3, <2>4
<1>4. IInv => NoWakeupLost
  BY <1>1, <1>2, <1>3 DEF NoWakeupLost
<1> QED BY <1>4, Invariance, PTL

\* Items leave a JoinableQueue in the order of their put() calls; none is lost, made
\* up or received twice, except in the hands of a getter that was cancelled after
\* its wake-up; and join() waits for exactly those that were not reported done.
THEOREM ItemsAreKept == Spec => []ItemsKept
<1>1. ASSUME IInv, kind # "none" PROVE ItemsKept
  <2>1. /\ queue = <<>> /\ out = <<>> /\ putters = <<>>
        /\ unfinished_tasks = 0 /\ finished = TRUE /\ puts = 0 /\ got = {} /\ refused = {}
        /\ todo = [t \in Tasks |-> 0]
    BY <1>1 DEF IInv, QueueInit
  <2>2. \A t \in Tasks : at[t] \notin {"get", "put"}
    BY <1>1 DEF IInv, LocksSound
  <2>3. {parcel[t] : t \in {u \in Tasks : at[u] = "get"}} = {}
        /\ {parcel[t] : t \in {u \in Tasks : at[u] = "put"}} = {}
    BY <2>2
  <2>4. ToSet(queue) = {} /\ ToSet(out) = {} /\ ToSet(putters) = {} /\ DOMAIN out = {}
    BY <2>1, NoneInList DEF ToSet
  <2>5. Entered = {} /\ 1..puts = {}
    BY <2>1, <2>4 DEF Entered
  <2>6. UNION {{t} \X (1..todo[t]) : t \in Tasks} = {}
    BY <2>1
  <2>7. /\ unfinished_tasks
             = Cardinality(Entered)
               - (Cardinality(got) - Cardinality(UNION {{t} \X (1..todo[t]) : t \in Tasks}))
        /\ finished <=> unfinished_tasks = 0
    <3>1. Cardinality({}) = 0
      BY FS_EmptySet
    <3>2. Cardinality(Entered) = 0 /\ Cardinality(got) = 0
          /\ Cardinality(UNION {{t} \X (1..todo[t]) : t \in Tasks}) = 0
      BY <2>1, <2>5, <2>6, <3>1
    <3>3. unfinished_tasks = 0 /\ finished = TRUE
      BY <2>1
    <3> QED BY <3>2, <3>3
  <2> QED BY <2>1, <2>3, <2>4, <2>5, <2>7 DEF ItemsKept
<1>2. ASSUME IInv, kind = "none" PROVE ItemsKept
  BY <1>2 DEF IInv, QueueSound
<1>3. IInv => ItemsKept
  BY <1>1, <1>2
<1> QED BY <1>3, Invariance, PTL

=============================================================================

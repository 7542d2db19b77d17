--------------------------- MODULE ConditionProofs ---------------------------
(***************************************************************************)
(* Theorems about threading.Condition: for any finite set of threads and   *)
(* any recursion depth, the deque of waiters stays sound, and the          *)
(* condition implements the monitor, if it is used with care.              *)
(***************************************************************************)
EXTENDS Condition, SequenceTheorems, FiniteSetTheorems, TLAPS

-----------------------------------------------------------------------------
(* Lists in which nobody is named twice.                                   *)

LEMMA ListMembers ==
  ASSUME NEW S, NEW s \in Seq(S)
  PROVE  /\ Len(s) \in Nat /\ DOMAIN s = 1..Len(s)
         /\ \A i \in 1..Len(s) : s[i] \in S /\ s[i] \in ToSet(s)
         /\ \A x \in ToSet(s) : x \in S /\ \E i \in 1..Len(s) : s[i] = x
         /\ s = <<>> => ToSet(s) = {}
<1>1. Len(s) \in Nat /\ DOMAIN s = 1..Len(s) /\ \A i \in 1..Len(s) : s[i] \in S
  BY LenProperties
<1> QED BY <1>1 DEF ToSet

LEMMA AppendList ==
  ASSUME NEW S, NEW s \in Seq(S), NEW x \in S, x \notin ToSet(s), IsInjective(s)
  PROVE  /\ Append(s, x) \in Seq(S)
         /\ ToSet(Append(s, x)) = ToSet(s) \cup {x}
         /\ IsInjective(Append(s, x))
<1> DEFINE a == Append(s, x)
<1>1. /\ a \in Seq(S) /\ Len(a) = Len(s) + 1 /\ Len(s) \in Nat
      /\ DOMAIN a = 1..Len(a) /\ DOMAIN s = 1..Len(s)
      /\ \A i \in 1..Len(s) : a[i] = s[i]
      /\ a[Len(s) + 1] = x
  BY AppendProperties, LenProperties
<1> HIDE DEF a
<1>2. ASSUME NEW y \in ToSet(a) PROVE y \in ToSet(s) \cup {x}
  BY <1>1, <1>2 DEF ToSet
<1>3. ASSUME NEW y \in ToSet(s) PROVE y \in ToSet(a)
  BY <1>1, <1>3 DEF ToSet
<1>4. x \in ToSet(a)
  BY <1>1 DEF ToSet
<1>5. IsInjective(a)
  BY <1>1 DEF IsInjective, ToSet
<1> QED BY <1>1, <1>2, <1>3, <1>4, <1>5 DEF a

LEMMA TailList ==
  ASSUME NEW S, NEW s \in Seq(S), s # <<>>, IsInjective(s)
  PROVE  /\ Head(s) \in S /\ Tail(s) \in Seq(S)
         /\ ToSet(s) = ToSet(Tail(s)) \cup {Head(s)}
         /\ Head(s) \notin ToSet(Tail(s)) /\ IsInjective(Tail(s))
<1> DEFINE h == Head(s)
           r == Tail(s)
<1>1. /\ h \in S /\ r \in Seq(S) /\ Len(r) = Len(s) - 1
      /\ \A i \in 1..Len(r) : r[i] = s[i + 1]
      /\ Len(s) \in Nat \ {0} /\ h = s[1]
      /\ DOMAIN s = 1..Len(s) /\ DOMAIN r = 1..Len(r)
  BY HeadTailProperties, EmptySeq, LenProperties
<1> HIDE DEF h, r
<1>2. ASSUME NEW i \in DOMAIN s PROVE s[i] \in ToSet(r) \cup {h}
  <2>1. CASE i # 1
    <3>1. i - 1 \in DOMAIN r /\ r[i - 1] = s[i]
      BY <1>1, <2>1
    <3> QED BY <3>1 DEF ToSet
  <2> QED BY <1>1, <2>1
<1>3. ASSUME NEW i \in DOMAIN r PROVE r[i] \in ToSet(s) /\ r[i] # h
  <2>1. i + 1 \in DOMAIN s /\ i + 1 # 1 /\ 1 \in DOMAIN s /\ r[i] = s[i + 1]
    BY <1>1
  <2> QED BY <1>1, <2>1 DEF ToSet, IsInjective
<1>4. h \in ToSet(s)
  BY <1>1 DEF ToSet
<1>5. IsInjective(r)
  <2> SUFFICES ASSUME NEW i \in DOMAIN r, NEW j \in DOMAIN r, r[i] = r[j] PROVE i = j
    BY DEF IsInjective
  <2>1. i + 1 = j + 1
    BY <1>1 DEF IsInjective
  <2> QED BY <1>1, <2>1
<1> QED BY <1>1, <1>2, <1>3, <1>4, <1>5 DEF h, r, ToSet

\* remove(x): what is before it and what is behind it stays.
LEMMA RemoveAtPlace ==
  ASSUME NEW S, NEW s \in Seq(S), IsInjective(s), NEW k \in 1..Len(s)
  PROVE  LET r == RemoveFirst(s, s[k]) IN
         /\ r \in Seq(S) /\ Len(r) = Len(s) - 1 /\ DOMAIN r = 1..(Len(s) - 1)
         /\ \A i \in 1..(k - 1) : r[i] = s[i]
         /\ \A i \in k..(Len(s) - 1) : r[i] = s[i + 1]
<1>0. \A i, j \in 1..Len(s) : s[i] = s[j] => i = j
  BY ListMembers DEF IsInjective
<1>1. Len(s) \in Nat /\ DOMAIN s = 1..Len(s) /\ \A i \in 1..Len(s) : s[i] \in S
  BY ListMembers
<1>2. k \in 1..Len(s)
  OBVIOUS
<1> DEFINE l == SubSeq(s, 1, k - 1)
           r == SubSeq(s, k + 1, Len(s))
           c == l \o r
<1>3. RemoveFirst(s, s[k]) = c
  <2>1. {i \in 1..Len(s) : s[i] = s[k]} = {k}
    BY <1>0, <1>1, <1>2
  <2>2. Min({k}) = k
    BY <1>2 DEF Min
  <2>3. SelectInSeq(s, LAMBDA v : v = s[k]) = k
    BY <2>1, <2>2 DEF SelectInSeq
  <2> QED BY <1>2, <2>3 DEF RemoveFirst, RemoveAt
<1>4. /\ l \in Seq(S) /\ Len(l) = k - 1
      /\ \A i \in 1..(k - 1) : l[i] = s[i]
  <2>1. \A i \in 1..(k - 1) : s[i] \in S
    BY <1>1, <1>2
  <2>2. /\ l \in Seq(S) /\ Len(l) = IF 1 <= k - 1 THEN (k - 1) - 1 + 1 ELSE 0
        /\ \A i \in 1..((k - 1) - 1 + 1) : l[i] = s[1 + i - 1]
    BY <1>2, <2>1, SubSeqProperties
  <2> QED BY <1>1, <1>2, <2>2
<1>5. /\ r \in Seq(S) /\ Len(r) = Len(s) - k
      /\ \A i \in 1..(Len(s) - k) : r[i] = s[k + i]
  <2>1. k + 1 \in Int /\ Len(s) \in Int /\ \A i \in (k + 1)..Len(s) : s[i] \in S
    BY <1>1, <1>2
  <2>2. /\ r \in Seq(S) /\ Len(r) = IF k + 1 <= Len(s) THEN Len(s) - (k + 1) + 1 ELSE 0
        /\ \A i \in 1..(Len(s) - (k + 1) + 1) : r[i] = s[(k + 1) + i - 1]
    BY <2>1, SubSeqProperties
  <2>3. Len(s) - (k + 1) + 1 = Len(s) - k /\ \A i \in 1..(Len(s) - k) : (k + 1) + i - 1 = k + i
    BY <1>1, <1>2
  <2>4. Len(r) = Len(s) - k
    <3> HIDE DEF r
    <3>1. CASE k + 1 <= Len(s)
      BY <1>1, <1>2, <2>2, <3>1
    <3>2. CASE k = Len(s)
      BY <1>1, <1>2, <2>2, <3>2
    <3>3. \A n \in Nat : \A i \in 1..n : i + 1 <= n \/ i = n
      OBVIOUS
    <3> QED BY <1>1, <1>2, <3>1, <3>2, <3>3
  <2>5. \A i \in 1..(Len(s) - k) : r[i] = s[k + i]
    BY <2>2, <2>3
  <2> QED BY <2>2, <2>4, <2>5
<1> HIDE DEF l, r
<1>6. /\ c \in Seq(S) /\ Len(c) = Len(l) + Len(r)
      /\ \A i \in 1..(Len(l) + Len(r)) : c[i] = IF i <= Len(l) THEN l[i] ELSE r[i - Len(l)]
  BY <1>4, <1>5, ConcatProperties
<1> HIDE DEF c
<1>7. /\ c \in Seq(S) /\ DOMAIN c = 1..(Len(s) - 1)
      /\ \A i \in 1..(k - 1) : c[i] = s[i]
      /\ \A i \in k..(Len(s) - 1) : c[i] = s[i + 1]
  <2>1. DOMAIN c = 1..(Len(s) - 1)
    BY <1>1, <1>2, <1>4, <1>5, <1>6, LenProperties
  <2>2. ASSUME NEW i \in 1..(k - 1) PROVE c[i] = s[i]
    <3>1. i \in 1..(Len(l) + Len(r)) /\ i <= Len(l)
      BY <1>1, <1>2, <1>4, <1>5
    <3> QED BY <1>4, <1>6, <3>1
  <2>3. ASSUME NEW i \in k..(Len(s) - 1) PROVE c[i] = s[i + 1]
    <3>1. /\ i \in 1..(Len(l) + Len(r)) /\ ~(i <= Len(l))
          /\ i - Len(l) \in 1..(Len(s) - k) /\ k + (i - Len(l)) = i + 1
      BY <1>1, <1>2, <1>4, <1>5
    <3> QED BY <1>5, <1>6, <3>1
  <2> QED BY <1>6, <2>1, <2>2, <2>3
<1> QED BY <1>1, <1>2, <1>3, <1>4, <1>5, <1>6, <1>7

LEMMA RemoveUnlisted ==
  ASSUME NEW S, NEW s \in Seq(S), NEW x, x \notin ToSet(s)
  PROVE  RemoveFirst(s, x) = s
BY ListMembers DEF RemoveFirst

Precedes(s, x, y) == \E p, q \in DOMAIN s : p < q /\ s[p] = x /\ s[q] = y

LEMMA RemoveList ==
  ASSUME NEW S, NEW s \in Seq(S), IsInjective(s), NEW x
  PROVE  /\ RemoveFirst(s, x) \in Seq(S) /\ Len(RemoveFirst(s, x)) <= Len(s)
         /\ ToSet(RemoveFirst(s, x)) = ToSet(s) \ {x}
         /\ IsInjective(RemoveFirst(s, x))
         /\ \A a, b : Precedes(RemoveFirst(s, x), a, b) => Precedes(s, a, b)
<1>1. CASE x \notin ToSet(s)
  BY <1>1, RemoveUnlisted, ListMembers
<1>2. CASE x \in ToSet(s)
  <2>0. /\ \A i, j \in 1..Len(s) : s[i] = s[j] => i = j
        /\ Len(s) \in Nat /\ DOMAIN s = 1..Len(s)
    BY ListMembers DEF IsInjective
  <2>1. PICK k \in 1..Len(s) : s[k] = x
    BY <1>2, ListMembers
  <2> DEFINE c == RemoveFirst(s, x)
  <2>2. /\ c \in Seq(S) /\ Len(c) = Len(s) - 1 /\ DOMAIN c = 1..(Len(s) - 1)
        /\ \A i \in 1..(k - 1) : c[i] = s[i]
        /\ \A i \in k..(Len(s) - 1) : c[i] = s[i + 1]
    BY <2>1, RemoveAtPlace
  <2> HIDE DEF c
  \* where the entry at place i comes from
  <2> DEFINE from(i) == IF i < k THEN i ELSE i + 1
  <2>3. ASSUME NEW i \in DOMAIN c
        PROVE  from(i) \in 1..Len(s) /\ from(i) # k /\ c[i] = s[from(i)]
    <3>1. CASE i < k
      <4>1. i \in 1..(k - 1)
        BY <2>0, <2>2, <3>1
      <4> QED BY <2>0, <2>1, <2>2, <3>1, <4>1
    <3>2. CASE ~(i < k)
      <4>1. i \in k..(Len(s) - 1) /\ i + 1 \in 1..Len(s) /\ i + 1 # k
        BY <2>0, <2>1, <2>2, <3>2
      <4> QED BY <2>2, <3>2, <4>1
    <3> QED BY <3>1, <3>2
  <2>4. \A i, j \in DOMAIN c : (i < j => from(i) < from(j)) /\ (from(i) = from(j) => i = j)
    BY <2>0, <2>1, <2>2
  <2>5. ASSUME NEW y \in ToSet(s) \ {x} PROVE y \in ToSet(c)
    <3>1. PICK j \in 1..Len(s) : s[j] = y /\ j # k
      BY <2>0, <2>1, <2>5 DEF ToSet
    <3>2. CASE j < k
      <4>1. j \in DOMAIN c /\ c[j] = y
        BY <2>0, <2>1, <2>2, <3>1, <3>2
      <4> QED BY <4>1 DEF ToSet
    <3>3. CASE j > k
      <4>1. j - 1 \in k..(Len(s) - 1) /\ j - 1 \in DOMAIN c /\ (j - 1) + 1 = j
        BY <2>0, <2>1, <2>2, <3>3
      <4>2. c[j - 1] = y
        BY <2>2, <3>1, <4>1
      <4> QED BY <4>1, <4>2 DEF ToSet
    <3> QED BY <2>1, <3>1, <3>2, <3>3
  <2> HIDE DEF from
  <2>6. ASSUME NEW y \in ToSet(c) PROVE y \in ToSet(s) \ {x}
    <3>1. PICK i \in DOMAIN c : c[i] = y
      BY <2>6 DEF ToSet
    <3> QED BY <2>0, <2>1, <2>3, <3>1 DEF ToSet
  <2>7. IsInjective(c)
    <3> SUFFICES ASSUME NEW i \in DOMAIN c, NEW j \in DOMAIN c, c[i] = c[j] PROVE i = j
      BY DEF IsInjective
    <3>1. from(i) = from(j)
      BY <2>0, <2>3
    <3> QED BY <2>4, <3>1
  <2>8. ASSUME NEW a, NEW b, Precedes(c, a, b) PROVE Precedes(s, a, b)
    <3>1. PICK i, j \in DOMAIN c : i < j /\ c[i] = a /\ c[j] = b
      BY <2>8 DEF Precedes
    <3>2. from(i) < from(j) /\ s[from(i)] = a /\ s[from(j)] = b
          /\ from(i) \in DOMAIN s /\ from(j) \in DOMAIN s
      BY <2>0, <2>3, <2>4, <3>1
    <3> QED BY <3>2 DEF Precedes
  <2>9. Len(c) <= Len(s)
    BY <2>0, <2>2
  <2> QED BY <2>2, <2>5, <2>6, <2>7, <2>8, <2>9 DEF c
<1> QED BY <1>1, <1>2

LEMMA EndOfList ==
  ASSUME NEW S, NEW s \in Seq(S), s # <<>>
  PROVE  /\ Len(s) \in Nat \ {0} /\ DOMAIN s = 1..Len(s)
         /\ Head(s) = s[1] /\ Head(s) \in S /\ Head(s) \in ToSet(s)
         /\ Last(s) = s[Len(s)] /\ Last(s) \in S /\ Last(s) \in ToSet(s)
         /\ Tail(s) \in Seq(S) /\ Len(Tail(s)) = Len(s) - 1
         /\ \A i \in 1..(Len(s) - 1) : Tail(s)[i] = s[i + 1]
         /\ Front(s) \in Seq(S) /\ Len(Front(s)) = Len(s) - 1
         /\ \A i \in 1..(Len(s) - 1) : Front(s)[i] = s[i]
<1>1. Len(s) \in Nat /\ DOMAIN s = 1..Len(s) /\ \A i \in 1..Len(s) : s[i] \in S
  BY LenProperties
<1>2. Len(s) # 0
  BY EmptySeq
<1>3. Head(s) = s[1] /\ Last(s) = s[Len(s)]
  BY DEF Last
<1>4. Head(s) \in S /\ Head(s) \in ToSet(s) /\ Last(s) \in S /\ Last(s) \in ToSet(s)
  BY <1>1, <1>2, <1>3 DEF ToSet
<1>5. /\ Tail(s) \in Seq(S) /\ Len(Tail(s)) = Len(s) - 1
      /\ \A i \in 1..(Len(s) - 1) : Tail(s)[i] = s[i + 1]
  BY HeadTailProperties
<1>6. /\ Front(s) \in Seq(S) /\ Len(Front(s)) = Len(s) - 1
      /\ \A i \in 1..(Len(s) - 1) : Front(s)[i] = s[i]
  <2>1. \A i \in 1..(Len(s) - 1) : s[i] \in S
    BY <1>1
  <2>2. /\ Front(s) \in Seq(S)
        /\ Len(Front(s)) = IF 1 <= Len(s) - 1 THEN (Len(s) - 1) - 1 + 1 ELSE 0
        /\ \A i \in 1..((Len(s) - 1) - 1 + 1) : Front(s)[i] = s[1 + i - 1]
    BY <1>1, <2>1, SubSeqProperties DEF Front
  <2>3. /\ (IF 1 <= Len(s) - 1 THEN (Len(s) - 1) - 1 + 1 ELSE 0) = Len(s) - 1
        /\ (Len(s) - 1) - 1 + 1 = Len(s) - 1
        /\ \A i \in 1..(Len(s) - 1) : 1 + i - 1 = i
    BY <1>1, <1>2
  <2> QED BY <2>2, <2>3
<1> QED BY <1>1, <1>2, <1>3, <1>4, <1>5, <1>6

\* The last one of a list is appended to the rest of it.
LEMMA AppendFront ==
  ASSUME NEW S, NEW s \in Seq(S), s # <<>>
  PROVE  Append(Front(s), Last(s)) = s
<1>1. /\ Len(s) \in Nat \ {0} /\ Last(s) = s[Len(s)] /\ Last(s) \in S
      /\ Front(s) \in Seq(S) /\ Len(Front(s)) = Len(s) - 1
      /\ \A i \in 1..(Len(s) - 1) : Front(s)[i] = s[i]
  BY EndOfList
<1> DEFINE a == Append(Front(s), Last(s))
<1>2. /\ a \in Seq(S) /\ Len(a) = Len(Front(s)) + 1
      /\ \A i \in 1..Len(Front(s)) : a[i] = Front(s)[i]
      /\ a[Len(Front(s)) + 1] = Last(s)
  BY <1>1, AppendProperties
<1> HIDE DEF a
<1>3. Len(a) = Len(s) /\ \A i \in 1..Len(a) : a[i] = s[i]
  BY <1>1, <1>2
<1> QED BY <1>2, <1>3, SeqEqual DEF a

LEMMA FrontAppend ==
  ASSUME NEW S, NEW s \in Seq(S), NEW x \in S
  PROVE  Front(Append(s, x)) = s /\ Last(Append(s, x)) = x
         /\ Append(s, x) # <<>> /\ (s # <<>> => Head(Append(s, x)) = Head(s))
         /\ (s = <<>> => Head(Append(s, x)) = x)
<1> DEFINE a == Append(s, x)
<1>1. /\ a \in Seq(S) /\ a # <<>> /\ Len(a) = Len(s) + 1 /\ Len(s) \in Nat
      /\ \A i \in 1..Len(s) : a[i] = s[i]
      /\ a[Len(s) + 1] = x
  BY AppendProperties, LenProperties
<1> HIDE DEF a
<1>2. /\ Head(a) = a[1] /\ Last(a) = a[Len(a)]
      /\ Front(a) \in Seq(S) /\ Len(Front(a)) = Len(a) - 1
      /\ \A i \in 1..(Len(a) - 1) : Front(a)[i] = a[i]
  BY <1>1, EndOfList
<1>3. Len(Front(a)) = Len(s) /\ \A i \in 1..Len(Front(a)) : Front(a)[i] = s[i]
  BY <1>1, <1>2
<1>4. Front(a) = s
  BY <1>2, <1>3, SeqEqual
<1>5. s # <<>> => Len(s) \in Nat \ {0} /\ Head(s) = s[1]
  BY EndOfList
<1>6. s = <<>> => Len(s) = 0
  BY EmptySeq
<1> QED BY <1>1, <1>2, <1>4, <1>5, <1>6 DEF a

LEMMA RemoveHead ==
  ASSUME NEW S, NEW s \in Seq(S), s # <<>>, IsInjective(s)
  PROVE  RemoveFirst(s, Head(s)) = Tail(s)
<1>1. /\ Len(s) \in Nat \ {0} /\ Head(s) = s[1]
      /\ Tail(s) \in Seq(S) /\ Len(Tail(s)) = Len(s) - 1
      /\ \A i \in 1..(Len(s) - 1) : Tail(s)[i] = s[i + 1]
  BY EndOfList
<1>2. 1 \in 1..Len(s)
  BY <1>1
<1> DEFINE c == RemoveFirst(s, s[1])
<1>3. /\ c \in Seq(S) /\ Len(c) = Len(s) - 1
      /\ \A i \in 1..(Len(s) - 1) : c[i] = s[i + 1]
  BY <1>2, RemoveAtPlace
<1> HIDE DEF c
<1>4. c = Tail(s)
  BY <1>1, <1>3, SeqEqual
<1> QED BY <1>1, <1>4 DEF c

\* Taking somebody else off leaves the head in place.
LEMMA RemoveBehindHead ==
  ASSUME NEW S, NEW s \in Seq(S), s # <<>>, IsInjective(s), NEW x, x # Head(s)
  PROVE  /\ RemoveFirst(s, x) # <<>> /\ Head(RemoveFirst(s, x)) = Head(s)
         /\ Tail(RemoveFirst(s, x)) = RemoveFirst(Tail(s), x)
<1>0. /\ Len(s) \in Nat \ {0} /\ DOMAIN s = 1..Len(s) /\ Head(s) = s[1]
      /\ Tail(s) \in Seq(S) /\ Len(Tail(s)) = Len(s) - 1
      /\ \A i \in 1..(Len(s) - 1) : Tail(s)[i] = s[i + 1]
  BY EndOfList
<1>n. PICK n \in Nat \ {0} :
        /\ n = Len(s) /\ DOMAIN s = 1..n /\ Head(s) = s[1]
        /\ Tail(s) \in Seq(S) /\ Len(Tail(s)) = n - 1
        /\ \A i \in 1..(n - 1) : Tail(s)[i] = s[i + 1]
  BY <1>0
<1>1. ToSet(s) = ToSet(Tail(s)) \cup {Head(s)} /\ IsInjective(Tail(s))
  BY TailList
<1>2. CASE x \notin ToSet(s)
  <2>1. RemoveFirst(s, x) = s /\ RemoveFirst(Tail(s), x) = Tail(s)
    BY <1>n, <1>1, <1>2, RemoveUnlisted
  <2> QED BY <2>1
<1>3. CASE x \in ToSet(s)
  <2>1. PICK k \in 1..n : s[k] = x
    BY <1>n, <1>3, ListMembers
  <2> DEFINE c == RemoveFirst(s, x)
             t == Tail(s)
             d == RemoveFirst(t, x)
  <2>2. /\ c \in Seq(S) /\ Len(c) = n - 1
        /\ \A i \in 1..(k - 1) : c[i] = s[i]
        /\ \A i \in k..(n - 1) : c[i] = s[i + 1]
    BY <1>n, <2>1, RemoveAtPlace
  <2>3. k # 1 /\ k \in 1..n
    BY <1>n, <2>1
  <2>4. k - 1 \in 1..(n - 1) /\ t[k - 1] = x
    BY <1>n, <2>1, <2>3
  <2>5. /\ d \in Seq(S) /\ Len(d) = (n - 1) - 1
        /\ \A i \in 1..((k - 1) - 1) : d[i] = t[i]
        /\ \A i \in (k - 1)..((n - 1) - 1) : d[i] = t[i + 1]
    <3> DEFINE j == k - 1
    <3>1. j \in 1..(n - 1) /\ t[j] = x
      BY <2>4
    <3> HIDE DEF t, j
    <3>2. t \in Seq(S) /\ IsInjective(t) /\ Len(t) = n - 1
      BY <1>n, <1>1 DEF t
    <3>3. j \in 1..Len(t) /\ d = RemoveFirst(t, t[j])
      BY <3>1, <3>2
    <3> HIDE DEF d
    <3>4. /\ d \in Seq(S) /\ Len(d) = Len(t) - 1
          /\ \A i \in 1..(j - 1) : d[i] = t[i]
          /\ \A i \in j..(Len(t) - 1) : d[i] = t[i + 1]
      BY <3>2, <3>3, RemoveAtPlace
    <3> QED BY <3>2, <3>4 DEF j
  <2> HIDE DEF c, d
  <2>6. Len(c) # 0 /\ Len(c) = n - 1
    BY <1>n, <2>2, <2>3
  <2>7. c # <<>>
    BY <2>2, <2>6, EmptySeq
  <2>8. /\ Head(c) = c[1]
        /\ Tail(c) \in Seq(S) /\ Len(Tail(c)) = Len(c) - 1
        /\ \A i \in 1..(Len(c) - 1) : Tail(c)[i] = c[i + 1]
    BY <2>2, <2>7, EndOfList
  <2>9. Head(c) = Head(s)
    BY <1>n, <2>2, <2>3, <2>8
  <2>10. ASSUME NEW i \in 1..(n - 2) PROVE Tail(c)[i] = d[i]
    <3>1. /\ i \in 1..(Len(c) - 1) /\ i \in 1..(n - 1) /\ i + 1 \in 1..(n - 1)
          /\ Tail(c)[i] = c[i + 1] /\ t[i] = s[i + 1] /\ t[i + 1] = s[(i + 1) + 1]
      BY <1>n, <2>6, <2>8
    <3>2. CASE i + 1 < k
      <4>1. i + 1 \in 1..(k - 1) /\ i \in 1..((k - 1) - 1)
        BY <2>3, <3>2
      <4>2. c[i + 1] = s[i + 1] /\ d[i] = t[i]
        BY <2>2, <2>5, <4>1
      <4> QED BY <3>1, <4>2
    <3>3. CASE i + 1 >= k
      <4>1. i + 1 \in k..(n - 1) /\ i \in (k - 1)..((n - 1) - 1)
        BY <1>n, <2>3, <3>3
      <4>2. c[i + 1] = s[(i + 1) + 1]
        BY <2>2, <4>1
      <4>3. d[i] = t[i + 1]
        BY <2>5, <4>1
      <4> HIDE DEF t
      <4> QED BY <3>1, <4>2, <4>3
    <3>4. i + 1 < k \/ i + 1 >= k
      BY <2>3
    <3> QED BY <3>2, <3>3, <3>4
  <2>11. Len(Tail(c)) = n - 2 /\ Len(d) = n - 2
    BY <1>n, <2>5, <2>6, <2>8
  <2>12. Tail(c) = d
    BY <2>5, <2>8, <2>10, <2>11, SeqEqual
  <2> QED BY <2>7, <2>9, <2>12 DEF c, d
<1> QED BY <1>2, <1>3

\* Taking somebody else off leaves the last one in place.
LEMMA RemoveBeforeLast ==
  ASSUME NEW S, NEW s \in Seq(S), s # <<>>, IsInjective(s), NEW x, x # Last(s)
  PROVE  /\ RemoveFirst(s, x) # <<>> /\ Last(RemoveFirst(s, x)) = Last(s)
         /\ Front(RemoveFirst(s, x)) = RemoveFirst(Front(s), x)
<1>0. /\ Len(s) \in Nat \ {0} /\ DOMAIN s = 1..Len(s) /\ Last(s) = s[Len(s)]
      /\ Front(s) \in Seq(S) /\ Len(Front(s)) = Len(s) - 1
      /\ \A i \in 1..(Len(s) - 1) : Front(s)[i] = s[i]
  BY EndOfList
<1>n. PICK n \in Nat \ {0} :
        /\ n = Len(s) /\ DOMAIN s = 1..n /\ Last(s) = s[n]
        /\ Front(s) \in Seq(S) /\ Len(Front(s)) = n - 1
        /\ \A i \in 1..(n - 1) : Front(s)[i] = s[i]
  BY <1>0
<1> DEFINE f == Front(s)
<1> HIDE DEF f
<1>1. DOMAIN f = 1..(n - 1) /\ f \in Seq(S) /\ Len(f) = n - 1
      /\ \A i \in 1..(n - 1) : f[i] = s[i]
  BY <1>n, LenProperties DEF f
<1>2. ToSet(f) \subseteq ToSet(s) /\ IsInjective(f)
  <2>1. \A i \in DOMAIN f : i \in DOMAIN s /\ f[i] = s[i]
    BY <1>n, <1>1
  <2> QED BY <2>1 DEF ToSet, IsInjective
<1>3. CASE x \notin ToSet(s)
  <2>1. RemoveFirst(s, x) = s /\ RemoveFirst(f, x) = f
    BY <1>1, <1>2, <1>3, RemoveUnlisted
  <2> QED BY <2>1 DEF f
<1>4. CASE x \in ToSet(s)
  <2>1. PICK k \in 1..n : s[k] = x
    BY <1>n, <1>4, ListMembers
  <2> DEFINE c == RemoveFirst(s, x)
             d == RemoveFirst(f, x)
  <2>2. /\ c \in Seq(S) /\ Len(c) = n - 1
        /\ \A i \in 1..(k - 1) : c[i] = s[i]
        /\ \A i \in k..(n - 1) : c[i] = s[i + 1]
    BY <1>n, <2>1, RemoveAtPlace
  <2>3. k # n /\ k \in 1..n
    BY <1>n, <2>1
  <2>4. k \in 1..(n - 1) /\ f[k] = x
    BY <1>n, <1>1, <2>1, <2>3
  <2>5. /\ d \in Seq(S) /\ Len(d) = (n - 1) - 1
        /\ \A i \in 1..(k - 1) : d[i] = f[i]
        /\ \A i \in k..((n - 1) - 1) : d[i] = f[i + 1]
    <3>1. k \in 1..Len(f) /\ d = RemoveFirst(f, f[k])
      BY <1>1, <2>4
    <3> HIDE DEF d
    <3>2. /\ d \in Seq(S) /\ Len(d) = Len(f) - 1
          /\ \A i \in 1..(k - 1) : d[i] = f[i]
          /\ \A i \in k..(Len(f) - 1) : d[i] = f[i + 1]
      BY <1>1, <1>2, <3>1, RemoveAtPlace
    <3> QED BY <1>1, <3>2
  <2> HIDE DEF c, d
  <2>6. Len(c) # 0 /\ Len(c) = n - 1
    BY <1>n, <2>2, <2>3
  <2>7. c # <<>>
    BY <2>2, <2>6, EmptySeq
  <2>8. /\ Last(c) = c[Len(c)]
        /\ Front(c) \in Seq(S) /\ Len(Front(c)) = Len(c) - 1
        /\ \A i \in 1..(Len(c) - 1) : Front(c)[i] = c[i]
    BY <2>2, <2>7, EndOfList
  <2>9. Last(c) = Last(s)
    <3>1. n - 1 \in k..(n - 1) /\ (n - 1) + 1 = n
      BY <1>n, <2>3
    <3>2. c[n - 1] = s[(n - 1) + 1]
      BY <2>2, <3>1
    <3> QED BY <1>n, <2>6, <2>8, <3>1, <3>2
  <2>10. ASSUME NEW i \in 1..(n - 2) PROVE Front(c)[i] = d[i]
    <3>1. /\ i \in 1..(Len(c) - 1) /\ i \in 1..(n - 1) /\ i + 1 \in 1..(n - 1)
          /\ Front(c)[i] = c[i] /\ f[i] = s[i] /\ f[i + 1] = s[i + 1]
      BY <1>n, <1>1, <2>6, <2>8
    <3>2. CASE i < k
      <4>1. i \in 1..(k - 1)
        BY <2>3, <3>2
      <4> QED BY <2>2, <2>5, <3>1, <4>1
    <3>3. CASE i >= k
      <4>1. i \in k..(n - 1) /\ i \in k..((n - 1) - 1)
        BY <1>n, <1>1, <2>3, <3>3
      <4> QED BY <2>2, <2>5, <3>1, <4>1
    <3> QED BY <2>3, <3>2, <3>3
  <2>11. Len(Front(c)) = n - 2 /\ Len(d) = n - 2
    BY <1>n, <1>1, <2>5, <2>6, <2>8
  <2>12. Front(c) = d
    BY <2>5, <2>8, <2>10, <2>11, SeqEqual
  <2> QED BY <2>7, <2>9, <2>12 DEF c, d, f
<1> QED BY <1>3, <1>4

\* A list in which nobody is named twice is no longer than the set it is from.
LEMMA ListLength ==
  ASSUME NEW S, IsFiniteSet(S), NEW s \in Seq(S), IsInjective(s)
  PROVE  Len(s) <= Cardinality(S)
<1>1. Len(s) \in Nat /\ DOMAIN s = 1..Len(s) /\ s \in [1..Len(s) -> S]
  BY LenProperties
<1>2. s \in Injection(1..Len(s), S)
  BY <1>1 DEF IsInjective, Injection, IsInjective
<1>3. Cardinality(1..Len(s)) <= Cardinality(S)
  BY <1>2, FS_Injection
<1>4. Cardinality(1..Len(s)) = Len(s)
  BY <1>1, FS_Interval
<1> QED BY <1>3, <1>4

LEMMA PrefixList ==
  ASSUME NEW S, NEW s \in Seq(S), IsInjective(s), NEW m \in 1..Len(s)
  PROVE  /\ SubSeq(s, 1, m) \in Seq(S) /\ Len(SubSeq(s, 1, m)) = m
         /\ DOMAIN SubSeq(s, 1, m) = 1..m
         /\ \A i \in 1..m : SubSeq(s, 1, m)[i] = s[i]
         /\ IsInjective(SubSeq(s, 1, m))
<1> DEFINE c == SubSeq(s, 1, m)
<1>1. Len(s) \in Nat /\ DOMAIN s = 1..Len(s) /\ \A i \in 1..Len(s) : s[i] \in S
  BY LenProperties
<1>2. /\ c \in Seq(S) /\ Len(c) = IF 1 <= m THEN m - 1 + 1 ELSE 0
      /\ \A i \in 1..(m - 1 + 1) : c[i] = s[1 + i - 1]
  <2>1. \A i \in 1..m : s[i] \in S
    BY <1>1
  <2> QED BY <2>1, SubSeqProperties
<1> HIDE DEF c
<1>3. Len(c) = m /\ \A i \in 1..m : c[i] = s[i]
  <2>1. m - 1 + 1 = m /\ 1 <= m /\ \A i \in 1..m : 1 + i - 1 = i
    OBVIOUS
  <2> QED BY <1>2, <2>1
<1>4. DOMAIN c = 1..m
  BY <1>2, <1>3, LenProperties
<1>5. IsInjective(c)
  BY <1>1, <1>3, <1>4 DEF IsInjective
<1> QED BY <1>2, <1>3, <1>4, <1>5 DEF c

LEMMA BoundedLists ==
  ASSUME NEW S, NEW n \in Nat, NEW s
  PROVE  s \in BoundedSeq(S, n) <=> s \in Seq(S) /\ Len(s) <= n
<1>1. ASSUME s \in BoundedSeq(S, n) PROVE s \in Seq(S) /\ Len(s) <= n
  <2>1. PICK m \in 0..n : s \in [1..m -> S]
    BY <1>1 DEF BoundedSeq, SeqOf
  <2>2. s \in Seq(S)
    BY <2>1, IsASeq
  <2>3. Len(s) = m
    BY <2>1, <2>2, LenProperties
  <2> QED BY <2>1, <2>2, <2>3
<1>2. ASSUME s \in Seq(S), Len(s) <= n PROVE s \in BoundedSeq(S, n)
  <2>1. Len(s) \in 0..n /\ s \in [1..Len(s) -> S]
    BY <1>2, LenProperties
  <2> QED BY <2>1 DEF BoundedSeq, SeqOf
<1> QED BY <1>1, <1>2

-----------------------------------------------------------------------------
(* The invariant, step by step.                                            *)

LEMMA ListTypes ==
  /\ Cardinality(Threads) \in Nat
  /\ \A s : s \in BoundedSeq(Threads, Cardinality(Threads))
               <=> s \in Seq(Threads) /\ Len(s) <= Cardinality(Threads)
<1>1. Cardinality(Threads) \in Nat
  BY ConditionAssumption, FS_CardinalityType
<1> QED BY <1>1, BoundedLists

LEMMA TypeFacts ==
  ASSUME TypeOK
  PROVE  /\ waiters \in Seq(Threads) /\ Len(waiters) <= Cardinality(Threads)
         /\ \A n \in Threads : batch[n] \in Seq(Threads) /\ Len(batch[n]) <= Cardinality(Threads)
         /\ \A u \in ToSet(waiters) : u \in Threads
<1>1. /\ waiters \in Seq(Threads) /\ Len(waiters) <= Cardinality(Threads)
      /\ \A n \in Threads : batch[n] \in Seq(Threads) /\ Len(batch[n]) <= Cardinality(Threads)
  BY ListTypes DEF TypeOK
<1> QED BY <1>1, ListMembers

\* While its owner runs outside wait(), or has not copied the deque yet, nobody
\* else is inside them with the lock, no snapshot is being worked through and all
\* that are listed wait, but for what an interrupt has left.
LEMMA Quiet ==
  ASSUME IInv, NEW t \in Threads, owner = t, pc[t] \in {"run", "slice"}
  PROVE  /\ \A n \in Threads : pc[n] \notin {"save", "notify", "remove"} /\ batch[n] = <<>>
         /\ \A n \in Threads \ {t} : pc[n] # "slice"
         /\ \A u \in ToSet(waiters) : \/ waiter[u] = "locked" /\ pc[u] \in {"block", "expired"}
                                      \/ u = use.main /\ waiter[u] = "none"
<1>1. /\ \A n \in Threads : pc[n] \notin {"save", "notify", "remove"}
      /\ \A n \in Threads \ {t} : pc[n] # "slice"
  BY DEF IInv, LockSound
<1>2. \A n \in Threads : batch[n] = <<>>
  BY <1>1 DEF IInv, BatchSound
<1>3. \A u \in ToSet(waiters) : \/ waiter[u] = "locked" /\ pc[u] \in {"block", "expired"}
                                \/ u = use.main /\ waiter[u] = "none"
  BY <1>1, TypeFacts DEF IInv, ListSound
<1> QED BY <1>1, <1>2, <1>3

LEMMA MayCallOwns ==
  ASSUME Careful, IInv, NEW t \in Threads, MayCall(t), IsOwned(t)
  PROVE  owner = t /\ pc[t] = "run"
BY DEF Careful, IInv, TypeOK, MayCall, IsOwned

\* Only one thread at a time works through a snapshot.
LEMMA OneNotifier ==
  ASSUME IInv, NEW n \in Threads, pc[n] \in {"notify", "remove"}
  PROVE  /\ owner = n
         /\ \A m \in Threads \ {n} : pc[m] \notin {"save", "slice", "notify", "remove"} /\ batch[m] = <<>>
         /\ batch[n] # <<>> /\ batch[n] \in Seq(Threads) /\ IsInjective(batch[n])
         /\ Head(batch[n]) \in Threads
<1>1. owner = n /\ \A m \in Threads \ {n} : pc[m] \notin {"save", "slice", "notify", "remove"}
  BY DEF IInv, LockSound
<1>2. batch[n] # <<>> /\ IsInjective(batch[n]) /\ \A m \in Threads \ {n} : batch[m] = <<>>
  BY <1>1 DEF IInv, BatchSound
<1>3. batch[n] \in Seq(Threads)
  BY TypeFacts DEF IInv
<1> QED BY <1>1, <1>2, <1>3, EndOfList

\* Steps that leave the snapshots alone, list nobody and release nobody.
LEMMA BatchesKept ==
  ASSUME TypeOK, BatchSound, batch' = batch,
         \A n \in Threads : (pc'[n] \in {"notify", "remove"} <=> pc[n] \in {"notify", "remove"})
                           /\ (pc[n] = "remove" <=> pc'[n] = "remove"),
         \A x, y \in Threads : Before(x, y)' => Before(x, y),
         \A u \in Threads : /\ waiter'[u] = "released" => waiter[u] = "released"
                            /\ waiter'[u] = "locked" => waiter[u] = "locked"
  PROVE  BatchSound'
<1> SUFFICES ASSUME NEW n \in Threads
             PROVE  /\ batch[n] # <<>> <=> pc'[n] \in {"notify", "remove"}
                    /\ IsInjective(batch[n])
                    /\ \A i \in DOMAIN batch[n] : \A x \in Threads :
                         Before(x, batch[n][i])' => \E j \in 1..(i - 1) : batch[n][j] = x
                    /\ \A i \in DOMAIN batch[n] :
                         waiter'[batch[n][i]] = "released" => i = 1 /\ pc'[n] = "remove"
                    /\ pc'[n] = "remove" => waiter'[Head(batch[n])] # "locked"
  BY DEF BatchSound
<1>1. /\ batch[n] # <<>> <=> pc'[n] \in {"notify", "remove"}
      /\ IsInjective(batch[n])
  BY DEF BatchSound
<1>2. batch[n] \in Seq(Threads) /\ \A i \in DOMAIN batch[n] : batch[n][i] \in Threads
  BY TypeFacts, ListMembers
<1>3. ASSUME NEW i \in DOMAIN batch[n], NEW x \in Threads, Before(x, batch[n][i])'
      PROVE  \E j \in 1..(i - 1) : batch[n][j] = x
  <2>1. PICK b \in Threads : b = batch[n][i]
    BY <1>2
  <2>2. Before(x, b)'
    BY <1>3, <2>1 DEF Before
  <2>3. Before(x, batch[n][i])
    BY <2>1, <2>2
  <2> QED BY <2>3 DEF BatchSound
<1>4. \A i \in DOMAIN batch[n] :
         waiter'[batch[n][i]] = "released" => i = 1 /\ pc'[n] = "remove"
  BY <1>2 DEF BatchSound
<1>5. pc'[n] = "remove" => waiter'[Head(batch[n])] # "locked"
  <2>1. pc'[n] = "remove" => Head(batch[n]) \in Threads
    BY <1>1, <1>2, EndOfList
  <2> QED BY <2>1 DEF BatchSound
<1> QED BY <1>1, <1>3, <1>4, <1>5

LEMMA LockStepKeeps ==
  ASSUME IInv, NEW t \in Threads, Acquire(t) \/ Release(t)
  PROVE  IInv'
<1>1. UNCHANGED <<use, waiters, waiter, pc, timed, saved, batch, stale>>
  BY DEF Acquire, Release
<1>2. \/ owner' = t /\ count' \in 1..MaxDepth /\ (owner = None \/ owner = t)
      \/ owner = t /\ owner' = None /\ count' = 0
  BY ConditionAssumption DEF IInv, TypeOK, LockSound, Acquire, Release
<1>3. pc[t] = "run"
  BY DEF Acquire, Release
<1>4. TypeOK'
  BY <1>1, <1>2, ConditionAssumption DEF IInv, TypeOK
<1>5. LockSound'
  BY <1>1, <1>2, <1>3, ConditionAssumption DEF IInv, LockSound
<1>6. ListSound'
  BY <1>1 DEF IInv, ListSound
<1>7. BatchSound'
  BY <1>1 DEF IInv, BatchSound, Before
<1>8. NoError'
  BY <1>1 DEF IInv, NoError
<1> QED BY <1>4, <1>5, <1>6, <1>7, <1>8 DEF IInv

LEMMA WaitKeeps ==
  ASSUME Careful, IInv, NEW t \in Threads, NEW hasTimeout \in BOOLEAN, Wait(t, hasTimeout)
  PROVE  IInv'
<1>1. owner = t /\ pc[t] = "run"
  BY MayCallOwns DEF Wait
<1>2. /\ \A n \in Threads : pc[n] \notin {"save", "slice", "notify", "remove"} /\ batch[n] = <<>>
      /\ \A u \in ToSet(waiters) : \/ waiter[u] = "locked" /\ pc[u] \in {"block", "expired"}
                                   \/ u = use.main /\ waiter[u] = "none"
      /\ t \notin ToSet(waiters)
  <2>1. t \notin ToSet(waiters)
    BY TypeFacts, ListMembers DEF Wait, Contains, IInv
  <2> QED BY <1>1, <2>1, Quiet
<1>3. /\ use' = use /\ owner' = owner /\ count' = count /\ saved' = saved /\ batch' = batch
      /\ waiters' = Append(waiters, t)
      /\ waiter' = [waiter EXCEPT ![t] = "locked"]
      /\ timed' = [timed EXCEPT ![t] = hasTimeout]
      /\ pc' = [pc EXCEPT ![t] = "save"]
      /\ stale' = {}
  <2>1. stale = {} /\ Slicing = {}
    BY <1>2 DEF IInv, TypeOK, Slicing
  <2> QED BY <2>1 DEF Wait
<1>4. /\ waiter' \in [Threads -> {"none", "locked", "released"}] /\ waiter'[t] = "locked"
      /\ \A u \in Threads \ {t} : waiter'[u] = waiter[u] /\ pc'[u] = pc[u]
      /\ pc'[t] = "save" /\ timed' \in [Threads -> BOOLEAN]
      /\ pc' \in [Threads -> {"run", "save", "block", "expired", "restore",
                             "slice", "notify", "remove", "error"}]
  BY <1>3 DEF IInv, TypeOK
<1>5. /\ waiters' \in Seq(Threads) /\ IsInjective(waiters')
      /\ ToSet(waiters') = ToSet(waiters) \cup {t} /\ Last(waiters') = t
  BY <1>2, <1>3, TypeFacts, AppendList, FrontAppend DEF IInv, ListSound
<1>6. waiters' \in BoundedSeq(Threads, Cardinality(Threads))
  BY <1>5, ListTypes, ListLength, ConditionAssumption
<1>7. TypeOK'
  BY <1>3, <1>4, <1>6 DEF IInv, TypeOK
<1>8. LockSound'
  BY <1>1, <1>3, <1>4 DEF IInv, LockSound
<1>9. ListSound'
  <2>1. ASSUME NEW u \in Threads
        PROVE  /\ waiter'[u] = "locked" => u \in ToSet(waiters') /\ pc'[u] \in {"save", "block", "expired"}
               /\ waiter'[u] = "released" => pc'[u] \in {"block", "expired"}
               /\ pc'[u] \in {"block", "expired"} => waiter'[u] # "none"
               /\ pc'[u] = "save" => waiter'[u] = "locked" /\ Last(waiters') = u
               /\ pc'[u] # "slice"
    BY <1>2, <1>4, <1>5 DEF IInv, ListSound
  <2>2. ASSUME NEW u \in ToSet(waiters')
        PROVE  waiter'[u] = "locked" \/ (u = use.main /\ waiter'[u] = "none")
    <3>1. CASE u = t
      BY <1>4, <3>1
    <3>2. CASE u # t
      <4>1. u \in ToSet(waiters) /\ u \in Threads
        BY <1>5, <2>2, <3>2, TypeFacts DEF IInv
      <4> QED BY <1>2, <1>4, <3>2, <4>1
    <3> QED BY <3>1, <3>2
  <2> QED BY <1>3, <1>5, <2>1, <2>2 DEF ListSound
<1>10. BatchSound'
  <2>1. DOMAIN << >> = {} /\ IsInjective(<< >>)
    BY DEF IsInjective
  <2>2. \A n \in Threads : pc'[n] \notin {"notify", "remove"}
    BY <1>2, <1>4
  <2> QED BY <1>2, <1>3, <2>1, <2>2 DEF BatchSound
<1>11. NoError'
  BY <1>4 DEF IInv, NoError
<1> QED BY <1>7, <1>8, <1>9, <1>10, <1>11 DEF IInv

LEMMA ReleaseSaveKeeps ==
  ASSUME IInv, NEW t \in Threads, ReleaseSave(t)
  PROVE  IInv'
<1>1. owner = t /\ pc[t] = "save" /\ count \in 1..MaxDepth /\ owner # None
  BY ConditionAssumption DEF ReleaseSave, IInv, LockSound, TypeOK
<1>2. /\ use' = use /\ waiters' = waiters /\ waiter' = waiter /\ timed' = timed /\ batch' = batch
      /\ stale' = stale /\ owner' = None /\ count' = 0
      /\ saved' = [saved EXCEPT ![t] = count] /\ pc' = [pc EXCEPT ![t] = "block"]
  BY <1>1 DEF ReleaseSave
<1>3. /\ saved' \in [Threads -> 0..MaxDepth] /\ saved'[t] = count
      /\ \A u \in Threads \ {t} : saved'[u] = saved[u] /\ pc'[u] = pc[u]
      /\ pc'[t] = "block"
      /\ pc' \in [Threads -> {"run", "save", "block", "expired", "restore",
                             "slice", "notify", "remove", "error"}]
  BY <1>1, <1>2, ConditionAssumption DEF IInv, TypeOK
<1>4. TypeOK'
  BY <1>1, <1>2, <1>3, ConditionAssumption DEF IInv, TypeOK
<1>5. \A u \in Threads \ {t} : pc[u] \notin {"save", "slice", "notify", "remove"}
  BY <1>1 DEF IInv, LockSound
<1>6. LockSound'
  BY <1>1, <1>2, <1>3, <1>5 DEF IInv, LockSound
<1>7. ListSound'
  BY <1>1, <1>2, <1>3, <1>5, TypeFacts DEF IInv, ListSound
<1>8. BatchSound'
  <2>1. \A x, y \in Threads : Before(x, y)' => Before(x, y)
    BY <1>2 DEF Before
  <2> QED BY <1>1, <1>2, <1>3, <2>1, BatchesKept DEF IInv
<1>9. NoError'
  BY <1>3 DEF IInv, NoError
<1> QED BY <1>4, <1>6, <1>7, <1>8, <1>9 DEF IInv

\* Steps of a wait() that is on its way back: WaiterAcquired, Expire, Interrupt and
\* AcquireRestore.
BackStep(t) == WaiterAcquired(t) \/ Expire(t) \/ Interrupt(t) \/ AcquireRestore(t)

LEMMA BackStepKeeps ==
  ASSUME IInv, NEW t \in Threads, BackStep(t)
  PROVE  IInv'
<1>1. /\ pc[t] \in {"block", "expired", "restore"}
      /\ waiters' = waiters /\ use' = use /\ batch' = batch /\ stale' = stale
  BY DEF BackStep, WaiterAcquired, Expire, Interrupt, AcquireRestore
<1>2. /\ timed' \in [Threads -> BOOLEAN] /\ saved' \in [Threads -> 0..MaxDepth]
      /\ owner' \in Threads \cup {None} /\ count' \in 0..MaxDepth
      /\ waiter' \in [Threads -> {"none", "locked", "released"}]
      /\ pc' \in [Threads -> {"run", "save", "block", "expired", "restore",
                             "slice", "notify", "remove", "error"}]
  <2>1. CASE WaiterAcquired(t)
    BY <2>1 DEF IInv, TypeOK, WaiterAcquired
  <2>2. CASE Expire(t)
    BY <2>2 DEF IInv, TypeOK, Expire
  <2>3. CASE AcquireRestore(t)
    BY <2>3, ConditionAssumption DEF IInv, TypeOK, AcquireRestore
  <2>4. CASE Interrupt(t)
    BY <2>4 DEF IInv, TypeOK, Interrupt
  <2> QED BY <2>1, <2>2, <2>3, <2>4 DEF BackStep
<1>3. \A u \in Threads \ {t} : pc'[u] = pc[u] /\ waiter'[u] = waiter[u] /\ saved'[u] = saved[u]
  BY DEF BackStep, IInv, TypeOK, WaiterAcquired, Expire, Interrupt, AcquireRestore
<1>4. \/ /\ pc[t] = "block" /\ waiter[t] = "released" /\ waiter'[t] = "none" /\ pc'[t] = "restore"
         /\ owner' = owner /\ count' = count /\ saved'[t] = saved[t]
      \/ /\ pc[t] = "block" /\ waiter[t] = "locked" /\ waiter'[t] = "locked" /\ pc'[t] = "expired"
         /\ owner' = owner /\ count' = count /\ saved'[t] = saved[t]
      \/ /\ pc[t] \in {"block", "expired"} /\ waiter'[t] = "none" /\ pc'[t] = "restore"
         /\ t = use.main /\ owner' = owner /\ count' = count /\ saved'[t] = saved[t]
      \/ /\ pc[t] = "restore" /\ waiter'[t] = waiter[t] /\ pc'[t] = "run"
         /\ owner = None /\ owner' = t /\ count' = saved[t]
  BY DEF BackStep, IInv, TypeOK, WaiterAcquired, Expire, Interrupt, AcquireRestore
<1>5. pc'[t] \notin {"save", "slice", "notify", "remove"} /\ pc[t] \notin {"save", "slice", "notify", "remove"}
  BY <1>1, <1>4
<1>6. TypeOK'
  BY <1>1, <1>2, <1>3, <1>5 DEF IInv, TypeOK
<1>7. LockSound'
  <2>1. owner' = None <=> count' = 0
    BY <1>4, ConditionAssumption DEF IInv, LockSound
  <2>2. \A u \in Threads : pc'[u] \in {"save", "slice", "notify", "remove"} => owner' = u
    BY <1>3, <1>4, <1>5, ConditionAssumption DEF IInv, LockSound
  <2>3. \A u \in Threads : pc'[u] \in {"block", "expired", "restore"} => saved'[u] > 0
    BY <1>3, <1>4 DEF IInv, LockSound
  <2> QED BY <2>1, <2>2, <2>3 DEF LockSound
<1>8. ListSound'
  <2>1. ASSUME NEW u \in Threads
        PROVE  /\ waiter'[u] = "locked" => u \in ToSet(waiters) /\ pc'[u] \in {"save", "block", "expired"}
               /\ waiter'[u] = "released" => pc'[u] \in {"block", "expired"}
               /\ pc'[u] \in {"block", "expired"} => waiter'[u] # "none"
               /\ pc'[u] = "save" => waiter'[u] = "locked" /\ Last(waiters) = u
    <3>1. CASE u = t
      BY <1>4, <3>1 DEF IInv, ListSound
    <3>2. CASE u # t
      BY <1>3, <3>2 DEF IInv, ListSound
    <3> QED BY <3>1, <3>2
  <2>2. ASSUME NEW u \in ToSet(waiters), waiter'[u] # "locked"
        PROVE  \/ \E n \in Threads : pc'[n] = "remove" /\ Head(batch[n]) = u
               \/ u = use.main /\ waiter'[u] = "none"
    <3>1. u \in Threads
      BY <2>2, TypeFacts DEF IInv
    <3>2. CASE waiter[u] = "locked"
      BY <1>3, <1>4, <2>2, <3>1, <3>2
    <3>3. CASE \E n \in Threads : pc[n] = "remove" /\ Head(batch[n]) = u
      BY <1>3, <1>5, <3>3
    <3>4. CASE u = use.main /\ waiter[u] = "none"
      BY <1>3, <1>4, <2>2, <3>1, <3>4
    <3> QED BY <2>2, <3>2, <3>3, <3>4 DEF IInv, ListSound
  <2>3. \A u \in Threads : pc'[u] = "slice" /\ u \notin stale => waiters # <<>>
    BY <1>3, <1>5 DEF IInv, ListSound
  <2> QED BY <1>1, <2>1, <2>2, <2>3 DEF IInv, ListSound
<1>9. BatchSound'
  <2>1. \A x, y \in Threads : Before(x, y)' => Before(x, y)
    BY <1>1 DEF Before
  <2>2. \A n \in Threads : /\ pc'[n] \in {"notify", "remove"} <=> pc[n] \in {"notify", "remove"}
                           /\ pc[n] = "remove" <=> pc'[n] = "remove"
    BY <1>3, <1>5
  <2>3. \A u \in Threads : /\ waiter'[u] = "released" => waiter[u] = "released"
                           /\ waiter'[u] = "locked" => waiter[u] = "locked"
    BY <1>3, <1>4
  <2> QED BY <1>1, <2>1, <2>2, <2>3, BatchesKept DEF IInv
<1>10. NoError'
  BY <1>3, <1>4 DEF IInv, NoError
<1> QED BY <1>6, <1>7, <1>8, <1>9, <1>10 DEF IInv

\* The removal without the lock: whatever notify() is doing, its order stands.
LEMMA RemoveSelfKeeps ==
  ASSUME IInv, NEW t \in Threads, RemoveSelf(t)
  PROVE  IInv'
<1>1. /\ pc[t] = "expired"
      /\ use' = use /\ owner' = owner /\ count' = count /\ timed' = timed
      /\ saved' = saved /\ batch' = batch
      /\ waiters' = RemoveFirst(waiters, t) /\ stale' = StaleAfterRemove(t)
  BY DEF RemoveSelf, Unlist
<1>2. /\ waiter' \in [Threads -> {"none", "locked", "released"}] /\ waiter'[t] = "none"
      /\ \A u \in Threads \ {t} : waiter'[u] = waiter[u] /\ pc'[u] = pc[u]
      /\ pc'[t] = "restore"
      /\ pc' \in [Threads -> {"run", "save", "block", "expired", "restore",
                             "slice", "notify", "remove", "error"}]
  BY DEF RemoveSelf, IInv, TypeOK
<1>3. /\ waiters' \in Seq(Threads) /\ IsInjective(waiters') /\ Len(waiters') <= Len(waiters)
      /\ ToSet(waiters') = ToSet(waiters) \ {t}
      /\ \A a, b : Precedes(waiters', a, b) => Precedes(waiters, a, b)
  <2>1. waiters \in Seq(Threads) /\ IsInjective(waiters)
    BY TypeFacts DEF IInv, ListSound
  <2> QED BY <1>1, <2>1, RemoveList
<1>4. waiters' \in BoundedSeq(Threads, Cardinality(Threads))
  BY <1>3, ListTypes, ListLength, ConditionAssumption
<1>5. TypeOK'
  <2>1. stale' \subseteq {u \in Threads : pc'[u] = "slice"}
    BY <1>1, <1>2 DEF IInv, TypeOK, StaleAfterRemove, Slicing
  <2> QED BY <1>1, <1>2, <1>4, <2>1 DEF IInv, TypeOK
<1>6. LockSound'
  BY <1>1, <1>2 DEF IInv, LockSound
<1>7. ListSound'
  <2>1. ASSUME NEW u \in Threads
        PROVE  /\ waiter'[u] = "locked" => u \in ToSet(waiters') /\ pc'[u] \in {"save", "block", "expired"}
               /\ waiter'[u] = "released" => pc'[u] \in {"block", "expired"}
               /\ pc'[u] \in {"block", "expired"} => waiter'[u] # "none"
    BY <1>2, <1>3 DEF IInv, ListSound
  <2>2. ASSUME NEW u \in Threads, pc'[u] = "save"
        PROVE  waiter'[u] = "locked" /\ Last(waiters') = u
    <3>1. u # t /\ pc[u] = "save" /\ waiter'[u] = waiter[u]
      BY <1>2, <2>2
    <3>2. waiter[u] = "locked" /\ Last(waiters) = u /\ u \in ToSet(waiters)
      BY <3>1 DEF IInv, ListSound
    <3>3. waiters \in Seq(Threads) /\ IsInjective(waiters) /\ waiters # <<>>
      BY <3>2, TypeFacts, ListMembers DEF IInv, ListSound
    <3>4. Last(RemoveFirst(waiters, t)) = Last(waiters)
      BY <3>1, <3>2, <3>3, RemoveBeforeLast
    <3> QED BY <1>1, <3>1, <3>2, <3>4
  <2>3. ASSUME NEW u \in ToSet(waiters'), waiter'[u] # "locked"
        PROVE  \/ \E n \in Threads : pc'[n] = "remove" /\ Head(batch[n]) = u
               \/ u = use.main /\ waiter'[u] = "none"
    <3>1. u \in ToSet(waiters) /\ u \in Threads \ {t} /\ waiter[u] # "locked"
      BY <1>2, <1>3, <2>3, TypeFacts DEF IInv
    <3>2. \/ \E n \in Threads : pc[n] = "remove" /\ Head(batch[n]) = u
          \/ u = use.main /\ waiter[u] = "none"
      BY <3>1 DEF IInv, ListSound
    <3> QED BY <1>1, <1>2, <3>1, <3>2
  <2>4. ASSUME NEW u \in Threads, pc'[u] = "slice", u \notin stale'
        PROVE  waiters' # <<>>
    <3>1. pc[u] = "slice" /\ u \notin stale /\ ~Turned(t)
      BY <1>1, <1>2, <2>4 DEF StaleAfterRemove, Slicing
    <3>2. waiters # <<>>
      BY <3>1 DEF IInv, ListSound
    <3>3. RemoveFirst(waiters, t) = waiters
      BY <3>1 DEF Turned, Contains, RemoveFirst
    <3> QED BY <1>1, <3>2, <3>3
  <2> QED BY <1>1, <1>3, <2>1, <2>2, <2>3, <2>4 DEF ListSound
<1>8. BatchSound'
  <2>1. \A x, y \in Threads : Before(x, y)' => Before(x, y)
    BY <1>3 DEF Before, Precedes
  <2>2. \A n \in Threads : /\ pc'[n] \in {"notify", "remove"} <=> pc[n] \in {"notify", "remove"}
                           /\ pc[n] = "remove" <=> pc'[n] = "remove"
    BY <1>1, <1>2
  <2>3. \A u \in Threads : /\ waiter'[u] = "released" => waiter[u] = "released"
                           /\ waiter'[u] = "locked" => waiter[u] = "locked"
    BY <1>2
  <2> QED BY <1>1, <2>1, <2>2, <2>3, BatchesKept DEF IInv
<1>9. NoError'
  BY <1>2 DEF IInv, NoError
<1> QED BY <1>5, <1>6, <1>7, <1>8, <1>9 DEF IInv

LEMMA SliceKeeps ==
  ASSUME Careful, IInv, NEW t \in Threads, Slice(t) \/ SnapshotRaises(t)
  PROVE  IInv'
<1>1. owner = t /\ owner # None
  <2>1. CASE Slice(t)
    BY <2>1, MayCallOwns, ConditionAssumption DEF Slice
  <2>2. CASE SnapshotRaises(t)
    BY <2>2, ConditionAssumption DEF SnapshotRaises, IInv, LockSound
  <2> QED BY <2>1, <2>2
<1>2. /\ UNCHANGED <<use, owner, count, waiters, waiter, timed, saved, batch>>
      /\ \/ pc[t] = "run" /\ pc'[t] = "slice" /\ waiters # <<>> /\ stale' = stale
         \/ pc[t] = "slice" /\ pc'[t] = "run" /\ stale' = stale \ {t}
      /\ \A u \in Threads \ {t} : pc'[u] = pc[u]
      /\ pc' \in [Threads -> {"run", "save", "block", "expired", "restore",
                             "slice", "notify", "remove", "error"}]
  BY DEF Slice, SnapshotRaises, MayCall, IInv, TypeOK
<1>3. TypeOK'
  BY <1>2 DEF IInv, TypeOK
<1>4. LockSound'
  BY <1>1, <1>2 DEF IInv, LockSound
<1>5. ListSound'
  <2>1. ASSUME NEW u \in Threads
        PROVE  /\ waiter[u] = "locked" => u \in ToSet(waiters) /\ pc'[u] \in {"save", "block", "expired"}
               /\ waiter[u] = "released" => pc'[u] \in {"block", "expired"}
               /\ pc'[u] \in {"block", "expired"} => waiter[u] # "none"
               /\ pc'[u] = "save" => waiter[u] = "locked" /\ Last(waiters) = u
               /\ pc'[u] = "slice" /\ u \notin stale' => waiters # <<>>
    BY <1>2 DEF IInv, ListSound
  <2>2. ASSUME NEW u \in ToSet(waiters)
        PROVE  \/ waiter[u] = "locked"
               \/ \E n \in Threads : pc'[n] = "remove" /\ Head(batch[n]) = u
               \/ u = use.main /\ waiter[u] = "none"
    BY <1>2 DEF IInv, ListSound
  <2> QED BY <1>2, <2>1, <2>2 DEF IInv, ListSound
<1>6. BatchSound'
  <2>1. \A x, y \in Threads : Before(x, y)' => Before(x, y)
    BY <1>2 DEF Before
  <2> QED BY <1>2, <2>1, BatchesKept DEF IInv
<1>7. NoError'
  BY <1>2 DEF IInv, NoError
<1> QED BY <1>3, <1>4, <1>5, <1>6, <1>7 DEF IInv

LEMMA SnapshotKeeps ==
  ASSUME IInv, NEW t \in Threads, NEW n \in 1..Cardinality(Threads), Snapshot(t, n)
  PROVE  IInv'
<1>1. owner = t /\ pc[t] = "slice" /\ t \notin stale /\ waiters # <<>>
  BY DEF Snapshot, IInv, LockSound, ListSound
<1>2. /\ \A m \in Threads : pc[m] \notin {"save", "notify", "remove"} /\ batch[m] = <<>>
      /\ \A m \in Threads \ {t} : pc[m] # "slice"
      /\ \A u \in ToSet(waiters) : \/ waiter[u] = "locked" /\ pc[u] \in {"block", "expired"}
                                   \/ u = use.main /\ waiter[u] = "none"
  BY <1>1, Quiet
<1>3. waiters \in Seq(Threads) /\ IsInjective(waiters) /\ Len(waiters) <= Cardinality(Threads)
      /\ Len(waiters) \in Nat \ {0} /\ DOMAIN waiters = 1..Len(waiters)
  BY <1>1, TypeFacts, EndOfList DEF IInv, ListSound
<1>4. PICK b : b = Oldest(n)
  OBVIOUS
<1>5. PICK m \in 1..Len(waiters) : b = SubSeq(waiters, 1, m)
  <2>1. \A a, l \in Nat \ {0} : (IF a < l THEN a ELSE l) \in 1..l
    OBVIOUS
  <2>2. n \in Nat \ {0}
    BY ListTypes
  <2>3. (IF n < Len(waiters) THEN n ELSE Len(waiters)) \in 1..Len(waiters)
    BY <1>3, <2>1, <2>2
  <2> QED BY <1>4, <2>3 DEF Oldest
<1>6. /\ b \in Seq(Threads) /\ Len(b) = m /\ DOMAIN b = 1..m /\ IsInjective(b)
      /\ \A i \in 1..m : b[i] = waiters[i]
  BY <1>3, <1>5, PrefixList
<1>7. b # <<>> /\ b \in BoundedSeq(Threads, Cardinality(Threads))
  BY <1>3, <1>6, ListTypes
<1>8. /\ use' = use /\ owner' = owner /\ count' = count /\ waiters' = waiters
      /\ waiter' = waiter /\ timed' = timed /\ saved' = saved
      /\ batch' = [batch EXCEPT ![t] = b] /\ pc' = [pc EXCEPT ![t] = "notify"]
      /\ stale' = stale
  BY <1>4 DEF Snapshot
<1>9. /\ batch' \in [Threads -> BoundedSeq(Threads, Cardinality(Threads))] /\ batch'[t] = b
      /\ \A u \in Threads \ {t} : batch'[u] = batch[u] /\ pc'[u] = pc[u]
      /\ pc'[t] = "notify"
      /\ pc' \in [Threads -> {"run", "save", "block", "expired", "restore",
                             "slice", "notify", "remove", "error"}]
  BY <1>7, <1>8 DEF IInv, TypeOK
<1>10. TypeOK'
  BY <1>1, <1>8, <1>9 DEF IInv, TypeOK
<1>11. LockSound'
  BY <1>1, <1>8, <1>9 DEF IInv, LockSound
<1>12. ListSound'
  BY <1>1, <1>2, <1>8, <1>9 DEF IInv, ListSound
<1>13. BatchSound'
  <2>1. ASSUME NEW u \in Threads \ {t}
        PROVE  batch'[u] = <<>> /\ pc'[u] \notin {"notify", "remove"}
    BY <1>2, <1>9
  <2>2. DOMAIN << >> = {} /\ IsInjective(<< >>)
    BY DEF IsInjective
  <2>3. ASSUME NEW i \in DOMAIN b, NEW x \in Threads, Before(x, b[i])'
        PROVE  \E j \in 1..(i - 1) : b[j] = x
    <3>1. PICK p, q \in 1..Len(waiters) : p < q /\ waiters[p] = x /\ waiters[q] = waiters[i]
      BY <1>3, <1>6, <1>8, <2>3 DEF Before
    <3>2. q = i
      BY <1>3, <1>6, <3>1 DEF IsInjective
    <3>3. p \in 1..(i - 1) /\ p \in 1..m
      BY <1>6, <3>1, <3>2
    <3> QED BY <1>6, <3>1, <3>3
  <2>4. \A i \in DOMAIN b : waiter[b[i]] # "released"
    BY <1>2, <1>3, <1>6, ListMembers
  <2>5. ASSUME NEW u \in Threads
        PROVE  /\ batch'[u] # <<>> <=> pc'[u] \in {"notify", "remove"}
               /\ IsInjective(batch'[u])
               /\ \A i \in DOMAIN batch'[u] : \A x \in Threads :
                    Before(x, batch[u][i])' => \E j \in 1..(i - 1) : batch'[u][j] = x
               /\ \A i \in DOMAIN batch'[u] :
                    waiter'[batch'[u][i]] = "released" => i = 1 /\ pc'[u] = "remove"
               /\ pc'[u] = "remove" => waiter'[Head(batch'[u])] # "locked"
    <3>1. CASE u = t
      <4>1. \A i \in DOMAIN b : \A x \in Threads :
                Before(x, batch[u][i])' => \E j \in 1..(i - 1) : b[j] = x
        BY <1>9, <2>3, <3>1 DEF Before
      <4> QED BY <1>6, <1>7, <1>8, <1>9, <2>4, <3>1, <4>1
    <3>2. CASE u # t
      BY <2>1, <2>2, <3>2
    <3> QED BY <3>1, <3>2
  <2> QED BY <2>5 DEF BatchSound
<1>14. NoError'
  BY <1>9 DEF IInv, NoError
<1> QED BY <1>10, <1>11, <1>12, <1>13, <1>14 DEF IInv

\* waiter.release(): the oldest of the snapshot is never released already.
LEMMA NotifyReleaseKeeps ==
  ASSUME IInv, NEW n \in Threads, NotifyRelease(n)
  PROVE  IInv'
<1>1. pc[n] = "notify"
  BY DEF NotifyRelease
<1>2. PICK w \in Threads : w = Head(batch[n])
  BY <1>1, OneNotifier
<1>3. /\ owner = n
      /\ \A m \in Threads \ {n} : pc[m] \notin {"save", "slice", "notify", "remove"} /\ batch[m] = <<>>
      /\ batch[n] # <<>> /\ batch[n] \in Seq(Threads) /\ IsInjective(batch[n])
  BY <1>1, OneNotifier
<1>4. /\ 1 \in DOMAIN batch[n] /\ batch[n][1] = w /\ DOMAIN batch[n] = 1..Len(batch[n])
      /\ \A i \in DOMAIN batch[n] : batch[n][i] \in Threads
  BY <1>2, <1>3, EndOfList, ListMembers
<1>5. \A i \in DOMAIN batch[n] : waiter[batch[n][i]] # "released"
  BY <1>1 DEF IInv, BatchSound
<1>6. waiter[w] # "released"
  BY <1>4, <1>5
<1>7. /\ use' = use /\ owner' = owner /\ count' = count /\ waiters' = waiters
      /\ timed' = timed /\ saved' = saved /\ batch' = batch /\ stale' = stale
      /\ pc' = [pc EXCEPT ![n] = "remove"]
      /\ waiter' = [waiter EXCEPT ![w] = IF @ = "locked" THEN "released" ELSE @]
  BY <1>2, <1>6 DEF NotifyRelease
<1>8. /\ waiter' \in [Threads -> {"none", "locked", "released"}]
      /\ waiter'[w] = IF waiter[w] = "locked" THEN "released" ELSE waiter[w]
      /\ \A u \in Threads \ {w} : waiter'[u] = waiter[u]
      /\ \A u \in Threads \ {n} : pc'[u] = pc[u]
      /\ pc'[n] = "remove"
      /\ pc' \in [Threads -> {"run", "save", "block", "expired", "restore",
                             "slice", "notify", "remove", "error"}]
  BY <1>7 DEF IInv, TypeOK
<1>9. TypeOK'
  BY <1>1, <1>7, <1>8 DEF IInv, TypeOK
<1>10. LockSound'
  BY <1>3, <1>7, <1>8 DEF IInv, LockSound
<1>11. ListSound'
  <2>1. waiter[w] = "locked" => w # n /\ pc[w] \in {"block", "expired"}
    BY <1>1, <1>3 DEF IInv, ListSound
  <2>2. ASSUME NEW u \in Threads
        PROVE  /\ waiter'[u] = "locked" => u \in ToSet(waiters) /\ pc'[u] \in {"save", "block", "expired"}
               /\ waiter'[u] = "released" => pc'[u] \in {"block", "expired"}
               /\ pc'[u] \in {"block", "expired"} => waiter'[u] # "none"
               /\ pc'[u] # "save"
    <3>1. CASE u = w
      BY <1>1, <1>3, <1>6, <1>8, <2>1, <3>1 DEF IInv, ListSound
    <3>2. CASE u # w
      BY <1>1, <1>3, <1>8, <3>2 DEF IInv, ListSound
    <3> QED BY <3>1, <3>2
  <2>3. ASSUME NEW u \in ToSet(waiters), waiter'[u] # "locked"
        PROVE  \/ \E m \in Threads : pc'[m] = "remove" /\ Head(batch[m]) = u
               \/ u = use.main /\ waiter'[u] = "none"
    <3>1. CASE u = w
      BY <1>2, <1>8, <3>1
    <3>2. CASE u # w
      <4>1. u \in Threads /\ waiter[u] # "locked" /\ waiter'[u] = waiter[u]
        BY <1>8, <2>3, <3>2, TypeFacts DEF IInv
      <4>2. \A m \in Threads : pc[m] # "remove"
        BY <1>1, <1>3
      <4> QED BY <4>1, <4>2 DEF IInv, ListSound
    <3> QED BY <3>1, <3>2
  <2>4. \A u \in Threads : pc'[u] # "slice"
    BY <1>3, <1>8
  <2> QED BY <1>7, <2>2, <2>3, <2>4 DEF IInv, ListSound
<1>12. BatchSound'
  <2>1. DOMAIN << >> = {}
    OBVIOUS
  <2>2. ASSUME NEW i \in DOMAIN batch[n], waiter'[batch[n][i]] = "released"
        PROVE  i = 1
    BY <1>4, <1>5, <1>8, <1>3, <2>2 DEF IsInjective
  <2>3. ASSUME NEW m \in Threads
        PROVE  /\ batch[m] # <<>> <=> pc'[m] \in {"notify", "remove"}
               /\ IsInjective(batch[m])
               /\ \A i \in DOMAIN batch[m] :
                    waiter'[batch[m][i]] = "released" => i = 1 /\ pc'[m] = "remove"
               /\ pc'[m] = "remove" => waiter'[Head(batch[m])] # "locked"
    <3>1. CASE m = n
      BY <1>2, <1>3, <1>6, <1>8, <2>2, <3>1
    <3>2. CASE m # n
      BY <1>3, <1>8, <2>1, <3>2 DEF IInv, BatchSound
    <3> QED BY <3>1, <3>2
  <2>4. ASSUME NEW m \in Threads, NEW i \in DOMAIN batch[m], NEW x \in Threads, Before(x, batch[m][i])'
        PROVE  \E j \in 1..(i - 1) : batch[m][j] = x
    <3>1. Before(x, batch[m][i])
      BY <1>7, <2>4 DEF Before
    <3> QED BY <3>1 DEF IInv, BatchSound
  <2> QED BY <1>7, <2>3, <2>4 DEF BatchSound
<1>13. NoError'
  BY <1>8 DEF IInv, NoError
<1> QED BY <1>9, <1>10, <1>11, <1>12, <1>13 DEF IInv

\* The one that is being served, if it is listed, is at the head of the list.
LEMMA ServedIsHead ==
  ASSUME IInv, NEW n \in Threads, pc[n] \in {"notify", "remove"},
         Head(batch[n]) \in ToSet(waiters)
  PROVE  waiters # <<>> /\ Head(waiters) = Head(batch[n])
<1>1. /\ batch[n] # <<>> /\ batch[n] \in Seq(Threads) /\ Head(batch[n]) \in Threads
  BY OneNotifier
<1>2. PICK w \in Threads : w = Head(batch[n]) /\ 1 \in DOMAIN batch[n] /\ batch[n][1] = w
  BY <1>1, EndOfList
<1>3. waiters \in Seq(Threads) /\ w \in ToSet(waiters) /\ waiters # <<>>
  BY <1>2, TypeFacts, ListMembers DEF IInv
<1>4. Len(waiters) \in Nat \ {0} /\ DOMAIN waiters = 1..Len(waiters) /\ Head(waiters) = waiters[1]
      /\ Head(waiters) \in Threads
  BY <1>3, EndOfList
<1>5. PICK q \in DOMAIN waiters : waiters[q] = w
  BY <1>3 DEF ToSet
<1>6. ASSUME q # 1 PROVE FALSE
  <2>1. 1 \in DOMAIN waiters /\ 1 < q
    BY <1>4, <1>6
  <2>2. Before(Head(waiters), w)
    BY <1>4, <1>5, <2>1 DEF Before
  <2>3. \E j \in 1..(1 - 1) : batch[n][j] = Head(waiters)
    BY <1>2, <1>4, <2>2 DEF IInv, BatchSound
  <2> QED BY <2>3
<1> QED BY <1>2, <1>3, <1>4, <1>5, <1>6

LEMMA NotifyRemoveKeeps ==
  ASSUME IInv, NEW n \in Threads, NotifyRemove(n)
  PROVE  IInv'
<1>1. pc[n] = "remove"
  BY DEF NotifyRemove
<1>2. PICK w \in Threads : w = Head(batch[n])
  BY <1>1, OneNotifier
<1>3. /\ owner = n
      /\ \A m \in Threads \ {n} : pc[m] \notin {"save", "slice", "notify", "remove"} /\ batch[m] = <<>>
      /\ batch[n] # <<>> /\ batch[n] \in Seq(Threads) /\ IsInjective(batch[n])
  BY <1>1, OneNotifier
<1>4. PICK r : r = Tail(batch[n])
  OBVIOUS
<1>5. /\ r \in Seq(Threads) /\ IsInjective(r) /\ Len(batch[n]) \in Nat \ {0}
      /\ Len(r) = Len(batch[n]) - 1 /\ DOMAIN r = 1..Len(r)
      /\ DOMAIN batch[n] = 1..Len(batch[n]) /\ batch[n][1] = w
      /\ \A i \in 1..(Len(batch[n]) - 1) : r[i] = batch[n][i + 1]
      /\ r # <<>> <=> Len(batch[n]) # 1
  <2>1. /\ r \in Seq(Threads) /\ IsInjective(r) /\ Len(batch[n]) \in Nat \ {0}
        /\ Len(r) = Len(batch[n]) - 1 /\ DOMAIN r = 1..Len(r)
        /\ DOMAIN batch[n] = 1..Len(batch[n]) /\ batch[n][1] = w
        /\ \A i \in 1..(Len(batch[n]) - 1) : r[i] = batch[n][i + 1]
    BY <1>2, <1>3, <1>4, EndOfList, TailList, LenProperties
  <2>2. r # <<>> <=> Len(r) # 0
    BY <2>1, EmptySeq
  <2> QED BY <2>1, <2>2
<1>6. Len(batch[n]) <= Cardinality(Threads)
  BY TypeFacts DEF IInv
<1>7. r \in BoundedSeq(Threads, Cardinality(Threads))
  <2>1. \A a, l, c \in Nat : l = a - 1 /\ a <= c => l <= c
    OBVIOUS
  <2>2. Len(r) \in Nat
    BY <1>5, LenProperties
  <2>3. Len(r) <= Cardinality(Threads)
    BY <1>5, <1>6, <2>1, <2>2, ListTypes
  <2> QED BY <1>5, <2>3, ListTypes
<1>8. /\ use' = use /\ owner' = owner /\ count' = count /\ waiter' = waiter
      /\ timed' = timed /\ saved' = saved
      /\ waiters' = RemoveFirst(waiters, w)
      /\ batch' = [batch EXCEPT ![n] = r]
      /\ pc' = [pc EXCEPT ![n] = IF Len(batch[n]) = 1 THEN "run" ELSE "notify"]
      /\ stale' = {}
  <2>1. stale = {} /\ Slicing = {}
    BY <1>1, <1>3 DEF IInv, TypeOK, Slicing
  <2> QED BY <1>2, <1>4, <2>1 DEF NotifyRemove, Unlist, StaleAfterRemove
<1>9. /\ batch' \in [Threads -> BoundedSeq(Threads, Cardinality(Threads))] /\ batch'[n] = r
      /\ \A u \in Threads \ {n} : batch'[u] = batch[u] /\ pc'[u] = pc[u]
      /\ pc'[n] = IF Len(batch[n]) = 1 THEN "run" ELSE "notify"
      /\ pc' \in [Threads -> {"run", "save", "block", "expired", "restore",
                             "slice", "notify", "remove", "error"}]
  BY <1>7, <1>8 DEF IInv, TypeOK
<1>10. /\ waiters' \in Seq(Threads) /\ IsInjective(waiters') /\ Len(waiters') <= Len(waiters)
       /\ ToSet(waiters') = ToSet(waiters) \ {w}
       /\ \A a, b : Precedes(waiters', a, b) => Precedes(waiters, a, b)
  <2>1. waiters \in Seq(Threads) /\ IsInjective(waiters)
    BY TypeFacts DEF IInv, ListSound
  <2> QED BY <1>8, <2>1, RemoveList
<1>11. TypeOK'
  <2>1. waiters' \in BoundedSeq(Threads, Cardinality(Threads))
    BY <1>10, ListTypes, ListLength, ConditionAssumption
  <2> QED BY <1>8, <1>9, <2>1 DEF IInv, TypeOK
<1>12. LockSound'
  BY <1>3, <1>8, <1>9 DEF IInv, LockSound
<1>13. waiter[w] # "locked"
  BY <1>1, <1>2 DEF IInv, BatchSound
<1>14. ListSound'
  <2>1. ASSUME NEW u \in Threads
        PROVE  /\ waiter[u] = "locked" => u \in ToSet(waiters') /\ pc'[u] \in {"save", "block", "expired"}
               /\ waiter[u] = "released" => pc'[u] \in {"block", "expired"}
               /\ pc'[u] \in {"block", "expired"} => waiter[u] # "none"
               /\ pc'[u] # "save"
    <3>1. CASE u = n
      BY <1>1, <1>9, <3>1 DEF IInv, ListSound
    <3>2. CASE u # n
      BY <1>3, <1>9, <1>10, <1>13, <3>2 DEF IInv, ListSound
    <3> QED BY <3>1, <3>2
  <2>2. ASSUME NEW u \in ToSet(waiters')
        PROVE  waiter[u] = "locked" \/ (u = use.main /\ waiter[u] = "none")
    <3>1. u \in ToSet(waiters) /\ u # w
      BY <1>10, <2>2
    <3>2. ASSUME ~(waiter[u] = "locked" \/ (u = use.main /\ waiter[u] = "none")) PROVE FALSE
      <4>1. PICK m \in Threads : pc[m] = "remove" /\ Head(batch[m]) = u
        BY <3>1, <3>2 DEF IInv, ListSound
      <4> QED BY <1>2, <1>3, <3>1, <4>1
    <3> QED BY <3>2
  <2>3. \A u \in Threads : pc'[u] # "slice"
    BY <1>3, <1>9
  <2> QED BY <1>8, <1>10, <2>1, <2>2, <2>3 DEF ListSound
<1>15. BatchSound'
  <2>1. DOMAIN << >> = {}
    OBVIOUS
  <2>2. ASSUME NEW i \in DOMAIN r PROVE i + 1 \in DOMAIN batch[n] /\ r[i] = batch[n][i + 1] /\ i + 1 # 1
    BY <1>5
  <2>3. ASSUME NEW i \in DOMAIN r PROVE waiter[r[i]] # "released"
    BY <2>2 DEF IInv, BatchSound
  <2>4. ASSUME NEW i \in DOMAIN r, NEW x \in Threads, Before(x, r[i])'
        PROVE  \E j \in 1..(i - 1) : r[j] = x
    <3>1. PICK v : v = r[i]
      OBVIOUS
    <3>2. Precedes(waiters', x, v)
      BY <1>4, <2>4, <3>1 DEF Before, Precedes
    <3>3. Before(x, batch[n][i + 1]) /\ x \in ToSet(waiters')
      <4>1. Precedes(waiters, x, v)
        BY <1>10, <3>2
      <4>2. v = batch[n][i + 1]
        BY <2>2, <3>1
      <4>3. Before(x, v)
        BY <4>1 DEF Before, Precedes
      <4>4. x \in ToSet(waiters')
        BY <3>2 DEF Precedes, ToSet
      <4> QED BY <4>2, <4>3, <4>4
    <3>4. PICK j \in 1..((i + 1) - 1) : batch[n][j] = x
      BY <2>2, <3>3 DEF IInv, BatchSound
    <3>5. j # 1
      BY <1>5, <1>10, <3>3, <3>4
    <3>6. j - 1 \in 1..(i - 1) /\ j - 1 \in 1..(Len(batch[n]) - 1) /\ (j - 1) + 1 = j
      BY <1>5, <3>4, <3>5
    <3>7. r[j - 1] = x
      BY <1>5, <3>4, <3>6
    <3> QED BY <3>6, <3>7
  <2>5. ASSUME NEW m \in Threads
        PROVE  /\ batch'[m] # <<>> <=> pc'[m] \in {"notify", "remove"}
               /\ IsInjective(batch'[m])
               /\ \A i \in DOMAIN batch'[m] : waiter[batch'[m][i]] = "released" => i = 1 /\ pc'[m] = "remove"
               /\ pc'[m] = "remove" => waiter[Head(batch'[m])] # "locked"
    <3>1. CASE m = n
      BY <1>5, <1>9, <2>3, <3>1
    <3>2. CASE m # n
      BY <1>3, <1>9, <2>1, <3>2 DEF IInv, BatchSound
    <3> QED BY <3>1, <3>2
  <2>6. ASSUME NEW m \in Threads, NEW i \in DOMAIN batch'[m], NEW x \in Threads,
               Before(x, batch[m][i])'
        PROVE  \E j \in 1..(i - 1) : batch'[m][j] = x
    <3>1. CASE m = n
      <4>1. Before(x, r[i])'
        BY <1>4, <1>9, <2>6, <3>1 DEF Before
      <4> QED BY <1>9, <2>4, <2>6, <3>1, <4>1
    <3>2. CASE m # n
      BY <1>3, <1>9, <2>1, <2>6, <3>2
    <3> QED BY <3>1, <3>2
  <2> QED BY <1>8, <2>5, <2>6 DEF BatchSound
<1>16. NoError'
  BY <1>9 DEF IInv, NoError
<1> QED BY <1>11, <1>12, <1>14, <1>15, <1>16 DEF IInv

LEMMA InitHolds == Init => IInv
<1> SUFFICES ASSUME Init PROVE IInv
  OBVIOUS
<1>1. << >> \in BoundedSeq(Threads, Cardinality(Threads)) /\ DOMAIN << >> = {} /\ ToSet(<< >>) = {}
  <2>1. << >> \in Seq(Threads) /\ Len(<< >>) = 0
    BY EmptySeq
  <2>2. Len(<< >>) <= Cardinality(Threads)
    BY <2>1, ListTypes
  <2>3. << >> \in BoundedSeq(Threads, Cardinality(Threads))
    BY <2>1, <2>2, ListTypes
  <2>4. DOMAIN << >> = {}
    OBVIOUS
  <2>5. ToSet(<< >>) = {}
    BY <2>4 DEF ToSet
  <2> QED BY <2>3, <2>4, <2>5
<1>2. TypeOK
  BY <1>1, ConditionAssumption DEF Init, TypeOK
<1>3. LockSound
  BY DEF Init, LockSound
<1>4. ListSound
  BY <1>1 DEF Init, ListSound, IsInjective
<1>5. BatchSound
  BY <1>1 DEF Init, BatchSound, IsInjective
<1>6. NoError
  BY DEF Init, NoError
<1> QED BY <1>2, <1>3, <1>4, <1>5, <1>6 DEF IInv

LEMMA StepKeeps ==
  ASSUME Careful, IInv, NEW t \in Threads, Step(t)
  PROVE  IInv'
<1>1. CASE Acquire(t) \/ Release(t)
  BY <1>1, LockStepKeeps
<1>2. ASSUME NEW hasTimeout \in BOOLEAN, Wait(t, hasTimeout) PROVE IInv'
  BY <1>2, WaitKeeps
<1>3. CASE ReleaseSave(t) \/ RemoveSelf(t)
  BY <1>3, ReleaseSaveKeeps, RemoveSelfKeeps
<1>4. CASE BackStep(t)
  BY <1>4, BackStepKeeps
<1>5. ASSUME NEW n \in 1..Cardinality(Threads), Snapshot(t, n) PROVE IInv'
  BY <1>5, SnapshotKeeps
<1>6. CASE NotifyRelease(t) \/ NotifyRemove(t)
  BY <1>6, NotifyReleaseKeeps, NotifyRemoveKeeps
<1>7. CASE Slice(t) \/ SnapshotRaises(t)
  BY <1>7, SliceKeeps
<1> QED BY <1>1, <1>2, <1>3, <1>4, <1>5, <1>6, <1>7 DEF Step, BackStep

\* For any number of threads and any depth of recursion: the lock, the deque and
\* the snapshots of notify() stay sound.
THEOREM ConditionInvariance ==
  ASSUME Careful
  PROVE  Spec => []IInv
<1>1. IInv /\ [Next]_vars => IInv'
  <2> SUFFICES ASSUME IInv, [Next]_vars PROVE IInv'
    OBVIOUS
  <2>1. CASE UNCHANGED vars
    <3>1. UNCHANGED <<use, owner, count, waiters, waiter, pc, timed, saved, batch, stale>>
      BY <2>1 DEF vars
    <3> QED BY <3>1 DEF IInv, TypeOK, LockSound, ListSound, BatchSound, Before, NoError
  <2>2. CASE Next
    BY <2>2, StepKeeps DEF Next
  <2> QED BY <2>1, <2>2
<1> QED BY <1>1, InitHolds, PTL DEF Spec

\* No entry outlives its wait(), but for one left by an interrupt, and notify() never
\* raises with some threads woken and others not.
THEOREM WaitersStaySound ==
  ASSUME Careful
  PROVE  Spec => []WaitersSound
<1>1. IInv => WaitersSound
  <2> SUFFICES ASSUME IInv PROVE NoGhostWaiter
    BY DEF IInv, WaitersSound
  <2> QED BY TypeFacts DEF IInv, ListSound, NoGhostWaiter
<1> QED BY <1>1, ConditionInvariance, PTL

-----------------------------------------------------------------------------
(* Each step of the condition is one of the monitor, or a stutter.          *)

\* What Mode says, one thread at a time; who is blocked has a waiter lock.
ModeOf(p, w) ==
  IF p = "block" THEN (IF w = "locked" THEN "asleep" ELSE IF w = "released" THEN "awake" ELSE "run")
  ELSE IF p = "expired" THEN "gaveup"
  ELSE IF p = "restore" THEN "awake" ELSE "run"

LEMMA ModeAt == Mode = [t \in Threads |-> ModeOf(pc[t], waiter[t])]
<1>1. \A t \in Threads : (CASE Asleep(t) -> "asleep"
                           [] pc[t] = "expired" -> "gaveup"
                           [] pc[t] = "restore" \/ (pc[t] = "block" /\ waiter[t] = "released") -> "awake"
                           [] OTHER -> "run")
                        = ModeOf(pc[t], waiter[t])
  BY DEF Asleep, ModeOf
<1> QED BY <1>1 DEF Mode

LEMMA ModeNext ==
  Mode' = [t \in Threads |-> ModeOf(pc'[t], waiter'[t])]
<1>1. \A t \in Threads : (CASE Asleep(t)' -> "asleep"
                           [] pc'[t] = "expired" -> "gaveup"
                           [] pc'[t] = "restore" \/ (pc'[t] = "block" /\ waiter'[t] = "released") -> "awake"
                           [] OTHER -> "run")
                        = ModeOf(pc'[t], waiter'[t])
  BY DEF Asleep, ModeOf
<1> QED BY <1>1 DEF Mode

\* A step of one thread changes at most its own mode, and to what it is now.
LEMMA ModeChanges ==
  ASSUME NEW t \in Threads,
         \A u \in Threads \ {t} : pc'[u] = pc[u] /\ waiter'[u] = waiter[u]
  PROVE  Mode' = [Mode EXCEPT ![t] = ModeOf(pc'[t], waiter'[t])]
BY ModeAt, ModeNext

\* Whoever is in Served is being taken off by the notify() of the lock's owner, and
\* its waiter lock is not locked.
LEMMA ServedFacts ==
  ASSUME IInv
  PROVE  /\ \A n \in Threads : pc[n] = "remove" => owner = n /\ Served = {Head(batch[n])}
         /\ (\A n \in Threads : pc[n] # "remove") => Served = {}
         /\ \A u \in Served : /\ waiter[u] # "locked"
                              /\ \E n \in Threads : pc[n] = "remove" /\ Head(batch[n]) = u
<1>1. \A n \in Threads : pc[n] = "remove" =>
         owner = n /\ waiter[Head(batch[n])] # "locked" /\ \A m \in Threads \ {n} : pc[m] # "remove"
  BY DEF IInv, LockSound, BatchSound
<1> QED BY <1>1 DEF Served

LEMMA ServedSame ==
  ASSUME \A n \in Threads : /\ pc'[n] = "remove" <=> pc[n] = "remove"
                            /\ pc[n] = "remove" => batch'[n] = batch[n]
  PROVE  Served' = Served
BY DEF Served

\* What is being taken off is at the head; who has not freed the lock yet is at the
\* end, and then nothing is being taken off.
LEMMA OddOnes ==
  ASSUME IInv
  PROVE  /\ waiters \in Seq(Threads) /\ IsInjective(waiters)
         /\ waiters # <<>> => Head(waiters) \in ToSet(waiters) /\ Last(waiters) \in ToSet(waiters)
         /\ \A u \in ToSet(waiters) : u \in Threads
         /\ \A u \in ToSet(waiters) : u \in Served => u = Head(waiters)
         /\ \A u \in Threads : pc[u] = "save" =>
              /\ u = Last(waiters) /\ waiter[u] = "locked" /\ u \in ToSet(waiters)
              /\ owner = u /\ Served = {}
<1>1. waiters \in Seq(Threads) /\ IsInjective(waiters) /\ \A u \in ToSet(waiters) : u \in Threads
  BY TypeFacts DEF IInv, ListSound
<1>2. waiters # <<>> => Head(waiters) \in ToSet(waiters) /\ Last(waiters) \in ToSet(waiters)
  BY <1>1, EndOfList
<1>3. \A u \in ToSet(waiters) : u \in Served => u = Head(waiters)
  BY ServedFacts, ServedIsHead
<1>4. ASSUME NEW u \in Threads, pc[u] = "save"
      PROVE  /\ u = Last(waiters) /\ waiter[u] = "locked" /\ u \in ToSet(waiters)
             /\ owner = u /\ Served = {}
  <2>1. \A n \in Threads : pc[n] # "remove"
    BY <1>4 DEF IInv, LockSound
  <2> QED BY <1>4, <2>1, ServedFacts DEF IInv, LockSound, ListSound
<1> QED BY <1>1, <1>2, <1>3, <1>4

\* If nothing is being taken off and nobody has still to free the lock, all that
\* are listed are in line.
LEMMA WholeLine ==
  ASSUME IInv, \A n \in Threads : pc[n] \notin {"save", "remove"}
  PROVE  Line = waiters /\ Served = {}
<1>1. Served = {}
  BY ServedFacts
<1> QED BY <1>1, OddOnes DEF Line

LEMMA LineSame ==
  ASSUME IInv, waiters' = waiters, Served' = Served,
         \A u \in Threads : pc'[u] = "save" <=> pc[u] = "save"
  PROVE  Line' = Line
BY OddOnes DEF Line

\* Who owns the lock and is not in notify() has no call in progress and owes no
\* signal.
LEMMA AtRest ==
  ASSUME IInv, owner # None => pc[owner] \notin {"slice", "notify", "remove"}
  PROVE  Call = "none" /\ Due = <<>>
<1>1. owner # None => owner \in Threads /\ batch[owner] = <<>>
  BY DEF IInv, TypeOK, BatchSound
<1> QED BY <1>1 DEF Call, Due

\* Steps of anybody else, or outside notify().
LEMMA CallSame ==
  ASSUME IInv, owner' = owner, batch' = batch,
         \A u \in Threads : u = owner =>
           /\ \/ pc'[u] = pc[u]
              \/ {pc[u], pc'[u]} \cap {"slice", "notify", "remove"} = {}
           /\ pc[u] = "slice" => (u \in stale' <=> u \in stale)
  PROVE  Call' = Call /\ Due' = Due
<1>1. CASE owner = None
  BY <1>1 DEF Call, Due
<1>2. CASE owner # None
  <2>1. owner \in Threads
    BY <1>2 DEF IInv, TypeOK
  <2>2. CASE pc'[owner] = pc[owner]
    BY <1>2, <2>1, <2>2 DEF Call, Due
  <2>3. CASE {pc[owner], pc'[owner]} \cap {"slice", "notify", "remove"} = {}
    <3>1. /\ pc[owner] \notin {"slice", "notify", "remove"}
          /\ pc'[owner] \notin {"slice", "notify", "remove"}
      BY <2>3
    <3> QED BY <1>2, <3>1 DEF Call, Due
  <2> QED BY <2>1, <2>2, <2>3
<1> QED BY <1>1, <1>2

LEMMA LockStepMaps ==
  ASSUME IInv, NEW t \in Threads, Acquire(t) \/ Release(t)
  PROVE  M!Enter(t) \/ M!Exit(t) \/ UNCHANGED M!mvars
<1>1. /\ pc' = pc /\ waiter' = waiter /\ waiters' = waiters /\ batch' = batch /\ use' = use
      /\ pc[t] = "run" /\ stale' = stale
  BY DEF Acquire, Release
<1>2. Served' = Served
  BY <1>1, ServedSame
<1>3. Line' = Line
  BY <1>1, <1>2, LineSame
<1>4. Mode' = Mode /\ Mode[t] = "run"
  BY <1>1, ModeAt, ModeNext DEF ModeOf
<1>5. batch[t] = <<>>
  BY <1>1 DEF IInv, BatchSound
<1>6. owner \in {None, t} /\ owner' \in {None, t}
  BY DEF Acquire, Release
<1>7. Call = "none" /\ Due = <<>>
  BY <1>1, <1>6, AtRest
<1>8. Call' = "none" /\ Due' = <<>>
  BY <1>1, <1>5, <1>6 DEF Call, Due
<1>9. CASE Acquire(t)
  BY <1>1, <1>3, <1>4, <1>7, <1>8, <1>9 DEF Acquire, M!Enter, M!mvars
<1>10. CASE Release(t)
  BY <1>1, <1>3, <1>4, <1>7, <1>8, <1>10 DEF Release, M!Exit, M!Holds, M!mvars
<1> QED BY <1>9, <1>10

\* Who has been appended but has not freed the lock is not in line yet.
LEMMA WaitMaps ==
  ASSUME Careful, IInv, NEW t \in Threads, NEW hasTimeout \in BOOLEAN, Wait(t, hasTimeout)
  PROVE  UNCHANGED M!mvars
<1>1. owner = t /\ pc[t] = "run"
  BY MayCallOwns DEF Wait
<1>2. \A n \in Threads : pc[n] \notin {"save", "slice", "notify", "remove"}
  BY <1>1, Quiet
<1>3. /\ owner' = owner /\ waiters' = Append(waiters, t) /\ batch' = batch /\ use' = use
      /\ waiter'[t] = "locked" /\ pc'[t] = "save"
      /\ \A u \in Threads \ {t} : waiter'[u] = waiter[u] /\ pc'[u] = pc[u]
  BY DEF Wait, IInv, TypeOK
<1>4. Mode' = Mode
  BY <1>1, <1>3, ModeAt, ModeNext DEF ModeOf
<1>5. Front(waiters') = waiters /\ Last(waiters') = t /\ waiters' # <<>>
  BY <1>3, OddOnes, FrontAppend
<1>6. Line = waiters /\ Served = {}
  BY <1>2, WholeLine
<1>7. Served' = Served
  BY <1>1, <1>3, ServedSame
<1>8. Line' = waiters
  BY <1>3, <1>5, <1>6, <1>7 DEF Line
<1>9. Call' = Call /\ Due' = Due
  BY <1>1, <1>3, CallSame
<1> QED BY <1>3, <1>4, <1>6, <1>8, <1>9 DEF M!mvars

LEMMA ReleaseSaveMaps ==
  ASSUME IInv, NEW t \in Threads, ReleaseSave(t)
  PROVE  M!Sleep(t)
<1>1. owner = t /\ pc[t] = "save" /\ owner # None
  BY ConditionAssumption DEF ReleaseSave, IInv, LockSound
<1>2. /\ waiters' = waiters /\ waiter' = waiter /\ owner' = None /\ pc'[t] = "block"
      /\ \A u \in Threads \ {t} : pc'[u] = pc[u]
      /\ batch' = batch /\ use' = use
  BY <1>1 DEF ReleaseSave, IInv, TypeOK
<1>3. t = Last(waiters) /\ waiter[t] = "locked" /\ t \in ToSet(waiters) /\ Served = {}
  BY <1>1, OddOnes
<1>4. waiters # <<>>
  BY <1>3, OddOnes, ListMembers
<1>5. Served' = Served
  BY <1>1, <1>2, ServedSame
<1>6. \A u \in Threads : pc'[u] # "save"
  BY <1>1, <1>2 DEF IInv, LockSound
<1>7. Line = Front(waiters)
  BY <1>1, <1>3, <1>4 DEF Line
<1>8. Line' = waiters
  BY <1>2, <1>3, <1>4, <1>5, <1>6, OddOnes DEF Line
<1>9. Line' = Append(Line, t)
  BY <1>3, <1>4, <1>7, <1>8, OddOnes, AppendFront
<1>10. Mode[t] = "run" /\ Mode' = [Mode EXCEPT ![t] = "asleep"]
  BY <1>1, <1>2, <1>3, ModeAt, ModeChanges DEF ModeOf
<1>11. Call = "none" /\ Due = <<>>
  BY <1>1, AtRest
<1>12. Call' = "none" /\ Due' = <<>>
  <2>1. batch[t] = <<>>
    BY <1>1 DEF IInv, BatchSound
  <2> QED BY <1>2 DEF Call, Due
<1> QED BY <1>1, <1>2, <1>9, <1>10, <1>11, <1>12 DEF M!Sleep, M!Holds

LEMMA BackStepMaps ==
  ASSUME IInv, NEW t \in Threads, BackStep(t)
  PROVE  M!GiveUp(t) \/ M!Abandon(t) \/ M!Reenter(t) \/ UNCHANGED M!mvars
<1>1. /\ waiters' = waiters /\ use' = use /\ batch' = batch /\ stale' = stale
      /\ pc[t] \in {"block", "expired", "restore"} /\ pc'[t] \in {"expired", "restore", "run"}
      /\ \A u \in Threads \ {t} : waiter'[u] = waiter[u] /\ pc'[u] = pc[u]
  BY DEF BackStep, IInv, TypeOK, WaiterAcquired, Expire, Interrupt, AcquireRestore
<1>2. Served' = Served
  BY <1>1, ServedSame
<1>3. Line' = Line
  BY <1>1, <1>2, LineSame
<1>4. Mode' = [Mode EXCEPT ![t] = ModeOf(pc'[t], waiter'[t])] /\ Mode[t] = ModeOf(pc[t], waiter[t])
  BY <1>1, ModeAt, ModeChanges
<1>5. owner' = owner => Call' = Call /\ Due' = Due
  <2>1. {pc[t], pc'[t]} \cap {"slice", "notify", "remove"} = {}
    BY <1>1
  <2> QED BY <1>1, <2>1, CallSame
<1>6. CASE WaiterAcquired(t)
  <2>1. Mode[t] = "awake" /\ Mode' = [Mode EXCEPT ![t] = "awake"] /\ owner' = owner
    BY <1>4, <1>6 DEF WaiterAcquired, ModeOf, IInv, TypeOK
  <2>2. Mode' = Mode
    BY <2>1, ModeAt
  <2> QED BY <1>1, <1>3, <1>5, <2>1, <2>2 DEF M!mvars
<1>7. CASE Expire(t)
  <2>1. Mode[t] = "asleep" /\ Mode' = [Mode EXCEPT ![t] = "gaveup"] /\ owner' = owner
    BY <1>4, <1>7 DEF Expire, ModeOf, IInv, TypeOK
  <2> QED BY <1>1, <1>3, <1>5, <2>1 DEF M!GiveUp
<1>8. CASE Interrupt(t)
  <2>1. Mode[t] \in {"asleep", "gaveup", "awake"} /\ Mode' = [Mode EXCEPT ![t] = "awake"]
        /\ owner' = owner /\ t = use.main
    <3>1. /\ pc[t] \in {"block", "expired"} /\ pc'[t] = "restore" /\ waiter[t] # "none"
          /\ waiter[t] \in {"none", "locked", "released"} /\ owner' = owner /\ t = use.main
      BY <1>8 DEF Interrupt, IInv, TypeOK, ListSound
    <3> QED BY <1>4, <3>1 DEF ModeOf
  <2>2. CASE Mode[t] = "awake"
    <3>1. Mode' = Mode
      BY <2>1, <2>2, ModeAt
    <3> QED BY <1>1, <1>3, <1>5, <2>1, <3>1 DEF M!mvars
  <2>3. CASE Mode[t] # "awake"
    BY <1>1, <1>3, <1>5, <2>1, <2>3 DEF M!Abandon
  <2> QED BY <2>2, <2>3
<1>9. CASE AcquireRestore(t)
  <2>1. owner = None /\ owner' = t /\ pc[t] = "restore" /\ pc'[t] = "run"
    BY <1>9 DEF AcquireRestore, IInv, TypeOK
  <2>2. Call = "none" /\ Due = <<>>
    BY <2>1, AtRest
  <2>3. batch[t] = <<>>
    BY <2>1 DEF IInv, BatchSound
  <2>4. Call' = "none" /\ Due' = <<>>
    BY <1>1, <2>1, <2>3 DEF Call, Due
  <2>5. Mode[t] = "awake" /\ Mode' = [Mode EXCEPT ![t] = "run"]
    BY <1>4, <2>1 DEF ModeOf
  <2> QED BY <1>1, <1>3, <2>1, <2>2, <2>4, <2>5 DEF M!Reenter
<1> QED BY <1>6, <1>7, <1>8, <1>9 DEF BackStep

\* The monitor's copy of RemoveFirst is the condition's.
LEMMA SameRemoval ==
  ASSUME NEW s, NEW x
  PROVE  M!RemoveFirst(s, x) = RemoveFirst(s, x)
BY DEF RemoveFirst, M!RemoveFirst, SelectInSeq, M!SelectInSeq, RemoveAt, M!RemoveAt, Min, M!Min

\* The entry of a sleeper whose time is up leaves the line, wherever it stands,
\* unless notify() has taken it out already.
LEMMA RemoveSelfMaps ==
  ASSUME IInv, NEW t \in Threads, RemoveSelf(t)
  PROVE  M!Leave(t)
<1>1. /\ pc[t] = "expired" /\ pc'[t] = "restore" /\ waiter'[t] = "none" /\ owner' = owner
      /\ \A u \in Threads \ {t} : waiter'[u] = waiter[u] /\ pc'[u] = pc[u]
      /\ waiters' = RemoveFirst(waiters, t) /\ stale' = StaleAfterRemove(t)
      /\ batch' = batch /\ use' = use
  BY DEF RemoveSelf, Unlist, IInv, TypeOK
<1>2. Mode[t] = "gaveup" /\ Mode' = [Mode EXCEPT ![t] = "awake"]
  BY <1>1, ModeAt, ModeChanges DEF ModeOf
<1>3. /\ waiters' \in Seq(Threads)
      /\ ToSet(waiters') = ToSet(waiters) \ {t}
      /\ waiters' # <<>> => Head(waiters') \in ToSet(waiters') /\ Last(waiters') \in ToSet(waiters')
  BY <1>1, OddOnes, RemoveList, EndOfList
<1>s. Served' = Served
  BY <1>1, ServedSame
<1>4. Line' = RemoveFirst(Line, t)
  <2>1. CASE waiters = <<>>
    <3>1. t \notin ToSet(waiters)
      BY <2>1, OddOnes, ListMembers
    <3>2. waiters' = waiters
      BY <1>1, <3>1, OddOnes, RemoveUnlisted
    <3> QED BY <1>1, <2>1, <3>2 DEF Line
  <2>2. CASE waiters # <<>> /\ Head(waiters) \in Served
    <3>1. Line = Tail(waiters)
      BY <2>2 DEF Line
    <3>2. \A u \in Threads : pc[u] # "save"
      <4>1. \E n \in Threads : pc[n] = "remove" /\ owner = n
        BY <2>2, ServedFacts
      <4> QED BY <4>1, <2>2, OddOnes
    <3>3. CASE t = Head(waiters)
      <4>1. waiters' = Tail(waiters)
        BY <1>1, <2>2, <3>3, OddOnes, RemoveHead
      <4>2. \A u \in ToSet(waiters') : u \notin Served' /\ pc'[u] # "save"
        BY <1>1, <1>3, <1>s, <3>2, <3>3, OddOnes
      <4>3. Line' = waiters'
        BY <1>3, <4>2 DEF Line
      <4>4. RemoveFirst(waiters', t) = waiters'
        BY <1>3, RemoveUnlisted
      <4> QED BY <3>1, <4>1, <4>3, <4>4
    <3>4. CASE t # Head(waiters)
      <4>1. /\ waiters' # <<>> /\ Head(waiters') = Head(waiters)
            /\ Tail(waiters') = RemoveFirst(Tail(waiters), t)
        BY <1>1, <2>2, <3>4, OddOnes, RemoveBehindHead
      <4>2. Head(waiters') \in Served'
        BY <1>s, <2>2, <4>1
      <4>3. Line' = Tail(waiters')
        BY <4>1, <4>2 DEF Line
      <4> QED BY <3>1, <4>1, <4>3
    <3> QED BY <3>3, <3>4
  <2>3. CASE waiters # <<>> /\ Head(waiters) \notin Served /\ pc[Last(waiters)] = "save"
    <3>1. Line = Front(waiters)
      BY <2>3 DEF Line
    <3>2. t # Last(waiters)
      BY <1>1, <2>3
    <3>3. /\ waiters' # <<>> /\ Last(waiters') = Last(waiters)
          /\ Front(waiters') = RemoveFirst(Front(waiters), t)
      BY <1>1, <2>3, <3>2, OddOnes, RemoveBeforeLast
    <3>4. pc'[Last(waiters')] = "save"
      BY <1>1, <2>3, <3>2, <3>3, OddOnes
    <3>5. Served = {}
      BY <2>3, OddOnes
    <3>6. Head(waiters') \notin Served'
      BY <1>s, <3>5
    <3>7. Line' = Front(waiters')
      BY <3>3, <3>4, <3>6 DEF Line
    <3> QED BY <3>1, <3>3, <3>7
  <2>4. CASE waiters # <<>> /\ Head(waiters) \notin Served /\ pc[Last(waiters)] # "save"
    <3>1. Line = waiters
      BY <2>4 DEF Line
    <3>2. \A u \in ToSet(waiters) : u \notin Served /\ pc[u] # "save"
      BY <2>4, OddOnes
    <3>3. \A u \in ToSet(waiters') : u \notin Served' /\ pc'[u] # "save"
      BY <1>1, <1>3, <1>s, <3>2, OddOnes
    <3>4. Line' = waiters'
      BY <1>3, <3>3 DEF Line
    <3> QED BY <1>1, <3>1, <3>4
  <2> QED BY <2>1, <2>2, <2>3, <2>4
<1>5. M!RemoveFirst(Line, t) = RemoveFirst(Line, t)
  BY SameRemoval
<1>6. Due' = Due /\ Call' = IF M!Spoils(t) THEN "spoilt" ELSE Call
  <2>1. CASE owner # None /\ pc[owner] = "slice"
    <3>1. owner \in Threads \ {t} /\ pc'[owner] = "slice" /\ owner \in Slicing
      BY <1>1, <2>1 DEF IInv, TypeOK, Slicing
    <3>2. Line = waiters
      BY <2>1, <3>1, WholeLine DEF IInv, LockSound
    <3>3. Turned(t) <=> t \in M!ToSet(Line) \/ Len(Line) > 1
      <4>1. Contains(waiters, t) <=> t \in M!ToSet(waiters)
        BY OddOnes, LenProperties DEF Contains, M!ToSet
      <4> QED BY <3>2, <4>1 DEF Turned
    <3>4. owner \in stale' <=> owner \in stale \/ Turned(t)
      BY <1>1, <3>1 DEF StaleAfterRemove
    <3>5. /\ Call = (IF owner \in stale THEN "spoilt" ELSE "copying")
          /\ Call' = (IF owner \in stale' THEN "spoilt" ELSE "copying")
          /\ Due' = Due
      BY <1>1, <2>1, <3>1 DEF Call, Due
    <3> QED BY <3>3, <3>4, <3>5 DEF M!Spoils
  <2>2. CASE ~(owner # None /\ pc[owner] = "slice")
    <3>1. {pc[t], pc'[t]} \cap {"slice", "notify", "remove"} = {}
      BY <1>1
    <3>2. Call' = Call /\ Due' = Due
      BY <1>1, <2>2, <3>1, CallSame, ConditionAssumption DEF IInv, TypeOK
    <3>3. Call # "copying"
      BY <2>2 DEF Call
    <3> QED BY <3>2, <3>3 DEF M!Spoils
  <2> QED BY <2>1, <2>2
<1> QED BY <1>1, <1>2, <1>4, <1>5, <1>6 DEF M!Leave

LEMMA SliceMaps ==
  ASSUME Careful, IInv, NEW t \in Threads, Slice(t)
  PROVE  M!Begin(t)
<1>1. owner = t /\ pc[t] = "run" /\ waiters # <<>> /\ owner # None
  BY MayCallOwns, ConditionAssumption DEF Slice
<1>2. /\ owner' = owner /\ waiters' = waiters /\ waiter' = waiter /\ batch' = batch
      /\ stale' = stale /\ use' = use /\ pc'[t] = "slice"
      /\ \A u \in Threads \ {t} : pc'[u] = pc[u]
  BY DEF Slice, IInv, TypeOK
<1>3. Line = waiters
  BY <1>1, WholeLine DEF IInv, LockSound
<1>4. Served' = Served
  BY <1>1, <1>2, ServedSame
<1>5. Line' = Line
  BY <1>1, <1>2, <1>4, LineSame
<1>6. Mode' = Mode /\ Mode[t] = "run"
  BY <1>1, <1>2, ModeAt, ModeNext DEF ModeOf
<1>7. Call = "none" /\ Due = <<>>
  BY <1>1, AtRest
<1>8. Call' = "copying" /\ Due' = <<>>
  <2>1. t \notin stale /\ batch[t] = <<>>
    BY <1>1 DEF IInv, TypeOK, BatchSound
  <2> QED BY <1>1, <1>2, <2>1 DEF Call, Due
<1> QED BY <1>1, <1>2, <1>3, <1>5, <1>6, <1>7, <1>8 DEF M!Begin, M!Holds

LEMMA SnapshotMaps ==
  ASSUME IInv, NEW t \in Threads, NEW n \in 1..Cardinality(Threads), Snapshot(t, n)
  PROVE  \E m \in 1..Len(Line) : M!Choose(t, m)
<1>1. owner = t /\ pc[t] = "slice" /\ t \notin stale /\ waiters # <<>> /\ owner # None
  BY ConditionAssumption DEF Snapshot, IInv, LockSound, ListSound
<1>2. /\ owner' = owner /\ waiters' = waiters /\ waiter' = waiter /\ use' = use
      /\ batch'[t] = Oldest(n) /\ pc'[t] = "notify"
      /\ \A u \in Threads \ {t} : pc'[u] = pc[u] /\ batch'[u] = batch[u]
  BY DEF Snapshot, IInv, TypeOK
<1>3. Line = waiters
  BY <1>1, WholeLine DEF IInv, LockSound
<1>4. Served' = Served
  BY <1>1, <1>2, ServedSame
<1>5. Line' = Line
  BY <1>1, <1>2, <1>4, LineSame
<1>6. Mode' = Mode
  BY <1>1, <1>2, ModeAt, ModeNext DEF ModeOf
<1>7. Call = "copying"
  BY <1>1 DEF Call
<1>8. Call' = "waking" /\ Due' = Oldest(n)
  BY <1>1, <1>2 DEF Call, Due
<1>9. PICK m \in 1..Len(Line) : Oldest(n) = SubSeq(Line, 1, m)
  <2>1. Len(waiters) \in Nat \ {0}
    BY <1>1, TypeFacts, EndOfList DEF IInv
  <2>2. (IF n < Len(waiters) THEN n ELSE Len(waiters)) \in 1..Len(waiters)
    BY <2>1, ListTypes
  <2> QED BY <1>3, <2>2 DEF Oldest
<1> QED BY <1>1, <1>2, <1>5, <1>6, <1>7, <1>8, <1>9 DEF M!Choose

LEMMA SnapshotRaisesMaps ==
  ASSUME IInv, NEW t \in Threads, SnapshotRaises(t)
  PROVE  M!Raise(t)
<1>1. owner = t /\ pc[t] = "slice" /\ t \in stale /\ owner # None
  BY ConditionAssumption DEF SnapshotRaises, IInv, LockSound
<1>2. /\ owner' = owner /\ waiters' = waiters /\ waiter' = waiter /\ use' = use
      /\ batch' = batch /\ pc'[t] = "run"
      /\ \A u \in Threads \ {t} : pc'[u] = pc[u]
  BY DEF SnapshotRaises, IInv, TypeOK
<1>3. Served' = Served
  BY <1>1, <1>2, ServedSame
<1>4. Line' = Line
  BY <1>1, <1>2, <1>3, LineSame
<1>5. Mode' = Mode
  BY <1>1, <1>2, ModeAt, ModeNext DEF ModeOf
<1>6. Call = "spoilt" /\ Call' = "none" /\ Due' = Due
  BY <1>1, <1>2 DEF Call, Due
<1> QED BY <1>1, <1>2, <1>4, <1>5, <1>6 DEF M!Raise

\* The release of a waiter lock is a signal to the head of the line; for a thread
\* that is gone it is nothing.
LEMMA NotifyReleaseMaps ==
  ASSUME IInv, NEW n \in Threads, NotifyRelease(n)
  PROVE  M!Signal(n)
<1>1. pc[n] = "notify"
  BY DEF NotifyRelease
<1>2. PICK w \in Threads : w = Head(batch[n])
  BY <1>1, OneNotifier
<1>3. /\ owner = n /\ owner # None /\ batch[n] # <<>> /\ batch[n] \in Seq(Threads)
      /\ \A m \in Threads \ {n} : pc[m] \notin {"save", "slice", "notify", "remove"}
  BY <1>1, OneNotifier, ConditionAssumption
<1>4. 1 \in DOMAIN batch[n] /\ batch[n][1] = w
  BY <1>2, <1>3, EndOfList
<1>5. waiter[w] # "released"
  BY <1>1, <1>4 DEF IInv, BatchSound
<1>6. /\ owner' = owner /\ waiters' = waiters /\ batch' = batch /\ use' = use
      /\ pc'[n] = "remove"
      /\ \A u \in Threads \ {n} : pc'[u] = pc[u]
      /\ waiter' = [waiter EXCEPT ![w] = IF @ = "locked" THEN "released" ELSE @]
  BY <1>2, <1>5 DEF NotifyRelease, IInv, TypeOK
<1>7. \A u \in Threads : pc[u] \notin {"save", "remove"} /\ pc'[u] # "save"
  BY <1>1, <1>3, <1>6
<1>8. Line = waiters /\ Served = {}
  BY <1>7, WholeLine
<1>9. Served' = {w}
  BY <1>2, <1>6, <1>7 DEF Served
<1>10. /\ Call = "waking" /\ Call' = "waking"
       /\ Due = batch[n] /\ Due' = Tail(batch[n])
  BY <1>1, <1>3, <1>6 DEF Call, Due
<1>11. Mode' = [Mode EXCEPT ![w] = IF @ = "asleep" THEN "awake" ELSE @]
  <2>1. CASE waiter[w] = "locked"
    <3>1. pc[w] \in {"block", "expired"} /\ w # n
      BY <1>1, <1>7, <2>1 DEF IInv, ListSound
    <3>2. waiter'[w] = "released" /\ \A u \in Threads \ {w} : waiter'[u] = waiter[u]
      BY <1>6, <2>1 DEF IInv, TypeOK
    <3>3. Mode' = [Mode EXCEPT ![w] = ModeOf(pc[w], "released")]
      <4>1. ModeOf(pc'[n], waiter'[n]) = ModeOf(pc[n], waiter[n])
        BY <1>1, <1>6 DEF ModeOf
      <4> QED BY <1>6, <3>1, <3>2, <4>1, ModeAt, ModeNext
    <3>4. ModeOf(pc[w], "released") = IF Mode[w] = "asleep" THEN "awake" ELSE Mode[w]
      BY <2>1, <3>1, ModeAt DEF ModeOf
    <3> QED BY <3>3, <3>4
  <2>2. CASE waiter[w] # "locked"
    <3>1. waiter' = waiter
      BY <1>6, <2>2 DEF IInv, TypeOK
    <3>2. Mode' = Mode
      BY <1>1, <1>6, <3>1, ModeAt, ModeNext DEF ModeOf
    <3>3. Mode[w] # "asleep"
      BY <2>2, ModeAt DEF ModeOf
    <3> QED BY <3>2, <3>3, ModeAt
  <2> QED BY <2>1, <2>2
<1>12. w \in M!ToSet(Line) <=> w \in ToSet(waiters)
  BY <1>8 DEF ToSet, M!ToSet
<1>13. CASE w \in ToSet(waiters)
  <2>1. waiters # <<>> /\ Head(waiters) = w
    BY <1>1, <1>2, <1>13, ServedIsHead
  <2>2. Line' = Tail(waiters)
    BY <1>6, <1>9, <2>1 DEF Line
  <2> QED BY <1>2, <1>3, <1>6, <1>8, <1>10, <1>11, <1>12, <1>13, <2>1, <2>2 DEF M!Signal
<1>14. CASE w \notin ToSet(waiters)
  <2>1. waiter[w] # "locked"
    BY <1>14 DEF IInv, ListSound
  <2>2. Mode' = Mode
    <3>1. Mode[w] # "asleep"
      BY <2>1, ModeAt DEF ModeOf
    <3> QED BY <1>11, <3>1, ModeAt
  <2>3. Line' = Line
    BY <1>6, <1>7, <1>8, <1>9, <1>14, OddOnes DEF Line
  <2> QED BY <1>2, <1>3, <1>6, <1>10, <1>12, <1>14, <2>2, <2>3 DEF M!Signal
<1> QED BY <1>13, <1>14

\* The entry taken off the deque has left the line before.
LEMMA NotifyRemoveMaps ==
  ASSUME IInv, NEW n \in Threads, NotifyRemove(n)
  PROVE  M!Done(n) \/ UNCHANGED M!mvars
<1>1. pc[n] = "remove"
  BY DEF NotifyRemove
<1>2. PICK w \in Threads : w = Head(batch[n])
  BY <1>1, OneNotifier
<1>3. /\ owner = n /\ owner # None /\ batch[n] # <<>> /\ batch[n] \in Seq(Threads)
      /\ \A m \in Threads \ {n} : pc[m] \notin {"save", "slice", "notify", "remove"}
  BY <1>1, OneNotifier, ConditionAssumption
<1>4. /\ owner' = owner /\ waiters' = RemoveFirst(waiters, w) /\ waiter' = waiter /\ use' = use
      /\ batch'[n] = Tail(batch[n])
      /\ pc'[n] = IF Len(batch[n]) = 1 THEN "run" ELSE "notify"
      /\ \A u \in Threads \ {n} : pc'[u] = pc[u]
  BY <1>2 DEF NotifyRemove, Unlist, IInv, TypeOK
<1>5. Mode' = Mode
  BY <1>1, <1>4, ModeAt, ModeNext DEF ModeOf
<1>6. Served = {w} /\ Served' = {}
  <2>1. Served = {w}
    BY <1>1, <1>2, ServedFacts
  <2>2. \A u \in Threads : pc'[u] # "remove"
    BY <1>3, <1>4
  <2> QED BY <2>1, <2>2 DEF Served
<1>7. /\ waiters' \in Seq(Threads) /\ ToSet(waiters') = ToSet(waiters) \ {w}
      /\ waiters' # <<>> => Head(waiters') \in ToSet(waiters') /\ Last(waiters') \in ToSet(waiters')
  BY <1>4, OddOnes, RemoveList, EndOfList
<1>8. \A u \in Threads : pc[u] # "save" /\ pc'[u] # "save"
  BY <1>1, <1>3, <1>4
<1>9. Line' = waiters'
  BY <1>6, <1>7, <1>8, OddOnes DEF Line
<1>10. Line = waiters'
  <2>1. CASE w \in ToSet(waiters)
    <3>1. waiters # <<>> /\ Head(waiters) = w
      BY <1>1, <1>2, <2>1, ServedIsHead
    <3>2. waiters' = Tail(waiters)
      BY <1>4, <3>1, OddOnes, RemoveHead
    <3> QED BY <1>6, <3>1, <3>2 DEF Line
  <2>2. CASE w \notin ToSet(waiters)
    <3>1. waiters' = waiters
      BY <1>4, <2>2, OddOnes, RemoveUnlisted
    <3> QED BY <1>6, <1>8, <2>2, <3>1, OddOnes DEF Line
  <2> QED BY <2>1, <2>2
<1>11. /\ Call = "waking" /\ Due = Tail(batch[n]) /\ Due' = Due
       /\ Call' = IF Len(batch[n]) = 1 THEN "none" ELSE "waking"
  BY <1>1, <1>3, <1>4 DEF Call, Due
<1>12. Len(batch[n]) = 1 => Tail(batch[n]) = <<>>
  <2>1. Tail(batch[n]) \in Seq(Threads) /\ Len(Tail(batch[n])) = Len(batch[n]) - 1
    BY <1>3, EndOfList
  <2>2. Len(batch[n]) = 1 => Len(Tail(batch[n])) = 0
    BY <2>1
  <2> QED BY <2>1, <2>2, EmptySeq
<1> QED BY <1>3, <1>4, <1>5, <1>9, <1>10, <1>11, <1>12 DEF M!Done, M!mvars

\* Every behaviour of the condition, over an RLock or used with care over a plain
\* Lock, is one of the monitor.
THEOREM ConditionImplementsMonitor ==
  ASSUME Careful
  PROVE  Spec => ImplementsMonitor
<1>1. Init => M!MonitorInit
  <2> SUFFICES ASSUME Init PROVE M!MonitorInit
    OBVIOUS
  <2>1. Line = <<>> /\ Call = "none" /\ Due = <<>>
    BY DEF Init, Line, Call, Due
  <2>2. Mode = [t \in Threads |-> "run"]
    BY ModeAt DEF Init, ModeOf
  <2>3. use.main \in Threads \cup {None}
    BY ConditionAssumption DEF Init
  <2> QED BY <2>1, <2>2, <2>3 DEF Init, M!MonitorInit
<1>2. IInv /\ [Next]_vars => [M!MonitorNext]_M!mvars
  <2> SUFFICES ASSUME IInv, [Next]_vars PROVE M!MonitorNext \/ UNCHANGED M!mvars
    BY DEF M!mvars
  <2>1. CASE UNCHANGED vars
    <3>1. UNCHANGED <<use, owner, waiters, waiter, pc, batch, stale>>
      BY <2>1 DEF vars
    <3>2. Line' = Line /\ Call' = Call /\ Due' = Due
      BY <3>1 DEF Line, Served, Call, Due
    <3>3. Mode' = Mode
      BY <3>1, ModeAt, ModeNext
    <3> QED BY <3>1, <3>2, <3>3 DEF M!mvars
  <2>2. ASSUME NEW t \in Threads, Step(t) PROVE M!MonitorNext \/ UNCHANGED M!mvars
    <3>1. CASE Acquire(t) \/ Release(t)
      BY <3>1, LockStepMaps DEF M!MonitorNext
    <3>2. ASSUME NEW hasTimeout \in BOOLEAN, Wait(t, hasTimeout) PROVE UNCHANGED M!mvars
      BY <3>2, WaitMaps
    <3>3. CASE ReleaseSave(t) \/ RemoveSelf(t)
      BY <3>3, ReleaseSaveMaps, RemoveSelfMaps DEF M!MonitorNext
    <3>4. CASE BackStep(t)
      BY <3>4, BackStepMaps DEF M!MonitorNext
    <3>5. ASSUME NEW n \in 1..Cardinality(Threads), Snapshot(t, n)
               PROVE  \E m \in 1..Len(Line) : M!Choose(t, m)
      BY <3>5, SnapshotMaps
    <3>6. CASE NotifyRelease(t) \/ NotifyRemove(t)
      BY <3>6, NotifyReleaseMaps, NotifyRemoveMaps DEF M!MonitorNext
    <3>7. CASE Slice(t) \/ SnapshotRaises(t)
      BY <3>7, SliceMaps, SnapshotRaisesMaps DEF M!MonitorNext
    <3>8. ASSUME NEW n \in 1..Cardinality(Threads), Snapshot(t, n) PROVE M!MonitorNext
      BY <3>5, <3>8 DEF M!MonitorNext
    <3> QED BY <2>2, <3>1, <3>2, <3>3, <3>4, <3>6, <3>7, <3>8 DEF Step, BackStep
  <2> QED BY <2>1, <2>2 DEF Next
<1> QED BY <1>1, <1>2, ConditionInvariance, PTL DEF Spec, ImplementsMonitor, M!MonitorSpec
=============================================================================
